------------------------------ MODULE PollLoop ------------------------------
(***************************************************************************)
(* When the plugin refreshes (state.go): pollLoop waits for its ticker or    *)
(* for the one-place channel gRefreshNow that the bus handlers fill, and     *)
(* holds event-driven refreshes to a floor. What a refresh does is module    *)
(* RefreshState.                                                            *)
(*                                                                          *)
(* Time passes in units, and every duration is kept relative to the present  *)
(* (a countdown, or a saturating age), so the state space is finite without  *)
(* bounding the run. Durations are the code's: minEventInterval, the         *)
(* configured poll interval, and the longest refreshState can take, which    *)
(* the 15 s client timeout of each of its requests bounds.                   *)
(***************************************************************************)
EXTENDS Integers

CONSTANTS
  PollInterval,      \* ticker period
  MinEventInterval,  \* floor between event-driven refreshes
  MaxRefresh         \* longest a refreshState can take

ASSUME DurationsAssumption ==
  /\ PollInterval \in Nat \ {0}
  /\ MinEventInterval \in Nat \ {0}
  /\ MaxRefresh \in Nat \ {0}

VARIABLES
  pc,           \* where pollLoop is
  eventDriven,  \* local: the wakeup came from gRefreshNow
  gRefreshNow,  \* the channel of capacity one: full or empty
  ticked,       \* ticker.C, also of capacity one
  toTick,       \* time until the ticker fires next; 0 before it exists
  since,        \* time.Since(last), saturating at the floor
  nap,          \* what is left of time.Sleep
  busy,         \* how long the current refreshState has been running
  unserved,     \* history: a request came after the last refresh began
  age,          \* history: how long ago the oldest unserved request came
  late,         \* history: since then time passed with pollLoop not scheduled
  gap,          \* history: time since the last refresh began (or the ticker did)
  tardy         \* history: since then time passed with pollLoop not scheduled

channelVars == <<gRefreshNow, ticked>>
timerVars == <<toTick, since, nap, busy>>
requestVars == <<unserved, age, late>>
pollVars == <<gap, tardy>>
historyVars == <<requestVars, pollVars>>
vars == <<pc, eventDriven, channelVars, timerVars, historyVars>>

\* The longest an event waits for a refresh to begin.
ServiceBound == MaxRefresh + MinEventInterval

Least(a, b) == IF a < b THEN a ELSE b

\* The longest pollLoop goes without beginning a refresh.
PollBound == IF PollInterval < ServiceBound THEN ServiceBound ELSE PollInterval

Drop(n) == IF n = 0 THEN 0 ELSE n - 1

Refreshing == {"first", "refresh"}

TypeOK ==
  /\ pc \in {"first", "select", "check", "sleep", "drain", "begin", "refresh"}
  /\ eventDriven \in BOOLEAN
  /\ gRefreshNow \in BOOLEAN
  /\ ticked \in BOOLEAN
  /\ toTick \in 0..PollInterval
  /\ since \in 0..MinEventInterval
  /\ nap \in 0..MinEventInterval
  /\ busy \in 0..MaxRefresh
  /\ unserved \in BOOLEAN
  /\ age \in 0..(ServiceBound + 1)
  /\ late \in BOOLEAN
  /\ gap \in 0..(PollBound + 1)
  /\ tardy \in BOOLEAN

Init ==
  /\ pc = "first"
  /\ eventDriven = FALSE
  /\ gRefreshNow = FALSE /\ ticked = FALSE
  /\ toTick = 0 /\ since = 0 /\ nap = 0 /\ busy = 0
  /\ unserved = FALSE /\ age = 0 /\ late = FALSE
  /\ gap = 0 /\ tardy = FALSE

-----------------------------------------------------------------------------
(* The bus handlers *)

\* requestRefresh: a send that gives up when the channel is full already.
Request ==
  /\ gRefreshNow' = TRUE
  /\ unserved' = TRUE
  /\ UNCHANGED <<pc, eventDriven, ticked, timerVars, age, late, pollVars>>

-----------------------------------------------------------------------------
(* pollLoop *)

\* The first refreshState has returned: the ticker starts, and `last` is set.
EnterLoop ==
  /\ pc = "first"
  /\ pc' = "select"
  /\ toTick' = PollInterval
  /\ since' = 0
  /\ busy' = 0
  /\ gap' = 0 /\ tardy' = FALSE
  /\ UNCHANGED <<eventDriven, channelVars, nap, requestVars>>

\* Faulty variant of SelectTick: events go first.
SelectTickIfNoEvent ==
  /\ pc = "select"
  /\ ticked /\ ~gRefreshNow
  /\ ticked' = FALSE
  /\ eventDriven' = FALSE
  /\ pc' = "begin"
  /\ UNCHANGED <<gRefreshNow, timerVars, historyVars>>

SelectTick ==
  /\ pc = "select"
  /\ ticked
  /\ ticked' = FALSE
  /\ eventDriven' = FALSE
  /\ pc' = "begin"
  /\ UNCHANGED <<gRefreshNow, timerVars, historyVars>>

SelectEvent ==
  /\ pc = "select"
  /\ gRefreshNow
  /\ gRefreshNow' = FALSE
  /\ eventDriven' = TRUE
  /\ pc' = "check"
  /\ UNCHANGED <<ticked, timerVars, historyVars>>

\* Faulty variants of NapAfter: too short, too long.
NapElapsed(elapsed) == elapsed
NapBoth(elapsed) == MinEventInterval + elapsed
\* How long an event-driven refresh is put off.
NapAfter(elapsed) == MinEventInterval - elapsed

TooSoon ==
  /\ pc = "check"
  /\ since < MinEventInterval
  /\ nap' = NapAfter(since)
  /\ pc' = "sleep"
  /\ UNCHANGED <<eventDriven, channelVars, toTick, since, busy, historyVars>>

LateEnough ==
  /\ pc = "check"
  /\ since >= MinEventInterval
  /\ pc' = "begin"
  /\ UNCHANGED <<eventDriven, channelVars, timerVars, historyVars>>

Wake ==
  /\ pc = "sleep"
  /\ nap = 0
  /\ pc' = "drain"
  /\ UNCHANGED <<eventDriven, channelVars, timerVars, historyVars>>

\* Faulty variant of Drain: a debounce in place of a floor, so that events while
\* sleeping put the refresh off.
DrainAndSleepAgain ==
  /\ pc = "drain"
  /\ gRefreshNow' = FALSE
  /\ pc' = IF gRefreshNow THEN "sleep" ELSE "begin"
  /\ nap' = IF gRefreshNow THEN MinEventInterval ELSE nap
  /\ UNCHANGED <<eventDriven, ticked, toTick, since, busy, historyVars>>

\* The events that piled up while sleeping collapse into this refresh.
Drain ==
  /\ pc = "drain"
  /\ gRefreshNow' = FALSE
  /\ pc' = "begin"
  /\ UNCHANGED <<eventDriven, ticked, timerVars, historyVars>>

\* refreshState is entered: whatever it reads is read after this instant.
BeginRefresh ==
  /\ pc = "begin"
  /\ pc' = "refresh"
  /\ unserved' = FALSE
  /\ age' = 0
  /\ late' = FALSE
  /\ gap' = 0 /\ tardy' = FALSE
  /\ UNCHANGED <<eventDriven, channelVars, timerVars>>

\* Faulty variant of EndRefresh: the drain is done after the refresh.
EndRefreshAndDrain ==
  /\ pc = "refresh"
  /\ pc' = "select"
  /\ gRefreshNow' = FALSE
  /\ since' = 0 /\ busy' = 0 /\ nap' = 0
  /\ UNCHANGED <<eventDriven, ticked, toTick, historyVars>>

\* Faulty variant of EndRefresh: the ticker starts over after every refresh.
EndRefreshAndResetTicker ==
  /\ pc = "refresh"
  /\ pc' = "select"
  /\ since' = 0 /\ busy' = 0 /\ nap' = 0
  /\ ticked' = FALSE
  /\ toTick' = PollInterval
  /\ UNCHANGED <<eventDriven, gRefreshNow, historyVars>>

\* It returns, and `last` is set.
EndRefresh ==
  /\ pc = "refresh"
  /\ pc' = "select"
  /\ since' = 0
  /\ busy' = 0
  /\ nap' = 0
  /\ UNCHANGED <<eventDriven, channelVars, toTick, historyVars>>

Loop ==
  \/ EnterLoop \/ SelectTick \/ SelectEvent \/ TooSoon \/ LateEnough
  \/ Wake \/ Drain \/ BeginRefresh \/ EndRefresh

-----------------------------------------------------------------------------
(* Time *)

\* pollLoop could take a step other than returning from a refresh: a scheduler
\* that lets time pass now is late.
Due ==
  \/ pc \in {"check", "drain", "begin"}
  \/ pc = "select" /\ (gRefreshNow \/ ticked)
  \/ pc = "sleep" /\ nap = 0

\* One unit of time. The ticker drops a tick that nobody has taken.
Elapse ==
  /\ pc \in Refreshing => busy < MaxRefresh
  /\ busy' = IF pc \in Refreshing THEN busy + 1 ELSE busy
  /\ nap' = Drop(nap)
  /\ since' = Least(since + 1, MinEventInterval)
  /\ toTick' = IF toTick = 1 THEN PollInterval ELSE Drop(toTick)
  /\ ticked' = (ticked \/ toTick = 1)
  /\ age' = IF unserved THEN Least(age + 1, ServiceBound + 1) ELSE age
  /\ late' = (unserved /\ (late \/ Due))
  /\ gap' = Least(gap + 1, PollBound + 1)
  /\ tardy' = (tardy \/ Due)
  /\ UNCHANGED <<pc, eventDriven, gRefreshNow, unserved>>

Next == Request \/ Loop \/ Elapse

\* The goroutine is scheduled and each refresh returns; a select with both
\* channels ready chooses at random, so neither can lose for ever.
Fairness == WF_vars(Loop) /\ SF_vars(SelectTick) /\ WF_vars(Elapse)

Spec == Init /\ [][Next]_vars
FairSpec == Spec /\ Fairness

-----------------------------------------------------------------------------
(* Properties *)

\* No wakeup is lost: while a request is unserved there is a token in the
\* channel or pollLoop is on its way to a refresh it has not entered yet.
\* (Draining the channel, dropping a send and taking a tick first are all
\* places where a request could be forgotten.)
NoLostWakeup ==
  unserved => gRefreshNow \/ pc \in {"check", "sleep", "drain", "begin"}

\* The floor of state.go: however the events, ticks and refreshes interleave, an
\* event-driven refresh begins no sooner than MinEventInterval after the end of
\* the refresh before it.
EventFloor ==
  [][BeginRefresh /\ eventDriven => since >= MinEventInterval]_vars

\* An event waits at most for the refresh under way and then for the floor,
\* whichever channel wins each select, as long as pollLoop is scheduled promptly
\* while the event waits.
ServedInTime == ~late => age <= ServiceBound

\* Events, which may keep pollLoop in its sleep or in refreshes when the ticker
\* fires, put no poll off for long: while it is scheduled promptly it begins a
\* refresh at least once in a poll interval, or in the time one refresh and the
\* floor take if that is longer. (The first interval counts from the start of the
\* ticker, in EnterLoop: nothing is claimed of the refresh before it.)
PolledInTime == ~tardy => gap <= PollBound

\* "Scheduled polls always run" (state.go): a flood of events cannot keep a
\* tick waiting for ever.
ScheduledPollsRun == ticked ~> (pc = "begin" /\ ~eventDriven)

\* pollLoop implements OnDemandRefresh.
OnDemand == INSTANCE OnDemandRefresh
              WITH stale <- unserved, working <- pc \in Refreshing

ServesEveryRequest == OnDemand!Spec
=============================================================================
