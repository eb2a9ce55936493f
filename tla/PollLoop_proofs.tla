-------------------------- MODULE PollLoop_proofs --------------------------
(***************************************************************************)
(* Proofs about PollLoop for any poll interval, any floor and any bound on   *)
(* the duration of a refresh: types, safety, the safety part of the          *)
(* refinement, and that ticks and requests are served.                      *)
(***************************************************************************)
EXTENDS PollLoop, TLAPS

USE DurationsAssumption
  DEF channelVars, timerVars, requestVars, pollVars, historyVars, Refreshing

-----------------------------------------------------------------------------
(* Type correctness *)

LEMMA LeastInRange ==
  ASSUME NEW n \in Nat, NEW k \in 0..n
  PROVE  Least(k + 1, n) \in 0..n /\ Least(k + 1, n) >= k
  BY DEF Least

LEMMA DropInRange ==
  ASSUME NEW n \in Nat, NEW k \in 0..n
  PROVE  Drop(k) \in 0..n /\ Drop(k) <= k /\ (k > 0 => Drop(k) = k - 1)
  BY DEF Drop

\* As time passes an age grows by what a countdown loses.
LEMMA AgeAndCountdown ==
  ASSUME NEW a \in Int, NEW n \in Int, NEW b \in Int, NEW k \in Int,
         NEW s \in Int, a + n <= s, b <= a + 1, k = n - 1
  PROVE  b + k <= s
  OBVIOUS

LEMMA BoundIsNat == ServiceBound \in Nat
  BY DEF ServiceBound

LEMMA PollBoundIsNat ==
  PollBound \in Nat /\ PollBound >= ServiceBound /\ PollBound >= PollInterval
  BY BoundIsNat DEF PollBound

LEMMA ZeroInRange ==
  /\ 0 \in 0..PollInterval /\ 0 \in 0..MinEventInterval
  /\ 0 \in 0..MaxRefresh /\ 0 \in 0..(ServiceBound + 1)
  /\ 0 \in 0..(PollBound + 1)
  BY BoundIsNat, PollBoundIsNat

LEMMA TypeInit == Init => TypeOK
  BY ZeroInRange, Zenon DEF Init, TypeOK

LEMMA TypeElapse ==
  ASSUME TypeOK, Elapse
  PROVE  TypeOK'
<1>1. busy' \in 0..MaxRefresh
  BY DEF Elapse, TypeOK
<1>2. nap' \in 0..MinEventInterval /\ since' \in 0..MinEventInterval
  BY DropInRange, LeastInRange DEF Elapse, TypeOK
<1>3. toTick' \in 0..PollInterval
  BY DropInRange DEF Elapse, TypeOK
<1>4. age' \in 0..(ServiceBound + 1)
  <2>1. ServiceBound + 1 \in Nat /\ age \in 0..(ServiceBound + 1)
    BY BoundIsNat DEF TypeOK
  <2>2. Least(age + 1, ServiceBound + 1) \in 0..(ServiceBound + 1)
    BY <2>1, LeastInRange
  <2>3. QED
    BY <2>1, <2>2 DEF Elapse
<1>5. ticked' \in BOOLEAN
  BY DEF Elapse, TypeOK
<1>6. UNCHANGED <<pc, eventDriven, gRefreshNow, unserved>>
  BY DEF Elapse
<1>7. late' \in BOOLEAN
  BY DEF Elapse
<1>8. gap' \in 0..(PollBound + 1)
  <2>1. PollBound + 1 \in Nat /\ gap \in 0..(PollBound + 1)
    BY PollBoundIsNat DEF TypeOK
  <2>2. QED
    BY <2>1, LeastInRange DEF Elapse
<1>9. tardy' \in BOOLEAN
  BY DEF Elapse
<1>10. QED
  BY <1>1, <1>2, <1>3, <1>4, <1>5, <1>6, <1>7, <1>8, <1>9, Zenon DEF TypeOK

LEMMA TypeStep == TypeOK /\ [Next]_vars => TypeOK'
<1> SUFFICES ASSUME TypeOK, [Next]_vars PROVE TypeOK'
  OBVIOUS
<1> USE DEF TypeOK
<1>1. CASE Request
  BY <1>1 DEF Request
<1>2. CASE EnterLoop
  <2>1. PollInterval \in 0..PollInterval
    OBVIOUS
  <2>2. QED
    BY <1>2, <2>1, ZeroInRange, Zenon DEF EnterLoop
<1>3. CASE SelectTick
  BY <1>3 DEF SelectTick
<1>4. CASE SelectEvent
  BY <1>4 DEF SelectEvent
<1>5. CASE TooSoon
  BY <1>5 DEF TooSoon, NapAfter
<1>6. CASE LateEnough
  BY <1>6 DEF LateEnough
<1>7. CASE Wake
  BY <1>7 DEF Wake
<1>8. CASE Drain
  BY <1>8 DEF Drain
<1>9. CASE BeginRefresh
  BY <1>9, ZeroInRange, Zenon DEF BeginRefresh
<1>10. CASE EndRefresh
  BY <1>10 DEF EndRefresh
<1>11. CASE Elapse
  BY <1>11, TypeElapse
<1>12. CASE UNCHANGED vars
  BY <1>12 DEF vars
<1>13. QED
  BY <1>1, <1>2, <1>3, <1>4, <1>5, <1>6, <1>7, <1>8, <1>9, <1>10, <1>11, <1>12
  DEF Next, Loop

\* The loop's locals, its channels and its timers stay in their types; a timer
\* never passes the duration it counts.
THEOREM TypeCorrect == Spec => []TypeOK
  BY TypeInit, TypeStep, PTL DEF Spec

-----------------------------------------------------------------------------
(* No wakeup is lost *)

LEMMA WakeupInit == Init => NoLostWakeup
  BY DEF Init, NoLostWakeup

LEMMA WakeupStep == NoLostWakeup /\ [Next]_vars => NoLostWakeup'
<1> SUFFICES ASSUME NoLostWakeup, [Next]_vars PROVE NoLostWakeup'
  OBVIOUS
<1> USE DEF NoLostWakeup
<1>1. CASE Request
  BY <1>1 DEF Request
<1>2. CASE EnterLoop \/ EndRefresh
  BY <1>2 DEF EnterLoop, EndRefresh
<1>3. CASE SelectTick \/ SelectEvent
  BY <1>3 DEF SelectTick, SelectEvent
<1>4. CASE TooSoon \/ LateEnough \/ Wake \/ Drain
  BY <1>4 DEF TooSoon, LateEnough, Wake, Drain
<1>5. CASE BeginRefresh
  BY <1>5 DEF BeginRefresh
<1>6. CASE Elapse \/ UNCHANGED vars
  BY <1>6 DEF Elapse, vars
<1>7. QED
  BY <1>1, <1>2, <1>3, <1>4, <1>5, <1>6 DEF Next, Loop

\* A request that no refresh has begun after is always still remembered, in the
\* channel or in the loop's position.
THEOREM WakeupsKept == Spec => []NoLostWakeup
  BY WakeupInit, WakeupStep, PTL DEF Spec

-----------------------------------------------------------------------------
(* The floor *)

\* The strengthening: while pollLoop sleeps, the time since the last refresh and
\* what is left of the nap make up the floor.
FloorInv ==
  /\ pc = "sleep" => since + nap >= MinEventInterval
  /\ pc = "drain" => since >= MinEventInterval
  /\ pc = "begin" /\ eventDriven => since >= MinEventInterval

LEMMA FloorInit == Init => FloorInv
  BY DEF Init, FloorInv

LEMMA FloorStep == TypeOK /\ FloorInv /\ [Next]_vars => FloorInv'
<1> SUFFICES ASSUME TypeOK, FloorInv, [Next]_vars PROVE FloorInv'
  OBVIOUS
<1>0. since \in 0..MinEventInterval /\ nap \in 0..MinEventInterval
  BY DEF TypeOK
<1> USE DEF FloorInv
<1>1. CASE Request
  BY <1>1 DEF Request
<1>2. CASE EnterLoop \/ EndRefresh \/ BeginRefresh
  BY <1>2 DEF EnterLoop, EndRefresh, BeginRefresh
<1>3. CASE SelectTick \/ SelectEvent
  BY <1>3 DEF SelectTick, SelectEvent
<1>4. CASE TooSoon
  BY <1>0, <1>4 DEF TooSoon, NapAfter
<1>5. CASE LateEnough
  BY <1>5 DEF LateEnough
<1>6. CASE Wake
  BY <1>0, <1>6 DEF Wake
<1>7. CASE Drain
  BY <1>7 DEF Drain
<1>8. CASE Elapse
  <2>1. /\ nap' = (IF nap = 0 THEN 0 ELSE nap - 1)
        /\ since' = (IF since + 1 < MinEventInterval THEN since + 1
                                                     ELSE MinEventInterval)
        /\ UNCHANGED <<pc, eventDriven>>
    BY <1>8 DEF Elapse, Least, Drop
  <2>2. QED
    BY <1>0, <2>1
<1>9. CASE UNCHANGED vars
  BY <1>9 DEF vars
<1>10. QED
  BY <1>1, <1>2, <1>3, <1>4, <1>5, <1>6, <1>7, <1>8, <1>9 DEF Next, Loop

\* An event-driven refresh never begins sooner than the floor after the end of
\* the refresh before it.
THEOREM FloorKept == Spec => EventFloor
<1>1. FloorInv /\ [Next]_vars
        => [BeginRefresh /\ eventDriven => since >= MinEventInterval]_vars
  BY DEF FloorInv, BeginRefresh
<1>2. QED
  BY <1>1, TypeCorrect, FloorInit, FloorStep, PTL DEF Spec, EventFloor

-----------------------------------------------------------------------------
(* The latency of an event *)

\* The strengthening: how old the oldest unserved request may be, by position.
\* A request that came during a refresh is at most as old as the refresh; time
\* does not pass in a select that has a request to take.
LatencyInv ==
  /\ ~unserved => age = 0
  /\ ~late => /\ pc \in Refreshing => age <= busy
              /\ pc \in {"select", "check"} => age <= MaxRefresh
              /\ pc = "sleep" => age + nap <= ServiceBound
              /\ pc \in {"drain", "begin"} => age <= ServiceBound

LEMMA LatencyInit == Init => LatencyInv
  BY DEF Init, LatencyInv

LEMMA LatencyElapse ==
  ASSUME TypeOK, NoLostWakeup, LatencyInv, Elapse
  PROVE  LatencyInv'
<1>1. /\ age \in Nat /\ busy \in 0..MaxRefresh /\ nap \in 0..MinEventInterval
      /\ MaxRefresh \in Nat /\ MinEventInterval \in Nat
      /\ ServiceBound = MaxRefresh + MinEventInterval
  BY BoundIsNat DEF TypeOK, ServiceBound
<1>2. /\ UNCHANGED <<pc, unserved>>
      /\ nap' = (IF nap = 0 THEN 0 ELSE nap - 1)
      /\ busy' = (IF pc \in Refreshing THEN busy + 1 ELSE busy)
      /\ age' <= age + 1 /\ (~unserved => age' = age)
      /\ late' = (unserved /\ (late \/ Due))
  BY <1>1 DEF Elapse, Drop, Least, ServiceBound
<1>3. /\ age' \in Nat /\ busy' \in 0..MaxRefresh /\ nap' \in 0..MinEventInterval
  BY TypeElapse, BoundIsNat DEF TypeOK
<1>4. ~unserved' => age' = 0
  BY <1>2 DEF LatencyInv
<1>5. CASE ~unserved
  BY <1>1, <1>2, <1>3, <1>4, <1>5 DEF LatencyInv
<1>6. CASE unserved /\ (late \/ Due)
  BY <1>2, <1>4, <1>6 DEF LatencyInv
<1>7. CASE unserved /\ ~late /\ ~Due
  <2>1. pc' \in Refreshing => age' <= busy'
    BY <1>1, <1>2, <1>3, <1>7 DEF LatencyInv
  <2>2. pc' \notin {"select", "check", "drain", "begin"}
    BY <1>2, <1>7 DEF Due, NoLostWakeup
  <2>3. pc' = "sleep" => age' + nap' <= ServiceBound
    <3>1. SUFFICES ASSUME pc = "sleep" PROVE age' + nap' <= ServiceBound
      BY <1>2
    <3>2. nap # 0 /\ age + nap <= ServiceBound
      BY <1>7, <3>1 DEF Due, LatencyInv
    <3>3. nap' = nap - 1 /\ age' <= age + 1
      BY <1>2, <3>2
    <3>4. /\ age \in Int /\ nap \in Int /\ age' \in Int /\ nap' \in Int
          /\ ServiceBound \in Int
      BY <1>1, <1>3, BoundIsNat
    <3>5. QED
      BY <3>2, <3>3, <3>4, AgeAndCountdown
  <2>4. QED
    BY <1>4, <2>1, <2>2, <2>3 DEF LatencyInv
<1>8. QED
  BY <1>5, <1>6, <1>7

LEMMA LatencyStep ==
  TypeOK /\ NoLostWakeup /\ LatencyInv /\ [Next]_vars => LatencyInv'
<1> SUFFICES ASSUME TypeOK, NoLostWakeup, LatencyInv, [Next]_vars
             PROVE  LatencyInv'
  OBVIOUS
<1>0. /\ age \in Nat /\ busy \in 0..MaxRefresh /\ nap \in Nat
      /\ since \in 0..MinEventInterval
      /\ ServiceBound = MaxRefresh + MinEventInterval
  BY BoundIsNat DEF TypeOK, ServiceBound
<1> USE DEF LatencyInv
<1>1. CASE Request
  BY <1>0, <1>1 DEF Request
<1>2. CASE EnterLoop \/ EndRefresh
  BY <1>0, <1>2 DEF EnterLoop, EndRefresh
<1>3. CASE SelectTick \/ SelectEvent
  BY <1>0, <1>3 DEF SelectTick, SelectEvent
<1>4. CASE TooSoon
  BY <1>0, <1>4 DEF TooSoon, NapAfter
<1>5. CASE LateEnough
  BY <1>0, <1>5 DEF LateEnough
<1>6. CASE Wake \/ Drain
  BY <1>0, <1>6 DEF Wake, Drain
<1>7. CASE BeginRefresh
  BY <1>0, <1>7 DEF BeginRefresh
<1>8. CASE Elapse
  BY <1>8, LatencyElapse
<1>9. CASE UNCHANGED vars
  BY <1>9 DEF vars
<1>10. QED
  BY <1>1, <1>2, <1>3, <1>4, <1>5, <1>6, <1>7, <1>8, <1>9 DEF Next, Loop

\* No event waits longer than one refresh and the floor while pollLoop is
\* scheduled promptly, whichever channel each select takes.
THEOREM LatencyBounded == Spec => []ServedInTime
<1>1. TypeOK /\ LatencyInv => ServedInTime
  <2>1. TypeOK => /\ pc \in {"first", "select", "check", "sleep", "drain",
                             "begin", "refresh"}
                  /\ age \in Nat /\ nap \in Nat /\ busy \in 0..MaxRefresh
                  /\ ServiceBound = MaxRefresh + MinEventInterval
    BY BoundIsNat DEF TypeOK, ServiceBound
  <2>2. QED
    BY <2>1 DEF LatencyInv, ServedInTime
<1>2. QED
  BY <1>1, TypeInit, TypeStep, WakeupInit, WakeupStep, LatencyInit, LatencyStep,
     PTL DEF Spec

-----------------------------------------------------------------------------
(* How long the router goes unpolled *)

\* The strengthening: a running ticker that has not fired fires within the poll
\* interval of the last refresh, and one that fired while pollLoop was on its way to
\* an event-driven refresh, or in one, waits no longer than that refresh and the floor.
PollInv ==
  /\ pc # "first" => toTick > 0
  /\ ~tardy =>
       /\ pc \in Refreshing => gap <= busy
       /\ pc \notin {"first", "begin"} /\ ~ticked => gap + toTick <= PollInterval
       /\ pc \in {"select", "check"} /\ since < MinEventInterval
            => gap <= MaxRefresh + since
       /\ pc = "sleep" => gap + nap <= ServiceBound
       /\ pc \in {"select", "check", "drain", "begin"} => gap <= PollBound

LEMMA PollInit == Init => PollInv
  BY DEF Init, PollInv

\* The numbers of a state.
LEMMA PollRanges ==
  ASSUME TypeOK
  PROVE  /\ gap \in Nat /\ busy \in 0..MaxRefresh /\ nap \in 0..MinEventInterval
         /\ since \in 0..MinEventInterval /\ toTick \in 0..PollInterval
         /\ PollBound \in Nat /\ ServiceBound = MaxRefresh + MinEventInterval
         /\ PollBound >= PollInterval /\ PollBound >= ServiceBound
  BY PollBoundIsNat DEF TypeOK, ServiceBound

LEMMA PollElapse ==
  ASSUME TypeOK, PollInv, Elapse
  PROVE  PollInv'
<1>1. /\ UNCHANGED pc
      /\ busy' = (IF pc \in Refreshing THEN busy + 1 ELSE busy)
      /\ nap' = (IF nap = 0 THEN 0 ELSE nap - 1)
      /\ since' = (IF since + 1 < MinEventInterval THEN since + 1
                                                   ELSE MinEventInterval)
      /\ toTick' = (IF toTick = 1 THEN PollInterval
                                  ELSE IF toTick = 0 THEN 0 ELSE toTick - 1)
      /\ ticked' = (ticked \/ toTick = 1)
      /\ gap' <= gap + 1
      /\ tardy' = (tardy \/ Due)
  BY PollRanges DEF Elapse, Least, Drop
<1>2. gap' \in Nat /\ busy' \in Nat
  BY TypeElapse, PollRanges, PollBoundIsNat DEF TypeOK
<1>3. pc' # "first" => toTick' > 0
  BY PollRanges, <1>1 DEF PollInv
<1>4. SUFFICES ASSUME ~tardy, ~Due PROVE PollInv'
  BY <1>1, <1>3 DEF PollInv
<1>5. /\ pc \notin {"check", "drain", "begin"}
      /\ pc = "select" => ~ticked
      /\ pc = "sleep" => nap # 0
  BY <1>4 DEF Due
<1>6. pc' \in Refreshing => gap' <= busy'
  BY <1>1, <1>2, <1>4, PollRanges DEF PollInv
<1>7. pc' \notin {"first", "begin"} /\ ~ticked' => gap' + toTick' <= PollInterval
  <2>1. SUFFICES ASSUME pc \notin {"first", "begin"}, ~ticked, toTick # 1
                 PROVE  gap' + toTick' <= PollInterval
    BY <1>1
  <2>2. toTick > 0 /\ gap + toTick <= PollInterval
    BY <1>4, <2>1 DEF PollInv
  <2>3. toTick \in Nat /\ toTick' = toTick - 1 /\ gap' <= gap + 1
    BY <1>1, <2>1, <2>2, PollRanges
  <2>4. /\ gap \in Int /\ gap' \in Int /\ toTick \in Int /\ toTick' \in Int
        /\ PollInterval \in Int
    BY <1>2, <2>3, PollRanges
  <2>5. \A g, t \in Int : g <= gap + 1 /\ t = toTick - 1 => g + t <= PollInterval
    BY <2>2, <2>4
  <2>6. QED
    BY <2>3, <2>4, <2>5, Zenon
<1>8. pc' = "select" /\ since' < MinEventInterval => gap' <= MaxRefresh + since'
  BY <1>1, <1>2, <1>4, PollRanges DEF PollInv
<1>9. pc' = "sleep" => gap' + nap' <= ServiceBound
  BY <1>1, <1>2, <1>4, <1>5, PollRanges DEF PollInv
<1>10. pc' = "select" => gap' <= PollBound
  BY <1>1, <1>2, <1>4, <1>5, PollRanges DEF PollInv
<1>11. QED
  BY <1>1, <1>3, <1>5, <1>6, <1>7, <1>8, <1>9, <1>10 DEF PollInv

LEMMA PollStep == TypeOK /\ PollInv /\ [Next]_vars => PollInv'
<1> SUFFICES ASSUME TypeOK, PollInv, [Next]_vars PROVE PollInv'
  OBVIOUS
<1> USE DEF PollInv
<1>1. CASE Request
  BY <1>1 DEF Request
<1>2. CASE EnterLoop
  BY <1>2, PollRanges DEF EnterLoop
<1>3. CASE SelectTick
  BY <1>3 DEF SelectTick
<1>4. CASE SelectEvent
  BY <1>4 DEF SelectEvent
<1>5. CASE TooSoon
  BY <1>5, PollRanges DEF TooSoon, NapAfter
<1>6. CASE LateEnough
  BY <1>6 DEF LateEnough
<1>7. CASE Wake \/ Drain
  BY <1>7, PollRanges DEF Wake, Drain
<1>8. CASE BeginRefresh
  BY <1>8, PollRanges DEF BeginRefresh
<1>9. CASE EndRefresh
  BY <1>9, PollRanges DEF EndRefresh
<1>10. CASE Elapse
  BY <1>10, PollElapse
<1>11. CASE UNCHANGED vars
  BY <1>11 DEF vars
<1>12. QED
  BY <1>1, <1>2, <1>3, <1>4, <1>5, <1>6, <1>7, <1>8, <1>9, <1>10, <1>11
  DEF Next, Loop

\* While pollLoop is scheduled promptly, no flood of events and no slow refresh
\* keeps the next refresh away longer than PollBound.
THEOREM PollsAreOnTime == Spec => []PolledInTime
<1>1. TypeOK /\ PollInv => PolledInTime
  <2>1. TypeOK => /\ pc \in {"first", "select", "check", "sleep", "drain",
                             "begin", "refresh"}
    BY DEF TypeOK
  <2>2. QED
    BY <2>1, PollRanges DEF PollInv, PolledInTime
<1>2. QED
  BY <1>1, TypeInit, TypeStep, PollInit, PollStep, PTL DEF Spec

-----------------------------------------------------------------------------
(* Refinement *)

LEMMA RefinementStep ==
  [Next]_vars => [OnDemand!Next]_(OnDemand!vars)
<1> SUFFICES ASSUME [Next]_vars PROVE [OnDemand!Next]_(OnDemand!vars)
  OBVIOUS
<1> USE DEF OnDemand!vars
<1>1. CASE Request
  BY <1>1 DEF Request, OnDemand!Next, OnDemand!Change
<1>2. CASE EnterLoop \/ EndRefresh
  BY <1>2 DEF EnterLoop, EndRefresh, OnDemand!Next, OnDemand!End
<1>3. CASE BeginRefresh
  BY <1>3 DEF BeginRefresh, OnDemand!Next, OnDemand!Begin
<1>4. CASE SelectTick \/ SelectEvent \/ TooSoon \/ LateEnough \/ Wake \/ Drain
  BY <1>4 DEF SelectTick, SelectEvent, TooSoon, LateEnough, Wake, Drain
<1>5. CASE Elapse \/ UNCHANGED vars
  BY <1>5 DEF Elapse, vars
<1>6. QED
  BY <1>1, <1>2, <1>3, <1>4, <1>5 DEF Next, Loop

\* The safety part of OnDemandRefresh: refreshes do not overlap, and a request is
\* served by no refresh but one that begins after it.
THEOREM SafetyRefined == Spec => OnDemand!Safety
<1>1. Init => OnDemand!Init
  BY DEF Init, OnDemand!Init
<1>2. QED
  BY <1>1, RefinementStep, PTL DEF Spec, OnDemand!Safety

-----------------------------------------------------------------------------
(* Progress. pollLoop goes round and round while there is something to refresh for, and *)
(* its select takes a tick sooner or later.                                          *)

At(p) == pc = p
Ticked == ticked
Requested == gRefreshNow
Unserved == unserved
Scheduled == At("begin") /\ ~eventDriven

\* Where pollLoop can go on at once: only the sleep and an empty select hold it up.
Ready ==
  \/ At("first") \/ At("check") \/ At("drain") \/ At("begin") \/ At("refresh")
  \/ At("select") /\ (Ticked \/ Requested)

\* What Fairness says of pollLoop, with the guards in the place of ENABLED; and what it
\* says of time, in the end: a sleep returns.
ExplicitFairness ==
  /\ []<>~Ready \/ []<><<Loop>>_vars
  /\ <>[]~(At("select") /\ Ticked) \/ []<><<SelectTick>>_vars
  /\ []<>~At("sleep")

\* Where pollLoop goes, and that it goes nowhere else.
LEMMA LoopStep ==
  /\ TypeOK /\ [Next]_vars =>
       /\ At("first") => At("first")' \/ At("select")'
       /\ At("select") => At("select")' \/ At("check")' \/ At("begin")'
       /\ At("check") => At("check")' \/ At("sleep")' \/ At("begin")'
       /\ At("sleep") => At("sleep")' \/ At("drain")'
       /\ At("drain") => At("drain")' \/ At("begin")'
       /\ At("begin") => At("begin")' \/ (At("refresh")' /\ ~Unserved')
       /\ At("refresh") => At("refresh")' \/ At("select")'
       /\ Ticked => Ticked' \/ Scheduled'
       /\ At("select") /\ Requested => Requested' \/ ~At("select")'
  /\ TypeOK /\ <<Loop>>_vars =>
       /\ At("first") => ~At("first")'
       /\ At("select") => ~At("select")'
       /\ At("check") => ~At("check")'
       /\ At("drain") => ~At("drain")'
       /\ At("begin") => ~At("begin")'
       /\ At("refresh") => ~At("refresh")'
  /\ <<SelectTick>>_vars => Scheduled'
  /\ TypeOK => \/ At("first") \/ At("select") \/ At("check") \/ At("sleep")
               \/ At("drain") \/ At("begin") \/ At("refresh")
  /\ NoLostWakeup /\ Unserved =>
       Requested \/ At("check") \/ At("sleep") \/ At("drain") \/ At("begin")
<1> USE DEF At, Ticked, Requested, Unserved, Scheduled
<1>1. Loop => /\ At("first") => ~At("first")'
              /\ At("select") => ~At("select")'
              /\ At("check") => ~At("check")'
              /\ At("drain") => ~At("drain")'
              /\ At("begin") => ~At("begin")'
              /\ At("refresh") => ~At("refresh")'
  BY DEF Loop, EnterLoop, SelectTick, SelectEvent, TooSoon, LateEnough, Wake, Drain,
         BeginRefresh, EndRefresh
<1>2. ASSUME TypeOK, [Next]_vars
      PROVE  /\ At("first") => At("first")' \/ At("select")'
             /\ At("select") => At("select")' \/ At("check")' \/ At("begin")'
             /\ At("check") => At("check")' \/ At("sleep")' \/ At("begin")'
             /\ At("sleep") => At("sleep")' \/ At("drain")'
             /\ At("drain") => At("drain")' \/ At("begin")'
             /\ At("begin") => At("begin")' \/ (At("refresh")' /\ ~Unserved')
             /\ At("refresh") => At("refresh")' \/ At("select")'
             /\ Ticked => Ticked' \/ Scheduled'
             /\ At("select") /\ Requested => Requested' \/ ~At("select")'
  <2>1. CASE Loop
    BY <2>1 DEF Loop, EnterLoop, SelectTick, SelectEvent, TooSoon, LateEnough, Wake, Drain,
                BeginRefresh, EndRefresh
  <2>2. CASE Request BY <2>2 DEF Request
  <2>3. CASE Elapse BY <2>3 DEF Elapse
  <2>4. CASE UNCHANGED vars BY <2>4 DEF vars
  <2> QED BY <1>2, <2>1, <2>2, <2>3, <2>4 DEF Next
<1>3. SelectTick => Scheduled' BY DEF SelectTick
<1>4. TypeOK => \/ At("first") \/ At("select") \/ At("check") \/ At("sleep")
                \/ At("drain") \/ At("begin") \/ At("refresh")
  BY DEF TypeOK
<1>5. NoLostWakeup /\ Unserved =>
        Requested \/ At("check") \/ At("sleep") \/ At("drain") \/ At("begin")
  BY DEF NoLostWakeup
<1> QED BY <1>1, <1>2, <1>3, <1>4, <1>5

\* A tick is taken, and a poll that is not event-driven begins, however many events there
\* are (state.go), for any durations.
THEOREM PollsDoRun == Spec /\ ExplicitFairness => ScheduledPollsRun
<1>1. Scheduled => pc = "begin" /\ ~eventDriven BY DEF Scheduled, At
<1>2. Ticked <=> ticked BY DEF Ticked
<1> QED BY <1>1, <1>2, LoopStep, TypeCorrect, PTL
        DEF Spec, ExplicitFairness, Ready, ScheduledPollsRun

RequestsAreServed == unserved ~> ~unserved

\* A request of a bus handler is followed by a refresh that begins after it
\* (requestRefresh): what ServesEveryRequest promises, for any durations.
THEOREM RequestsDoGetServed == Spec /\ ExplicitFairness => RequestsAreServed
<1>1. Unserved <=> unserved BY DEF Unserved
<1> QED BY <1>1, LoopStep, TypeCorrect, WakeupsKept, PTL
        DEF Spec, ExplicitFairness, Ready, RequestsAreServed
=============================================================================
