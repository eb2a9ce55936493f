------------------------------ MODULE WakeOnLan ------------------------------
(***************************************************************************)
(* Waking one device: the service spr.wake_on_lan, which asks the routers of  *)
(* the loaded entries one after the other (handle_wake, __init__.py), the     *)
(* button of one router (button.py), the request (api.py), and the plugin    *)
(* that emits the packet (handleWake, sendWOL). Entries are unloaded, set up  *)
(* and learn of the device while a call is waiting; an answer may come late,  *)
(* break off, or be lost after the packet is sent. Home Assistant takes an    *)
(* entry's runtime_data away when it is unloaded. Calls do not touch each     *)
(* other, so one is followed at a time, and no request beyond its end.       *)
(***************************************************************************)
EXTENDS Naturals, FiniteSets, Sequences, SequencesExt

CONSTANT Entry  \* the config entries

ASSUME EntryAssumption == IsFiniteSet(Entry)

VARIABLES
  loaded,   \* entries that are loaded
  knows,    \* entries whose coordinator has the device in its table
  call,     \* who is calling, if anyone: the service, or a button
  todo,     \* local: the rest of `ordered`
  waiting,  \* whether the request to Head(todo) is out
  serving,  \* routers: those that still have a request to serve
  reply,    \* what the router that was asked has replied
  outcome,  \* how the last call ended
  chosen,   \* history: `ordered`
  owners,   \* history: loaded entries that knew the device when it was called
  asked,    \* history: entries asked since
  sent,     \* history: routers that emitted the packet since
  unloaded  \* history: entries that were unloaded since

world == <<loaded, knows>>
callVars == <<call, todo, waiting, serving, reply, outcome>>
history == <<chosen, owners, asked, sent, unloaded>>
wakeVars == <<world, callVars, history>>

WakeTypeOK ==
  /\ loaded \subseteq Entry /\ knows \subseteq loaded
  /\ call \in {"none", "service", "button"}
  /\ todo \in Seq(Entry) /\ IsInjective(todo)
  /\ waiting \in BOOLEAN /\ (waiting => todo # <<>>)
  /\ serving \subseteq Entry
  /\ reply \in {"none", "ok", "rejected", "error", "foreign"}
  /\ outcome \in {"none", "woken", "failed", "unconfigured", "broken"}
  /\ {ToSet(chosen), owners, asked, sent, unloaded} \subseteq SUBSET Entry

WakeInit ==
  /\ loaded = {} /\ knows = {}
  /\ call = "none" /\ todo = <<>> /\ waiting = FALSE /\ serving = {}
  /\ reply = "none" /\ outcome = "none"
  /\ chosen = <<>> /\ owners = {} /\ asked = {} /\ sent = {} /\ unloaded = {}

-----------------------------------------------------------------------------
(* Entries come and go, and their tables change. *)

Load(e) ==
  /\ e \notin loaded
  /\ loaded' = loaded \union {e}
  /\ UNCHANGED <<knows, callVars, history>>

Unload(e) ==
  /\ e \in loaded
  /\ loaded' = loaded \ {e} /\ knows' = knows \ {e}
  /\ unloaded' = unloaded \union {e}
  /\ UNCHANGED <<callVars, chosen, owners, asked, sent>>

\* A poll finds the device, or does not find it any more.
Poll(e) ==
  /\ e \in loaded
  /\ knows' = IF e \in knows THEN knows \ {e} ELSE knows \union {e}
  /\ UNCHANGED <<loaded, callVars, history>>

-----------------------------------------------------------------------------
(* The call *)

Begin(by, ordered) ==
  /\ call' = by /\ todo' = ordered /\ chosen' = ordered /\ owners' = knows
  /\ asked' = {} /\ sent' = {} /\ unloaded' = {}
  /\ waiting' = FALSE /\ reply' = "none" /\ serving' = {} /\ outcome' = "none"
  /\ UNCHANGED world

\* Faulty variant of Ordered: any router will do.
OrderedAnyhow == SetToSeqs(loaded)
\* owning or entries, in whatever order Home Assistant lists them
Ordered == SetToSeqs(IF knows = {} THEN loaded ELSE knows)

HandleWake ==
  /\ call = "none"
  /\ IF loaded # {}
       THEN \E ordered \in Ordered : Begin("service", ordered)
       ELSE outcome' = "unconfigured"
            /\ UNCHANGED <<world, call, todo, waiting, serving, reply, history>>

\* async_press: this router and no other.
Press(e) ==
  /\ call = "none" /\ e \in loaded
  /\ Begin("button", <<e>>)

Ended(how) ==
  /\ call' = "none" /\ outcome' = how /\ todo' = <<>> /\ waiting' = FALSE
  /\ reply' = "none"

\* entry.runtime_data.api.wake_on_lan(mac); the button has its coordinator at hand.
Ask ==
  /\ call # "none" /\ todo # <<>> /\ ~waiting
  /\ call = "service" => Head(todo) \in loaded
  /\ waiting' = TRUE /\ serving' = serving \union {Head(todo)}
  /\ asked' = asked \union {Head(todo)}
  /\ UNCHANGED <<world, call, todo, reply, outcome, chosen, owners, sent, unloaded>>

\* The entry has no runtime_data any more: not an SprApiError, so the call ends.
AskUnloaded ==
  /\ call = "service" /\ todo # <<>> /\ ~waiting
  /\ Head(todo) \notin loaded
  /\ Ended("broken")
  /\ UNCHANGED <<world, serving, history>>

Replies(e, what) ==
  reply' = IF waiting /\ e = Head(todo) THEN what ELSE reply

\* handleWake: sendWOL gets at least one of its packets out.
RouterWakes(e) ==
  /\ e \in serving
  /\ serving' = serving \ {e} /\ sent' = sent \union {e}
  /\ Replies(e, "ok")
  /\ UNCHANGED <<world, call, todo, waiting, outcome, chosen, owners, asked, unloaded>>

\* It gets none out, or the request does not come to that: the token is rejected (401,
\* 403), another error is reported (400 and above), or what answers in the plugin's
\* place does not say JSON.
RouterRefuses(e) ==
  /\ e \in serving
  /\ serving' = serving \ {e}
  /\ \E what \in {"rejected", "error", "foreign"} : Replies(e, what)
  /\ UNCHANGED <<world, call, todo, waiting, outcome, history>>

\* Faulty variant of Answered: the status of the answer is not looked at.
AnsweredAnyhow ==
  /\ waiting /\ reply # "none"
  /\ Ended("woken")
  /\ UNCHANGED <<world, serving, history>>
Answered ==
  /\ waiting /\ reply = "ok"
  /\ Ended("woken")
  /\ UNCHANGED <<world, serving, history>>

\* Faulty variants of AskFails: the first error is the last; it is not caught; the
\* same router is asked again; the loop has no end.
AskFailsForGood == waiting /\ Ended("failed") /\ UNCHANGED <<world, serving, history>>
AskFailsUncaught == waiting /\ Ended("broken") /\ UNCHANGED <<world, serving, history>>
AskFailsAgain ==
  /\ waiting
  /\ waiting' = FALSE /\ reply' = "none"
  /\ UNCHANGED <<world, call, todo, serving, outcome, history>>
AskFailsOnly ==
  /\ waiting
  /\ todo' = Tail(todo) /\ reply' = "none"
  /\ UNCHANGED <<world, call, waiting, serving, outcome, history>>
\* An error, a lost answer, or none within 10 seconds: SprApiError, and the next.
AskFails ==
  /\ waiting
  /\ IF Len(todo) = 1
       THEN Ended("failed")
       ELSE /\ todo' = Tail(todo) /\ waiting' = FALSE /\ reply' = "none"
            /\ UNCHANGED <<call, outcome>>
  /\ UNCHANGED <<world, serving, history>>

\* Reading the body of the answer fails, which _get does outside its try: it breaks off,
\* takes too long, or is not JSON where resp.json() wants it. A rejection has no body read.
AnswerBreaksOff ==
  /\ waiting /\ reply \in {"ok", "error", "foreign"}
  /\ Ended("broken")
  /\ UNCHANGED <<world, serving, history>>

\* A request is over.
RequestEnds == Answered \/ AskFails \/ AnswerBreaksOff

-----------------------------------------------------------------------------

Call == HandleWake \/ (\E e \in Entry : Press(e)) \/ Ask \/ AskUnloaded
        \/ RequestEnds
Router == \E e \in Entry : RouterWakes(e) \/ RouterRefuses(e)
Entries == \E e \in Entry : Load(e) \/ Unload(e) \/ Poll(e)

WakeNext == Call \/ Router \/ Entries

WakeSpec == WakeInit /\ [][WakeNext]_wakeVars

\* The event loop runs the call, and a request ends after 10 seconds at the latest, in
\* whatever way.
WakeFairSpec == WakeSpec /\ WF_wakeVars(Ask \/ AskUnloaded) /\ WF_wakeVars(RequestEnds)

-----------------------------------------------------------------------------
(* Properties *)

\* The packet goes out where the device is: whatever router is asked knew the device
\* when the service was called, unless none did (__init__.py: "Prefer the router that
\* actually knows this device"), however the tables have changed since.
RightDomain == call = "service" /\ owners # {} => asked \subseteq owners

\* A call that ends with "Wake on LAN failed" has asked every router it had chosen: no
\* failure of one router, nor a lost answer, keeps the next from being tried, whatever
\* is loaded, unloaded or forgotten meanwhile (the loop of handle_wake).
EveryRouterTried ==
  [][call # "none" /\ outcome' = "failed" => asked = ToSet(chosen)]_wakeVars

\* A call breaks, which may leave routers of its list untried, for one of two
\* reasons: an entry it had chosen was unloaded since, or the router it is waiting for has
\* done with the request and the answer could not be read. One that is silent or out of
\* reach does not break it (the except of handle_wake).
BreaksForAReason ==
  [][call # "none" /\ outcome' = "broken" =>
       \/ unloaded \cap ToSet(chosen) # {}
       \/ waiting /\ Head(todo) \in asked \ serving]_wakeVars

\* Success is only reported when a router that was chosen has emitted the packet since
\* the call (the return in the loop of handle_wake), also when an earlier router's answer
\* comes after the loop has gone on to the next.
SuccessIsReal == outcome = "woken" => sent \cap ToSet(chosen) # {}

\* Every call ends, however many routers are silent.
CallsEnd == call # "none" ~> call = "none"
=============================================================================
