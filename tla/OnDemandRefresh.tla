-------------------------- MODULE OnDemandRefresh --------------------------
(***************************************************************************)
(* What pollLoop promises the bus handlers: refreshes run one at a time, and *)
(* every change is read by a refresh that begins after it. It says nothing   *)
(* of timers, channels or floors; PollLoop is shown to implement it.         *)
(***************************************************************************)

VARIABLES
  stale,    \* a change no refresh has begun after
  working   \* a refresh is under way

vars == <<stale, working>>

TypeOK == stale \in BOOLEAN /\ working \in BOOLEAN

\* The plugin starts with a refresh.
Init == stale = FALSE /\ working = TRUE

Change == stale' = TRUE /\ UNCHANGED working

Begin == ~working /\ working' = TRUE /\ stale' = FALSE

End == working /\ working' = FALSE /\ UNCHANGED stale

Next == Change \/ Begin \/ End

Fairness == WF_vars(stale /\ Begin) /\ WF_vars(End)

Safety == Init /\ [][Next]_vars

Spec == Safety /\ Fairness
=============================================================================
