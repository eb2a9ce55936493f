------------------------ MODULE Entries_proofs ------------------------
(***************************************************************************)
(* Proofs about config entries. EntryLifecycle, one entry: types, that an     *)
(* entry which stops asking the router has asked the user, however tokens are *)
(* rotated, that push stops only for a reason, and that polling and push come *)
(* back. WakeOnLan, a call over all entries: types, its safety properties,   *)
(* and that it gets on, for any number of entries in any order.              *)
(***************************************************************************)
EXTENDS EntryLifecycle, WakeOnLan, FiniteSetTheorems, SequenceTheorems, TLAPS

-----------------------------------------------------------------------------
(* EntryLifecycle *)

LEMMA TypeStep == TypeOK /\ [Next]_vars => TypeOK'
<1> SUFFICES ASSUME TypeOK, [Next]_vars PROVE TypeOK'
  OBVIOUS
<1> USE DEF TypeOK, router
<1>1. CASE SetUp
  BY <1>1 DEF SetUp, BeginSetUp, SetUpDone, SetUpRejected, SetUpFails
<1>2. CASE Update
  BY <1>2 DEF Update, BeginUpdate, UpdateDone, UpdateRejected, UpdateFails
<1>3. CASE Push
  BY <1>3 DEF Push, Connect, Refused, ConnectFails, StreamEnds, Retry, Listen
<1>4. CASE Reload BY <1>4 DEF Reload
<1>5. CASE Outside BY <1>5 DEF Outside, Rotate, ReauthDone, Reconfigure, Restart
<1>6. CASE UNCHANGED vars BY <1>6 DEF vars, router
<1> QED BY <1>1, <1>2, <1>3, <1>4, <1>5, <1>6 DEF Next

\* Every variable keeps its type; in particular the token that is stored, and the one
\* in use, are tokens.
THEOREM TypeCorrect == Spec => []TypeOK
<1>1. Init => TypeOK BY DEF Init, TypeOK
<1> QED BY <1>1, TypeStep, PTL DEF Spec

LEMMA SilentStep == NeverSilent /\ [Next]_vars => NeverSilent'
<1> SUFFICES ASSUME NeverSilent, [Next]_vars PROVE NeverSilent'
  OBVIOUS
<1> USE DEF NeverSilent
<1>1. CASE SetUp
  BY <1>1 DEF SetUp, BeginSetUp, SetUpDone, SetUpRejected, SetUpFails
<1>2. CASE Update
  BY <1>2 DEF Update, BeginUpdate, UpdateDone, UpdateRejected, UpdateFails
<1>3. CASE Push
  BY <1>3 DEF Push, Connect, Refused, ConnectFails, StreamEnds, Retry, Listen
<1>4. CASE Reload BY <1>4 DEF Reload
<1>5. CASE Outside BY <1>5 DEF Outside, Rotate, ReauthDone, Reconfigure, Restart
<1>6. CASE UNCHANGED vars BY <1>6 DEF vars, router
<1> QED BY <1>1, <1>2, <1>3, <1>4, <1>5, <1>6 DEF Next

\* An entry that has gone quiet has asked for a token (coordinator.py raises
\* ConfigEntryAuthFailed at a rejected update), for any tokens and rotations.
THEOREM HelpIsAskedFor == Spec => []NeverSilent
<1>1. Init => NeverSilent BY DEF Init, NeverSilent
<1> QED BY <1>1, SilentStep, PTL DEF Spec

-----------------------------------------------------------------------------
(* EntryLifecycle: recovery. While it is calm, a stored token that is accepted stays *)
(* so; one that is not is found out, by a set-up or a poll, and replaced by the    *)
(* user. Then the held one is replaced by a reload, nothing asks for another one,  *)
(* and no reload is due any more.                                               *)

StoredWorks == stored = accepted
HeldWorks == held = accepted
Starting == entry \in {"new", "retry"}
SettingUp == entry = "setup"
Loaded == entry = "loaded"
Failed == entry = "failed"
Awaiting == update = "awaiting"
Reloading == reload
Asked == reauth
Timed == timer
Connecting == listener = "connecting"
Reading == listener = "reading"
Asleep == listener = "asleep"
Returned == listener = "returned"
Relented == relented

\* Weak fairness of an action A where E holds, E being a condition for it to be enabled.
FairWhere(E, A) == []<>~E \/ []<><<A>>_vars

\* What Fairness says of set-ups, polls and reloads, and of the event loop, with the
\* guard of each action in the place of ENABLED.
PollingFairness ==
  /\ FairWhere(Starting, BeginSetUp)
  /\ FairWhere(SettingUp /\ HeldWorks, SetUpDone)
  /\ FairWhere(SettingUp /\ ~HeldWorks, SetUpRejected)
  /\ FairWhere(Loaded /\ Timed /\ ~Awaiting, BeginUpdate)
  /\ FairWhere(Awaiting /\ ~HeldWorks, UpdateRejected)
  /\ FairWhere(Reloading /\ ~SettingUp, Reload)
PushFairness ==
  /\ FairWhere(Connecting /\ HeldWorks, Connect)
  /\ FairWhere(Asleep, Retry)

\* Everything that the steps of the argument need: the client's token is the stored one
\* unless the entry is about to be set up with it, and the event loop runs while the
\* entry is loaded, until its token is rejected.
HeldIsStored == held = stored \/ reload \/ Starting
LoopRuns ==
  /\ Loaded <=> listener # "none"
  /\ listener = "returned" => ~HeldWorks \/ relented

RecoveryInv == TypeOK /\ NeverSilent /\ HeldIsStored /\ LoopRuns

LEMMA RecoveryStep == RecoveryInv /\ [Next]_vars => RecoveryInv'
<1> SUFFICES ASSUME RecoveryInv, [Next]_vars PROVE RecoveryInv'
  OBVIOUS
<1>1. TypeOK' /\ NeverSilent' BY TypeStep, SilentStep DEF RecoveryInv
<1>2. HeldIsStored' /\ LoopRuns'
  <2> USE DEF RecoveryInv, TypeOK, HeldIsStored, LoopRuns, Starting, Loaded, HeldWorks,
              router
  <2>1. CASE SetUp
    BY <2>1 DEF SetUp, BeginSetUp, SetUpDone, SetUpRejected, SetUpFails
  <2>2. CASE Update
    BY <2>2 DEF Update, BeginUpdate, UpdateDone, UpdateRejected, UpdateFails
  <2>3. CASE Push
    BY <2>3 DEF Push, Connect, Refused, ConnectFails, StreamEnds, Retry, Listen
  <2>4. CASE Reload BY <2>4 DEF Reload
  <2>5. CASE Outside BY <2>5 DEF Outside, Rotate, ReauthDone, Reconfigure, Restart
  <2>6. CASE UNCHANGED vars BY <2>6 DEF vars
  <2> QED BY <2>1, <2>2, <2>3, <2>4, <2>5, <2>6 DEF Next
<1> QED BY <1>1, <1>2 DEF RecoveryInv

LEMMA RecoveryInvariant == Spec => []RecoveryInv
<1>1. Init => RecoveryInv
  BY DEF Init, RecoveryInv, TypeOK, NeverSilent, HeldIsStored, LoopRuns, Starting, Loaded
<1> QED BY <1>1, RecoveryStep, PTL DEF Spec

StopsForAReason == listener = "returned" => held # accepted \/ relented

\* The event loop has returned for good only if the token of its client is rejected now, or
\* one was accepted again after a rejection: then push stays off although requests would be
\* answered (_event_loop returns at SprAuthError and only polling asks for a new token).
THEOREM LoopStopsForAReason == Spec => []StopsForAReason
<1>1. RecoveryInv => StopsForAReason
  BY DEF RecoveryInv, LoopRuns, HeldWorks, StopsForAReason
<1> QED BY <1>1, RecoveryInvariant, PTL

CalmStep == RecoveryInv /\ RecoveryInv' /\ [Next]_vars /\ [Calm]_vars

\* What a step may be while it is calm.
LEMMA CalmKinds ==
  CalmStep =>
    /\ accepted' = accepted
    /\ \/ BeginSetUp \/ SetUpDone \/ SetUpRejected \/ BeginUpdate \/ UpdateDone
       \/ UpdateRejected \/ Connect \/ Refused \/ Retry \/ Reload \/ ReauthDone
       \/ (Restart /\ reload) \/ UNCHANGED vars
<1> SUFFICES ASSUME CalmStep
             PROVE  /\ accepted' = accepted
                    /\ \/ BeginSetUp \/ SetUpDone \/ SetUpRejected \/ BeginUpdate
                       \/ UpdateDone \/ UpdateRejected \/ Connect \/ Refused \/ Retry
                       \/ Reload \/ ReauthDone \/ (Restart /\ reload) \/ UNCHANGED vars
  OBVIOUS
<1>1. CASE UNCHANGED vars BY <1>1 DEF vars, router
<1>2. CASE Next /\ Calm
  <2>1. accepted' = accepted BY <1>2 DEF Calm
  <2>2. CASE \E t \in Token \union {None} : Rotate(t)
    <3>1. UNCHANGED vars
      BY <2>1, <2>2 DEF Rotate, vars, router, CalmStep, RecoveryInv, TypeOK
    <3> QED BY <2>1, <3>1
  <2> QED BY <1>2, <2>1, <2>2 DEF Next, SetUp, Update, Push, Outside, Calm
<1> QED BY <1>1, <1>2 DEF CalmStep

LEMMA StepIsCalm == RecoveryInv /\ RecoveryInv' /\ [Next]_vars /\ [Calm]_vars => CalmStep
BY DEF CalmStep

\* The tokens: a stored one that works is kept, and so is a held one where it is the
\* stored one; a pending reauthentication ends with one that works, or with a restart.
LEMMA TokensStep ==
  CalmStep =>
    /\ StoredWorks => StoredWorks'
    /\ HeldWorks /\ StoredWorks => HeldWorks'
    /\ Starting /\ StoredWorks => Starting' \/ HeldWorks'
    /\ ~Starting => (HeldWorks' <=> HeldWorks)
    /\ Asked => Asked' \/ StoredWorks' \/ (Reloading /\ ~Reloading')
    /\ Asked' => Asked \/ ~HeldWorks
    /\ Reloading' => Reloading \/ (Asked /\ StoredWorks')
<1> USE DEF StoredWorks, HeldWorks, Asked, Reloading, Starting, SettingUp, vars, router
<1> QED BY CalmKinds
  DEF BeginSetUp, SetUpDone, SetUpRejected, BeginUpdate, UpdateDone, UpdateRejected,
      Connect, Refused, Retry, Listen, Reload, ReauthDone, Restart

\* The entry: where a step may take it, and that it starts anew only by a reload.
LEMMA EntryStep ==
  CalmStep =>
    /\ Starting => Starting' \/ SettingUp'
    /\ SettingUp => SettingUp' \/ (HeldWorks /\ Loaded') \/ (~HeldWorks /\ Asked')
                    \/ (Reloading /\ ~Reloading')
    /\ SettingUp' => SettingUp \/ Starting
    /\ Starting' => Starting \/ (Reloading /\ ~Reloading')
    /\ Loaded => Loaded' \/ (Reloading /\ ~Reloading')
    /\ Failed => Failed' \/ (Reloading /\ ~Reloading')
    /\ Awaiting /\ ~HeldWorks => Awaiting' \/ Asked' \/ (Reloading /\ ~Reloading')
    /\ Timed => Timed' \/ Awaiting' \/ (Reloading /\ ~Reloading')
<1> USE DEF StoredWorks, HeldWorks, Asked, Reloading, Starting, SettingUp, Loaded, Failed,
            Awaiting, Timed, vars, router
<1> QED BY CalmKinds
  DEF BeginSetUp, SetUpDone, SetUpRejected, BeginUpdate, UpdateDone, UpdateRejected,
      Connect, Refused, Retry, Listen, Reload, ReauthDone, Restart

\* What the actions that are fair do.
LEMMA FairSteps ==
  /\ CalmStep /\ <<BeginSetUp>>_vars => /\ SettingUp' /\ ~Starting'
                                        /\ HeldWorks' <=> StoredWorks
  /\ <<SetUpDone>>_vars => Loaded' /\ ~SettingUp' /\ HeldWorks
  /\ <<SetUpRejected>>_vars => Failed' /\ ~SettingUp' /\ Asked' /\ ~HeldWorks
  /\ <<BeginUpdate>>_vars => Awaiting'
  /\ <<UpdateRejected>>_vars => Asked' /\ ~HeldWorks
  /\ <<Reload>>_vars => Starting' /\ ~Reloading' /\ Reloading
<1> USE DEF StoredWorks, HeldWorks, Asked, Reloading, Starting, SettingUp, Loaded, Failed,
            Awaiting, router
<1> QED BY CalmKinds
  DEF BeginSetUp, SetUpDone, SetUpRejected, BeginUpdate, UpdateRejected, Reload

\* NeverSilent and HeldIsStored, of the state and of the tokens.
LEMMA EntryPhases ==
  RecoveryInv =>
    /\ Starting \/ SettingUp \/ Loaded \/ Failed
    /\ ~(Starting /\ SettingUp) /\ ~(Starting /\ Loaded) /\ ~(Starting /\ Failed)
    /\ ~(SettingUp /\ Loaded) /\ ~(SettingUp /\ Failed)
    /\ Failed => Asked \/ Reloading
    /\ Loaded => Asked \/ Reloading \/ Timed \/ Awaiting
    /\ (HeldWorks <=> StoredWorks) \/ Reloading \/ Starting
BY DEF RecoveryInv, TypeOK, NeverSilent, HeldIsStored, Starting, SettingUp, Loaded, Failed,
       Asked, Reloading, Timed, Awaiting, HeldWorks, StoredWorks

\* A set-up ends, and no other follows it without a reload.
LEMMA SetUpsRun ==
  PollingFairness /\ []RecoveryInv /\ [][Next]_vars /\ [][Calm]_vars
    => []<>~Starting /\ []<>~SettingUp
BY TokensStep, EntryStep, FairSteps, EntryPhases, StepIsCalm, PTL
   DEF PollingFairness, FairWhere

\* A reload that is due is made.
LEMMA ReloadsRun ==
  PollingFairness /\ []RecoveryInv /\ [][Next]_vars /\ [][Calm]_vars => []<>~Reloading
<1>1. CalmStep => /\ SettingUp' => SettingUp \/ Starting
                  /\ Starting' => Starting \/ (Reloading /\ ~Reloading')
  BY EntryStep
<1>2. <<Reload>>_vars => ~Reloading' BY FairSteps
<1>3. PollingFairness => FairWhere(Reloading /\ ~SettingUp, Reload) BY DEF PollingFairness
<1> QED BY <1>1, <1>2, <1>3, SetUpsRun, StepIsCalm, PTL DEF FairWhere

UserAnswers == Asked ~> ~Asked

\* Without a reload an entry is set up only once.
LEMMA SetUpsEnd ==
  /\ PollingFairness /\ []RecoveryInv /\ [][Next]_vars /\ [][Calm]_vars
  /\ <>[]~Reloading
  => <>[](Loaded \/ Failed)
<1>1. CalmStep => /\ SettingUp' => SettingUp \/ Starting
                  /\ Starting' => Starting \/ (Reloading /\ ~Reloading')
  BY EntryStep
<1>2. RecoveryInv => Starting \/ SettingUp \/ Loaded \/ Failed BY EntryPhases
<1> QED BY <1>1, <1>2, SetUpsRun, StepIsCalm, PTL

\* A stored token that does not work is found out, and replaced.
LEMMA StoredConverges ==
  /\ PollingFairness /\ []RecoveryInv /\ [][Next]_vars /\ [][Calm]_vars
  /\ UserAnswers
  => <>[]StoredWorks
<1>1. CalmStep => /\ StoredWorks => StoredWorks'
                  /\ Asked => Asked' \/ StoredWorks' \/ (Reloading /\ ~Reloading')
                  /\ Reloading' => Reloading \/ (Asked /\ StoredWorks')
  BY TokensStep
<1>2. /\ PollingFairness /\ []RecoveryInv /\ [][Next]_vars /\ [][Calm]_vars /\ UserAnswers
      /\ []~StoredWorks
      => <>[](~Reloading /\ ~Asked)
  BY <1>1, ReloadsRun, StepIsCalm, PTL DEF UserAnswers
<1>3. CalmStep /\ ~HeldWorks /\ ~Asked' /\ ~Reloading =>
        /\ Awaiting => Awaiting'
        /\ Timed => Timed' \/ Awaiting'
  BY EntryStep
<1>4. RecoveryInv =>
        /\ Failed => Asked \/ Reloading
        /\ Loaded => ~Starting /\ (Asked \/ Reloading \/ Timed \/ Awaiting)
        /\ (HeldWorks <=> StoredWorks) \/ Reloading \/ Starting
  BY EntryPhases
<1>5. (<<BeginUpdate>>_vars => Awaiting') /\ (<<UpdateRejected>>_vars => Asked')
  BY FairSteps
<1>6. PollingFairness => /\ FairWhere(Loaded /\ Timed /\ ~Awaiting, BeginUpdate)
                         /\ FairWhere(Awaiting /\ ~HeldWorks, UpdateRejected)
  BY DEF PollingFairness
<1>7. /\ PollingFairness /\ []RecoveryInv /\ [][Next]_vars /\ [][Calm]_vars
      /\ <>[]~StoredWorks /\ <>[](~Reloading /\ ~Asked) /\ <>[](Loaded \/ Failed)
      => FALSE
  BY <1>3, <1>4, <1>5, <1>6, StepIsCalm, PTL DEF FairWhere
<1> QED BY <1>1, <1>2, <1>7, SetUpsEnd, StepIsCalm, PTL

\* The client comes to use the stored token, by a reload.
LEMMA HeldConverges ==
  /\ PollingFairness /\ []RecoveryInv /\ [][Next]_vars /\ [][Calm]_vars
  /\ <>[]StoredWorks
  => <>[]HeldWorks
<1>1. CalmStep => /\ HeldWorks /\ StoredWorks => HeldWorks'
                  /\ Starting /\ StoredWorks => Starting' \/ HeldWorks'
  BY TokensStep
<1>2. RecoveryInv => (HeldWorks <=> StoredWorks) \/ Reloading \/ Starting BY EntryPhases
<1> QED BY <1>1, <1>2, ReloadsRun, SetUpsRun, StepIsCalm, PTL

\* Then nothing asks for another token, no reload is due any more, and the entry loads.
LEMMA EntryLoads ==
  /\ PollingFairness /\ []RecoveryInv /\ [][Next]_vars /\ [][Calm]_vars /\ UserAnswers
  /\ <>[]HeldWorks
  => <>[]Loaded
<1>1. CalmStep => /\ Asked' => Asked \/ ~HeldWorks
                  /\ Reloading' => Reloading \/ Asked
  BY TokensStep
<1>2. /\ PollingFairness /\ []RecoveryInv /\ [][Next]_vars /\ [][Calm]_vars /\ UserAnswers
      /\ <>[]HeldWorks
      => <>[](~Reloading /\ ~Asked)
  BY <1>1, ReloadsRun, StepIsCalm, PTL DEF UserAnswers
<1>3. RecoveryInv => (Failed => Asked \/ Reloading) BY EntryPhases
<1> QED BY <1>2, <1>3, SetUpsEnd, PTL

LEMMA EntryRecovers ==
  PollingFairness /\ []RecoveryInv /\ [][Next]_vars /\ [][Calm]_vars /\ UserAnswers
    => <>[](Loaded /\ HeldWorks)
BY StoredConverges, HeldConverges, EntryLoads, PTL

\* Once it is calm, the entry comes to be loaded with a token that works and stays so,
\* for any tokens, and from whatever the rotations, the reauthentications, the reloads and
\* the restarts before have left (async_setup_entry, _async_update_data).
THEOREM PollingDoesRecover == Spec /\ PollingFairness => PollingRecovers
<1>1. PollingFairness => []PollingFairness BY PTL DEF PollingFairness, FairWhere
<1>2. (reauth ~> ~reauth) => []UserAnswers BY PTL DEF UserAnswers, Asked
<1>3. Loaded /\ HeldWorks => entry = "loaded" /\ held = accepted BY DEF Loaded, HeldWorks
<1> QED BY <1>1, <1>2, <1>3, EntryRecovers, RecoveryInvariant, PTL
        DEF Spec, PollingRecovers, Settles

\* Where the event loop goes while the entry stays loaded with a token that works.
LEMMA LoopStep ==
  /\ CalmStep /\ Loaded /\ Loaded' /\ HeldWorks =>
       /\ Connecting => Connecting' \/ Reading'
       /\ Reading => Reading'
       /\ Asleep => Asleep' \/ Connecting'
  /\ <<Connect>>_vars => Reading'
  /\ <<Retry>>_vars => Connecting'
  /\ RecoveryInv =>
       /\ Loaded => Connecting \/ Reading \/ Asleep \/ Returned
       /\ Returned => ~HeldWorks \/ Relented
<1> USE DEF Connecting, Reading, Asleep, Returned, Relented, Loaded, HeldWorks
<1>1. CalmStep /\ Loaded /\ Loaded' /\ HeldWorks =>
        /\ Connecting => Connecting' \/ Reading'
        /\ Reading => Reading'
        /\ Asleep => Asleep' \/ Connecting'
  BY CalmKinds
  DEF BeginSetUp, SetUpDone, SetUpRejected, BeginUpdate, UpdateDone, UpdateRejected,
      Connect, Refused, Retry, Listen, Reload, ReauthDone, Restart, vars, router
<1>2. Connect => Reading' BY DEF Connect, Listen
<1>3. Retry => Connecting' BY DEF Retry, Listen
<1>4. RecoveryInv => /\ Loaded => Connecting \/ Reading \/ Asleep \/ Returned
                     /\ Returned => ~HeldWorks \/ Relented
  BY DEF RecoveryInv, TypeOK, LoopRuns
<1> QED BY <1>1, <1>2, <1>3, <1>4

\* Then the stream is read for good as well, unless a token that the router had rejected
\* was accepted again: a loop that has returned belongs to a client that is replaced
\* (_event_loop, async_unload_entry).
THEOREM PushDoesRecover ==
  Spec /\ PollingFairness /\ PushFairness => PushRecoversToo
<1>1. PollingFairness => []PollingFairness BY PTL DEF PollingFairness, FairWhere
<1>2. PushFairness => []PushFairness BY PTL DEF PushFairness, FairWhere
<1>3. /\ PushFairness /\ []RecoveryInv /\ [][Next]_vars /\ [][Calm]_vars
      /\ <>[](Loaded /\ HeldWorks) /\ []~Relented
      => <>[]Reading
  BY LoopStep, StepIsCalm, PTL DEF PushFairness, FairWhere
<1>4. (reauth ~> ~reauth) => []UserAnswers BY PTL DEF UserAnswers, Asked
<1>5. (Relented <=> relented) /\ (Reading => listener = "reading")
  BY DEF Relented, Reading
<1> QED BY <1>1, <1>2, <1>3, <1>4, <1>5, EntryRecovers, RecoveryInvariant, PTL
        DEF Spec, PushRecoversToo, Settles

-----------------------------------------------------------------------------
(* WakeOnLan *)

\* A list that handle_wake may make: each entry of the set once, and no other.
LEMMA OrderedList ==
  ASSUME NEW S, IsFiniteSet(S), NEW s \in SetToSeqs(S)
  PROVE  /\ s \in Seq(S) /\ IsInjective(s) /\ ToSet(s) \subseteq S
         /\ S # {} => s # <<>>
<1> DEFINE n == Cardinality(S)
<1>1. n \in Nat BY FS_CardinalityType
<1>2. s \in [1..n -> S] /\ \A i, j \in 1..n : i # j => s[i] # s[j]
  BY DEF SetToSeqs
<1>3. s \in Seq(S) BY <1>1, <1>2
<1>4. DOMAIN s = 1..n BY <1>2
<1>5. S # {} => s # <<>>
  <2> SUFFICES ASSUME S # {}, s = <<>> PROVE FALSE
    OBVIOUS
  <2>1. n # 0 BY FS_EmptySet
  <2>2. 1 \in DOMAIN s BY <1>1, <1>4, <2>1
  <2>3. DOMAIN <<>> = {} OBVIOUS
  <2> QED BY <2>2, <2>3
<1>6. s \in Seq(S) /\ IsInjective(s) /\ ToSet(s) \subseteq S
  BY <1>2, <1>3, <1>4 DEF IsInjective, ToSet
<1> QED BY <1>5, <1>6

\* What is left of a list after its first entry.
LEMMA RestOfList ==
  ASSUME NEW S, NEW s \in Seq(S), s # <<>>
  PROVE  /\ Head(s) \in S /\ Tail(s) \in Seq(S)
         /\ ToSet(s) = {Head(s)} \union ToSet(Tail(s))
         /\ IsInjective(s) => IsInjective(Tail(s))
         /\ Len(Tail(s)) < Len(s)
         /\ Len(s) = 1 => Tail(s) = <<>>
         /\ Len(s) # 1 => Tail(s) # <<>>
<1> DEFINE n == Len(s)
           t == Tail(s)
<1>1. /\ Head(s) \in S /\ t \in Seq(S) /\ n \in Nat /\ n > 0 /\ Len(t) = n - 1
      /\ Head(s) = s[1] /\ DOMAIN s = 1..n /\ DOMAIN t = 1..(n - 1)
      /\ \A i \in 1..(n - 1) : t[i] = s[i + 1]
  <2>1. n \in Nat /\ n > 0 /\ DOMAIN s = 1..n BY LenProperties, EmptySeq
  <2>2. /\ Head(s) \in S /\ t \in Seq(S) /\ Len(t) = n - 1
        /\ \A i \in 1..(n - 1) : t[i] = s[i + 1]
    BY HeadTailProperties
  <2>3. DOMAIN t = 1..(n - 1) BY <2>2, LenProperties
  <2>4. Head(s) = s[1] OBVIOUS
  <2> QED BY <2>1, <2>2, <2>3, <2>4
<1>2. t = <<>> <=> Len(t) = 0
  BY <1>1, EmptySeq
<1> HIDE DEF n, t
<1>3. ASSUME NEW i \in 1..n PROVE i = 1 \/ (i - 1 \in 1..(n - 1) /\ s[i] = t[i - 1])
  <2> SUFFICES ASSUME i # 1 PROVE i - 1 \in 1..(n - 1) /\ s[i] = t[i - 1]
    OBVIOUS
  <2>1. i - 1 \in 1..(n - 1) /\ (i - 1) + 1 = i BY <1>1
  <2> QED BY <1>1, <2>1
<1>4. \A i \in 1..(n - 1) : i + 1 \in 1..n
  BY <1>1
<1>5. ToSet(s) = {Head(s)} \union ToSet(t)
  <2>1. ASSUME NEW x \in ToSet(s) PROVE x = Head(s) \/ x \in ToSet(t)
    <3>1. PICK i \in 1..n : s[i] = x BY <1>1, <2>1 DEF ToSet
    <3>2. CASE i = 1 BY <1>1, <3>1, <3>2
    <3>3. CASE i - 1 \in 1..(n - 1) /\ s[i] = t[i - 1]
      BY <1>1, <3>1, <3>3 DEF ToSet
    <3> QED BY <1>3, <3>2, <3>3
  <2>2. ASSUME NEW x \in ToSet(t) PROVE x \in ToSet(s)
    <3>1. PICK i \in 1..(n - 1) : t[i] = x BY <1>1, <2>2 DEF ToSet
    <3>2. i + 1 \in 1..n /\ s[i + 1] = x BY <1>1, <1>4, <3>1
    <3> QED BY <1>1, <3>2 DEF ToSet
  <2>3. Head(s) \in ToSet(s)
    <3>1. 1 \in 1..n BY <1>1
    <3> QED BY <1>1, <3>1 DEF ToSet
  <2> QED BY <2>1, <2>2, <2>3
<1>6. IsInjective(s) => IsInjective(t)
  <2> SUFFICES ASSUME IsInjective(s), NEW i \in 1..(n - 1), NEW j \in 1..(n - 1),
                      t[i] = t[j]
               PROVE  i = j
    BY <1>1 DEF IsInjective
  <2>1. \A a, b \in 1..n : s[a] = s[b] => a = b BY <1>1 DEF IsInjective
  <2>2. i + 1 \in 1..n /\ j + 1 \in 1..n /\ s[i + 1] = s[j + 1] BY <1>1, <1>4
  <2>3. i + 1 = j + 1 BY <2>1, <2>2
  <2> QED BY <1>1, <2>3
<1>7. (n = 1 <=> Len(t) = 0) /\ Len(t) < n BY <1>1
<1> QED BY <1>1, <1>2, <1>5, <1>6, <1>7 DEF n, t

\* The list that is being worked through: nothing is left of it that was not chosen,
\* all of it was asked or is left, and the router that is waited for was asked.
ListInv ==
  /\ ToSet(todo) \subseteq ToSet(chosen)
  /\ waiting => call # "none" /\ Head(todo) \in asked
  /\ waiting /\ reply = "ok" => Head(todo) \in sent
  /\ waiting /\ reply # "none" => Head(todo) \notin serving
  /\ ~waiting => reply = "none"
  /\ call # "none" =>
       outcome = "none" /\ asked \subseteq ToSet(chosen)
       /\ ToSet(chosen) \subseteq asked \union ToSet(todo)

\* What the service chose: of the loaded entries those that knew the device, if any did.
ChoiceInv ==
  /\ call # "none" => ToSet(chosen) \subseteq loaded \union unloaded
  /\ call = "service" /\ owners # {} => ToSet(chosen) \subseteq owners


\* A list that the service may begin with.
LEMMA ServiceList ==
  ASSUME WakeTypeOK, NEW s \in Ordered
  PROVE  /\ s \in Seq(Entry) /\ IsInjective(s) /\ ToSet(s) \subseteq loaded
         /\ knows # {} => ToSet(s) \subseteq knows
         /\ loaded # {} => s # <<>>
<1> DEFINE S == IF knows = {} THEN loaded ELSE knows
<1>1. /\ S \subseteq loaded /\ S \subseteq Entry /\ (knows # {} => S = knows)
      /\ loaded # {} => S # {}
  BY DEF WakeTypeOK
<1>2. IsFiniteSet(S) BY <1>1, EntryAssumption, FS_Subset
<1> HIDE DEF S
<1>3. s \in SetToSeqs(S) BY DEF Ordered, S
<1>4. s \in Seq(S) /\ IsInjective(s) /\ ToSet(s) \subseteq S /\ (S # {} => s # <<>>)
  BY <1>2, <1>3, OrderedList
<1>5. s \in Seq(Entry) BY <1>1, <1>4, SeqMonotonic
<1> QED BY <1>1, <1>4, <1>5

\* The list of a button.
LEMMA ButtonList ==
  ASSUME NEW e \in Entry
  PROVE  <<e>> \in Seq(Entry) /\ IsInjective(<<e>>) /\ ToSet(<<e>>) = {e}
<1>1. <<e>> \in Seq(Entry) /\ DOMAIN <<e>> = {1} /\ <<e>>[1] = e OBVIOUS
<1> QED BY <1>1 DEF IsInjective, ToSet

\* The list when there is no call.
LEMMA NoList == <<>> \in Seq(Entry) /\ IsInjective(<<>>) /\ ToSet(<<>>) = {}
<1>1. <<>> \in Seq(Entry) /\ DOMAIN <<>> = {} OBVIOUS
<1> QED BY <1>1 DEF IsInjective, ToSet

WakeInv == WakeTypeOK /\ ListInv /\ ChoiceInv

LEMMA WakeInvInit == WakeInit => WakeInv
BY NoList DEF WakeInit, WakeInv, WakeTypeOK, ListInv, ChoiceInv

\* A call begins, with any list of entries that suits it.
LEMMA BeginStep ==
  ASSUME WakeInv, NEW by \in {"service", "button"}, NEW s \in Seq(Entry),
         IsInjective(s), ToSet(s) \subseteq loaded,
         by = "service" /\ knows # {} => ToSet(s) \subseteq knows,
         Begin(by, s)
  PROVE  WakeInv'
<1> USE DEF WakeInv, Begin, world
<1>1. WakeTypeOK'
  <2>1. ToSet(s) \subseteq Entry BY DEF WakeTypeOK
  <2> QED BY <2>1 DEF WakeTypeOK
<1>2. ListInv' BY DEF ListInv
<1>3. ChoiceInv' BY DEF ChoiceInv
<1> QED BY <1>1, <1>2, <1>3

\* A call ends.
LEMMA EndStep ==
  ASSUME WakeInv, NEW how \in {"woken", "failed", "broken"}, Ended(how),
         UNCHANGED <<world, serving, history>>
  PROVE  WakeInv'
<1> USE DEF WakeInv, Ended, world, history
<1>1. WakeTypeOK' BY NoList DEF WakeTypeOK
<1>2. ListInv' BY NoList DEF ListInv
<1>3. ChoiceInv' BY DEF ChoiceInv
<1> QED BY <1>1, <1>2, <1>3

LEMMA WakeInvStep == WakeInv /\ [WakeNext]_wakeVars => WakeInv'
<1> SUFFICES ASSUME WakeInv, [WakeNext]_wakeVars PROVE WakeInv'
  OBVIOUS
<1> USE DEF WakeInv
<1>1. CASE HandleWake
  <2>1. CASE loaded # {}
    <3>1. PICK s \in Ordered : Begin("service", s) BY <1>1, <2>1 DEF HandleWake
    <3> QED BY <3>1, ServiceList, BeginStep
  <2>2. CASE loaded = {}
    BY <1>1, <2>2 DEF HandleWake, world, history, WakeTypeOK, ListInv, ChoiceInv
  <2> QED BY <2>1, <2>2
<1>2. ASSUME NEW e \in Entry, Press(e) PROVE WakeInv'
  <2>1. e \in loaded /\ Begin("button", <<e>>) BY <1>2 DEF Press
  <2> QED BY <2>1, ButtonList, BeginStep
<1>3. CASE Ask
  <2>1. todo # <<>> /\ todo \in Seq(Entry) BY <1>3 DEF Ask, WakeTypeOK
  <2>2. Head(todo) \in Entry /\ Head(todo) \in ToSet(todo) BY <2>1, RestOfList
  <2>3. WakeTypeOK' BY <1>3, <2>2 DEF Ask, world, WakeTypeOK
  <2>4. ListInv' BY <1>3, <2>2 DEF Ask, ListInv
  <2>5. ChoiceInv' BY <1>3 DEF Ask, world, ChoiceInv
  <2> QED BY <2>3, <2>4, <2>5
<1>4. CASE AskUnloaded BY <1>4, EndStep DEF AskUnloaded
<1>5. CASE Answered BY <1>5, EndStep DEF Answered
<1>6. CASE AnswerBreaksOff BY <1>6, EndStep DEF AnswerBreaksOff
<1>7. CASE AskFails
  <2>1. CASE Len(todo) = 1 BY <1>7, <2>1, EndStep DEF AskFails
  <2>2. CASE Len(todo) # 1
    <3>1. todo \in Seq(Entry) /\ todo # <<>> /\ waiting
      BY <1>7 DEF AskFails, WakeTypeOK
    <3>2. /\ Tail(todo) \in Seq(Entry) /\ IsInjective(Tail(todo))
          /\ ToSet(todo) = {Head(todo)} \union ToSet(Tail(todo))
      BY <3>1, RestOfList DEF WakeTypeOK
    <3>3. WakeTypeOK' BY <1>7, <2>2, <3>2 DEF AskFails, world, history, WakeTypeOK
    <3>4. ListInv' BY <1>7, <2>2, <3>1, <3>2 DEF AskFails, history, ListInv
    <3>5. ChoiceInv' BY <1>7, <2>2 DEF AskFails, world, history, ChoiceInv
    <3> QED BY <3>3, <3>4, <3>5
  <2> QED BY <2>1, <2>2
<1>8. ASSUME NEW e \in Entry, RouterWakes(e) PROVE WakeInv'
  <2>1. WakeTypeOK' BY <1>8 DEF RouterWakes, Replies, world, WakeTypeOK
  <2>2. ListInv' BY <1>8 DEF RouterWakes, Replies, ListInv
  <2>3. ChoiceInv' BY <1>8 DEF RouterWakes, world, ChoiceInv
  <2> QED BY <2>1, <2>2, <2>3
<1>9. ASSUME NEW e \in Entry, RouterRefuses(e) PROVE WakeInv'
  <2>1. WakeTypeOK' BY <1>9 DEF RouterRefuses, Replies, world, history, WakeTypeOK
  <2>2. ListInv' BY <1>9 DEF RouterRefuses, Replies, history, ListInv
  <2>3. ChoiceInv' BY <1>9 DEF RouterRefuses, world, history, ChoiceInv
  <2> QED BY <2>1, <2>2, <2>3
<1>10. CASE Entries
  <2> USE <1>10 DEF Entries, Load, Unload, Poll, callVars, history
  <2>1. WakeTypeOK' BY DEF WakeTypeOK
  <2>2. ListInv' BY DEF ListInv
  <2>3. ChoiceInv' BY DEF ChoiceInv
  <2> QED BY <2>1, <2>2, <2>3
<1>11. CASE UNCHANGED wakeVars
  BY <1>11 DEF wakeVars, world, callVars, history, WakeTypeOK, ListInv, ChoiceInv
<1> QED BY <1>1, <1>2, <1>3, <1>4, <1>5, <1>6, <1>7, <1>8, <1>9, <1>10, <1>11
  DEF WakeNext, Call, RequestEnds, Router

LEMMA WakeInvariant == WakeSpec => []WakeInv
BY WakeInvInit, WakeInvStep, PTL DEF WakeSpec

\* Every variable keeps its type; in particular a list has no entry twice and is not
\* empty while a request is out, so that the loop never takes the head of nothing.
THEOREM WakeTypeCorrect == WakeSpec => []WakeTypeOK
<1>1. WakeInv => WakeTypeOK BY DEF WakeInv
<1> QED BY <1>1, WakeInvariant, PTL

\* The service asks only routers that knew the device when it was called, if any did,
\* for any entries that are loaded, unloaded and polled meanwhile (ordered, __init__.py).
THEOREM DomainIsRight == WakeSpec => []RightDomain
<1>1. WakeInv => RightDomain
  BY DEF WakeInv, ListInv, ChoiceInv, RightDomain
<1> QED BY <1>1, WakeInvariant, PTL

LEMMA SuccessStep == WakeInv /\ SuccessIsReal /\ [WakeNext]_wakeVars => SuccessIsReal'
<1> SUFFICES ASSUME WakeInv, SuccessIsReal, [WakeNext]_wakeVars PROVE SuccessIsReal'
  OBVIOUS
<1> USE DEF SuccessIsReal
<1>1. CASE Answered
  <2>1. todo \in Seq(Entry) /\ todo # <<>> /\ Head(todo) \in sent
    BY <1>1 DEF Answered, WakeInv, WakeTypeOK, ListInv
  <2>2. Head(todo) \in ToSet(todo) BY <2>1, RestOfList
  <2> QED BY <1>1, <2>1, <2>2 DEF Answered, history, WakeInv, ListInv
<1>2. CASE HandleWake BY <1>2 DEF HandleWake, Begin, history
<1>3. ASSUME NEW e \in Entry, Press(e) PROVE SuccessIsReal'
  BY <1>3 DEF Press, Begin
<1>4. CASE Ask BY <1>4 DEF Ask
<1>5. CASE AskUnloaded \/ AskFails \/ AnswerBreaksOff
  BY <1>5 DEF AskUnloaded, AskFails, AnswerBreaksOff, Ended, history
<1>6. CASE Router BY <1>6 DEF Router, RouterWakes, RouterRefuses, history
<1>7. CASE Entries BY <1>7 DEF Entries, Load, Unload, Poll, callVars, history
<1>8. CASE UNCHANGED wakeVars BY <1>8 DEF wakeVars, callVars, history
<1> QED BY <1>1, <1>2, <1>3, <1>4, <1>5, <1>6, <1>7, <1>8 DEF WakeNext, Call, RequestEnds

\* A call that succeeds has had a packet sent, by a router it had chosen, whichever
\* answers are late or lost (the return in the loop of handle_wake).
THEOREM SuccessReal == WakeSpec => []SuccessIsReal
<1>1. WakeInit => SuccessIsReal BY DEF WakeInit, SuccessIsReal
<1> QED BY <1>1, SuccessStep, WakeInvariant, PTL DEF WakeSpec

LEMMA FailureStep ==
  WakeInv /\ [WakeNext]_wakeVars =>
    (call # "none" /\ outcome' = "failed" => asked = ToSet(chosen))
<1> SUFFICES ASSUME WakeInv, [WakeNext]_wakeVars, call # "none", outcome' = "failed"
             PROVE  asked = ToSet(chosen)
  OBVIOUS
<1>1. outcome = "none" BY DEF WakeInv, ListInv
<1>2. AskFails /\ Len(todo) = 1
  BY <1>1 DEF WakeNext, Call, RequestEnds, Router, Entries, wakeVars, callVars,
     HandleWake, Press, Begin, Ask, AskUnloaded, Answered, AskFails, AnswerBreaksOff, Ended, RouterWakes,
     RouterRefuses, Load, Unload, Poll
<1>3. todo \in Seq(Entry) /\ todo # <<>> /\ Head(todo) \in asked
  BY <1>2 DEF AskFails, WakeInv, WakeTypeOK, ListInv
<1>4. Tail(todo) = <<>> /\ ToSet(todo) = {Head(todo)} \union ToSet(Tail(todo))
  BY <1>2, <1>3, RestOfList
<1>5. ToSet(todo) \subseteq asked BY <1>3, <1>4, NoList
<1> QED BY <1>1, <1>5 DEF WakeInv, ListInv

\* A call that gives up has asked every router of its list, for any number of them: the
\* loop of handle_wake goes on after each SprApiError.
THEOREM AllRoutersTried == WakeSpec => EveryRouterTried
BY FailureStep, WakeInvariant, PTL DEF WakeSpec, EveryRouterTried

LEMMA BreakStep ==
  WakeInv /\ [WakeNext]_wakeVars =>
    (call # "none" /\ outcome' = "broken" =>
       \/ unloaded \cap ToSet(chosen) # {}
       \/ waiting /\ Head(todo) \in asked \ serving)
<1> SUFFICES ASSUME WakeInv, [WakeNext]_wakeVars, call # "none", outcome' = "broken"
             PROVE  \/ unloaded \cap ToSet(chosen) # {}
                    \/ waiting /\ Head(todo) \in asked \ serving
  OBVIOUS
<1>1. outcome = "none" BY DEF WakeInv, ListInv
<1>2. AskUnloaded \/ AnswerBreaksOff
  BY <1>1 DEF WakeNext, Call, RequestEnds, Router, Entries, wakeVars, callVars,
     HandleWake, Press, Begin, Ask, AskUnloaded, Answered, AskFails, AnswerBreaksOff, Ended, RouterWakes,
     RouterRefuses, Load, Unload, Poll
<1>3. CASE AskUnloaded
  <2>1. todo \in Seq(Entry) /\ todo # <<>> /\ Head(todo) \notin loaded
    BY <1>3 DEF AskUnloaded, WakeInv, WakeTypeOK
  <2>2. Head(todo) \in ToSet(todo) BY <2>1, RestOfList
  <2>3. Head(todo) \in ToSet(chosen) /\ ToSet(chosen) \subseteq loaded \union unloaded
    BY <2>2 DEF WakeInv, ListInv, ChoiceInv
  <2> QED BY <2>1, <2>3
<1>4. CASE AnswerBreaksOff BY <1>4 DEF AnswerBreaksOff, WakeInv, ListInv
<1> QED BY <1>2, <1>3, <1>4

\* A call breaks only after an entry of its list was unloaded, or over the answer of a
\* router that has served the request (_get reads it outside its try): the exceptions that
\* handle_wake does not catch. A router that is silent never breaks it.
THEOREM BreaksExplained == WakeSpec => BreaksForAReason
BY BreakStep, WakeInvariant, PTL DEF WakeSpec, BreaksForAReason

-----------------------------------------------------------------------------
(* WakeOnLan: a call gets on *)

\* A call that goes on has a router left to ask, and a button's has one.
CallInv ==
  /\ call # "none" => todo # <<>>
  /\ call = "button" => Len(todo) = 1

CallRests == UNCHANGED <<call, todo, waiting>>
ServiceBegins == loaded # {} /\ \E s \in Ordered : Begin("service", s)
ButtonBegins == \E e \in Entry : Begin("button", <<e>>)

LEMMA CallKinds ==
  [WakeNext]_wakeVars =>
    \/ CallRests
    \/ call = "none" /\ (ServiceBegins \/ ButtonBegins)
    \/ Ask \/ AskUnloaded \/ Answered \/ AskFails \/ AnswerBreaksOff
<1> SUFFICES ASSUME [WakeNext]_wakeVars, ~CallRests,
                    ~(Ask \/ AskUnloaded \/ Answered \/ AskFails \/ AnswerBreaksOff)
             PROVE  call = "none" /\ (ServiceBegins \/ ButtonBegins)
  OBVIOUS
<1>1. ~Router BY DEF Router, RouterWakes, RouterRefuses, CallRests
<1>2. ~Entries BY DEF Entries, Load, Unload, Poll, callVars, CallRests
<1>3. ~UNCHANGED wakeVars BY DEF wakeVars, callVars, CallRests
<1>4. HandleWake => call = "none" /\ ServiceBegins
  BY DEF HandleWake, CallRests, ServiceBegins
<1>5. \A e \in Entry : Press(e) => call = "none" /\ ButtonBegins
  BY DEF Press, ButtonBegins
<1> QED BY <1>1, <1>2, <1>3, <1>4, <1>5 DEF WakeNext, Call, RequestEnds

LEMMA CallStep == WakeInv /\ CallInv /\ [WakeNext]_wakeVars => CallInv'
<1> SUFFICES ASSUME WakeInv, CallInv, [WakeNext]_wakeVars PROVE CallInv'
  OBVIOUS
<1> USE DEF CallInv
<1>1. CASE CallRests BY <1>1 DEF CallRests
<1>2. ASSUME loaded # {}, NEW s \in Ordered, Begin("service", s) PROVE CallInv'
  <2>1. s # <<>> BY <1>2, ServiceList DEF WakeInv
  <2> QED BY <1>2, <2>1 DEF Begin
<1>3. ASSUME NEW e \in Entry, Begin("button", <<e>>) PROVE CallInv'
  <2>1. <<e>> # <<>> /\ Len(<<e>>) = 1 OBVIOUS
  <2> QED BY <1>3, <2>1 DEF Begin
<1>4. CASE Ask BY <1>4 DEF Ask
<1>5. CASE AskUnloaded \/ Answered \/ AnswerBreaksOff
  BY <1>5 DEF AskUnloaded, Answered, AnswerBreaksOff, Ended
<1>6. CASE AskFails
  <2>1. CASE Len(todo) = 1 BY <1>6, <2>1 DEF AskFails, Ended
  <2>2. CASE Len(todo) # 1
    <3>1. todo \in Seq(Entry) /\ todo # <<>> BY <1>6 DEF AskFails, WakeInv, WakeTypeOK
    <3>2. Tail(todo) # <<>> BY <2>2, <3>1, RestOfList
    <3> QED BY <1>6, <2>2, <3>2 DEF AskFails
  <2> QED BY <2>1, <2>2
<1> QED BY <1>1, <1>2, <1>3, <1>4, <1>5, <1>6, CallKinds
        DEF ServiceBegins, ButtonBegins

LEMMA CallInvariant == WakeSpec => []CallInv
<1>1. WakeInit => CallInv BY DEF WakeInit, CallInv
<1> QED BY <1>1, CallStep, WakeInvariant, PTL DEF WakeSpec

NoCall == call = "none"
ToAsk == ~NoCall /\ ~waiting
Asking == ~NoCall /\ waiting
Left(n) == Len(todo) = n
Fewer(n) == NoCall \/ Len(todo) < n

\* What the fairness of WakeFairSpec says: the event loop runs a call, and a request ends.
WakeRuns ==
  /\ []<>~(ToAsk /\ todo # <<>>) \/ []<><<Ask \/ AskUnloaded>>_wakeVars
  /\ []<>~Asking \/ []<><<RequestEnds>>_wakeVars

LEMMA ProgressStep ==
  ASSUME NEW n \in Nat, WakeInv, CallInv, [WakeNext]_wakeVars, Left(n)
  PROVE  /\ ToAsk => Fewer(n)' \/ (Left(n)' /\ (ToAsk' \/ Asking'))
         /\ Asking => Fewer(n)' \/ (Left(n)' /\ Asking')
         /\ ToAsk /\ (Ask \/ AskUnloaded) => ~ToAsk'
         /\ Asking /\ RequestEnds => Fewer(n)'
<1> USE DEF NoCall, ToAsk, Asking, Left, Fewer
<1>1. AskUnloaded \/ Answered \/ AnswerBreaksOff => Fewer(n)'
  BY DEF AskUnloaded, Answered, AnswerBreaksOff, Ended
<1>2. AskFails => Fewer(n)'
  <2> SUFFICES ASSUME AskFails PROVE Fewer(n)'
    OBVIOUS
  <2>1. CASE Len(todo) = 1 BY <2>1 DEF AskFails, Ended
  <2>2. CASE Len(todo) # 1
    <3>1. todo \in Seq(Entry) /\ todo # <<>> BY DEF AskFails, WakeInv, WakeTypeOK
    <3>2. Len(Tail(todo)) < Len(todo) BY <3>1, RestOfList
    <3> QED BY <2>2, <3>2 DEF AskFails
  <2> QED BY <2>1, <2>2
<1>3. Ask => Left(n)' /\ Asking' BY DEF Ask
<1>4. CallRests => Left(n)' /\ (ToAsk => ToAsk') /\ (Asking => Asking')
  BY DEF CallRests
<1>5. RequestEnds => waiting BY DEF RequestEnds, Answered, AskFails, AnswerBreaksOff
<1>6. AskUnloaded => ~ToAsk' BY DEF AskUnloaded, Ended
<1> QED BY <1>1, <1>2, <1>3, <1>4, <1>5, <1>6, CallKinds DEF RequestEnds

\* Every call gets on: however many routers are silent, and whatever is unloaded, it ends
\* or comes to have fewer routers left to ask. As a list has a length, this is CallsEnd but
\* for the induction on it (the loop of handle_wake, and the 10 second timeout).
THEOREM CallsGetOn ==
  ASSUME NEW n \in Nat
  PROVE  WakeSpec /\ WakeRuns =>
           (call # "none" /\ Len(todo) = n ~> call = "none" \/ Len(todo) < n)
<1>1. WakeInv /\ CallInv /\ [WakeNext]_wakeVars /\ Left(n) =>
        /\ ToAsk => Fewer(n)' \/ (Left(n)' /\ (ToAsk' \/ Asking'))
        /\ Asking => Fewer(n)' \/ (Left(n)' /\ Asking')
        /\ ToAsk /\ <<Ask \/ AskUnloaded>>_wakeVars => ~ToAsk'
        /\ Asking /\ <<RequestEnds>>_wakeVars => Fewer(n)'
  BY ProgressStep
<1>2. CallInv /\ ToAsk => todo # <<>> BY DEF CallInv, ToAsk, NoCall
<1>3. /\ (call # "none" /\ Len(todo) = n) <=> Left(n) /\ (ToAsk \/ Asking)
      /\ (call = "none" \/ Len(todo) < n) <=> Fewer(n)
  BY DEF NoCall, ToAsk, Asking, Left, Fewer
<1> QED BY <1>1, <1>2, <1>3, WakeInvariant, CallInvariant, PTL DEF WakeSpec, WakeRuns

PressesEnd == call = "button" ~> call = "none"

\* A press of a button ends (async_press asks one router, so no induction is needed).
THEOREM PressesDoEnd == WakeSpec /\ WakeRuns => PressesEnd
<1>1. CallInv => (call = "button" => call # "none" /\ Len(todo) = 1) BY DEF CallInv
<1>2. WakeInv /\ CallInv => (call = "none" \/ Len(todo) < 1 => call = "none")
  <2> SUFFICES ASSUME WakeInv, CallInv, call # "none", Len(todo) < 1 PROVE FALSE
    OBVIOUS
  <2>1. todo \in Seq(Entry) /\ todo # <<>> BY DEF WakeInv, WakeTypeOK, CallInv
  <2> QED BY <2>1, EmptySeq, LenProperties
<1>3. WakeInv /\ CallInv /\ [WakeNext]_wakeVars /\ Left(1) =>
        /\ ToAsk => Fewer(1)' \/ (Left(1)' /\ (ToAsk' \/ Asking'))
        /\ Asking => Fewer(1)' \/ (Left(1)' /\ Asking')
        /\ ToAsk /\ <<Ask \/ AskUnloaded>>_wakeVars => ~ToAsk'
        /\ Asking /\ <<RequestEnds>>_wakeVars => Fewer(1)'
  BY ProgressStep
<1>4. CallInv /\ ToAsk => todo # <<>> BY DEF CallInv, ToAsk, NoCall
<1>5. /\ (call # "none" /\ Len(todo) = 1) <=> Left(1) /\ (ToAsk \/ Asking)
      /\ (call = "none" \/ Len(todo) < 1) <=> Fewer(1)
  BY DEF NoCall, ToAsk, Asking, Left, Fewer
<1> QED BY <1>1, <1>2, <1>3, <1>4, <1>5, WakeInvariant, CallInvariant, PTL
        DEF PressesEnd, WakeSpec, WakeRuns
=============================================================================
