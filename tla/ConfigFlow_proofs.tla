-------------------------- MODULE ConfigFlow_proofs --------------------------
(***************************************************************************)
(* Proofs about ConfigFlow, for any routers, addresses, tokens and number of  *)
(* flows: types, one flow per router, no overwritten entry, and no address   *)
(* changed by a broadcast.                                                  *)
(***************************************************************************)
EXTENDS ConfigFlow, TLAPS

\* What is known of one flow. An offer is for a router that is not configured, and a
\* reauthentication for one that is: this keeps Create from overwriting.
Sound(s) ==
  /\ s \in FlowState
  /\ s.step \in {"probing", "stating"} => s.url \in Url /\ s.token \in Token
  /\ s.step = "stating" => s.id \in Router
  /\ s.source \in {"user", "closed"} => s.uid = None
  /\ s.source = "reauth" => Configured(s.uid)
  /\ s.source = "zeroconf" /\ s.step # "fetching" => s.uid \in Router
  /\ s.source = "zeroconf" => ~Configured(s.uid)

Inv == TypeOK /\ FlowsUnique /\ \A f \in Flow : Sound(flow[f])

LEMMA EntriesMap ==
  ASSUME TypeOK
  PROVE  DOMAIN entries \subseteq Router /\ entries \in [DOMAIN entries -> Entry]
BY DEF TypeOK

LEMMA BuiltEntries ==
  ASSUME NEW D \in SUBSET Router, NEW e \in [D -> Entry]
  PROVE  e \in UNION {[R -> Entry] : R \in SUBSET Router}
OBVIOUS

LEMMA OffIsSound == TypeOK => Sound(Off)
BY NoneAssumption, EntriesMap DEF Off, Sound, FlowState, Configured

LEMMA InvInit == Init => Inv
<1> SUFFICES ASSUME Init PROVE Inv
  OBVIOUS
<1>1. Off \in FlowState BY DEF Off, FlowState
<1>2. entries \in [{} -> Entry] BY DEF Init
<1>3. TypeOK BY <1>1, <1>2, BuiltEntries DEF Init, TypeOK
<1> QED BY <1>3, OffIsSound DEF Init, Inv, FlowsUnique, Off

\* One flow moves on, and no entry comes or goes.
LEMMA OneFlow ==
  ASSUME Inv, NEW f \in Flow, NEW v,
         flow' = [flow EXCEPT ![f] = v], Sound(v),
         entries' \in [DOMAIN entries -> Entry],
         \/ v.uid = None
         \/ v.uid = flow[f].uid
         \/ \A g \in Flow \ {f} : flow[g].uid # v.uid
  PROVE  Inv'
<1>1. DOMAIN entries' = DOMAIN entries /\ DOMAIN entries \subseteq Router
  BY EntriesMap DEF Inv
<1>2. TypeOK' BY <1>1, BuiltEntries DEF Inv, TypeOK, Sound
<1>3. \A g \in Flow : flow'[g] = IF g = f THEN v ELSE flow[g] BY DEF Inv, TypeOK
<1>4. FlowsUnique' BY <1>3 DEF Inv, FlowsUnique
<1>5. \A g \in Flow : Sound(flow[g])' BY <1>1, <1>3 DEF Inv, Sound, Configured
<1> QED BY <1>2, <1>4, <1>5 DEF Inv

LEMMA Ended ==
  ASSUME Inv, NEW f \in Flow, flow' = [flow EXCEPT ![f] = Off],
         entries' \in [DOMAIN entries -> Entry]
  PROVE  Inv'
<1>1. Off.uid = None BY DEF Off
<1> QED BY <1>1, OneFlow, OffIsSound DEF Inv

\* An entry is created for r, by a flow that ends.
LEMMA CreateKeeps ==
  ASSUME Inv, NEW f \in Flow, NEW r \in Router, flow[f].step = "stating",
         Create(f, r)
  PROVE  Inv'
<1>1. Submitted(f) \in Entry BY DEF Inv, Sound, Submitted, Entry
<1>2. DOMAIN entries \subseteq Router /\ entries \in [DOMAIN entries -> Entry]
  BY EntriesMap DEF Inv
<1>3. /\ DOMAIN entries' = DOMAIN entries \union {r}
      /\ entries' \in [DOMAIN entries \union {r} -> Entry]
  BY <1>1, <1>2 DEF Create
<1>4. \A g \in Flow : flow'[g] = IF g = f \/ flow[g].uid = r THEN Off ELSE flow[g]
  BY DEF Create
<1>5. Off \in FlowState BY DEF Off, FlowState
<1>6. TypeOK'
  <2>1. flow' \in [Flow -> FlowState] BY <1>5 DEF Create, Inv, TypeOK
  <2> QED BY <2>1, <1>2, <1>3, BuiltEntries DEF TypeOK
<1>7. FlowsUnique' BY <1>4 DEF Inv, FlowsUnique, Off
<1>8. \A g \in Flow : Sound(flow[g])'
  BY <1>3, <1>4, <1>2, NoneAssumption DEF Inv, Sound, Configured, Off, FlowState
<1> QED BY <1>6, <1>7, <1>8 DEF Inv

LEMMA RemoveKeeps ==
  ASSUME Inv, NEW r \in Router, RemoveEntry(r)
  PROVE  Inv'
<1>1. DOMAIN entries \subseteq Router /\ entries \in [DOMAIN entries -> Entry]
  BY EntriesMap DEF Inv
<1>2. /\ DOMAIN entries' = DOMAIN entries \ {r}
      /\ entries' \in [DOMAIN entries \ {r} -> Entry]
  BY <1>1 DEF RemoveEntry
<1>3. \A g \in Flow : flow'[g] = IF flow[g].source = "reauth" /\ flow[g].uid = r
                                   THEN Off ELSE flow[g]
  BY DEF RemoveEntry
<1>4. Off \in FlowState BY DEF Off, FlowState
<1>5. TypeOK'
  <2>1. flow' \in [Flow -> FlowState] BY <1>4 DEF RemoveEntry, Inv, TypeOK
  <2> QED BY <2>1, <1>1, <1>2, BuiltEntries DEF TypeOK
<1>6. FlowsUnique' BY <1>3 DEF Inv, FlowsUnique, Off
<1>7. \A g \in Flow : Sound(flow[g])'
  BY <1>1, <1>2, <1>3, NoneAssumption DEF Inv, Sound, Configured, Off, FlowState
<1> QED BY <1>5, <1>6, <1>7 DEF Inv

\* Whoever has an id is an offer, which Busy finds, or a reauthentication, whose
\* router is configured.
LEMMA FreeId ==
  ASSUME Inv, NEW f \in Flow, NEW r \in Router, ~Busy(f, r), ~Configured(r)
  PROVE  \A g \in Flow \ {f} : flow[g].uid # r
BY DEF Inv, Sound, Busy

LEMMA BeginKeeps ==
  ASSUME Inv, NEW f \in Flow, Begin(f)
  PROVE  Inv'
<1>1. entries \in [DOMAIN entries -> Entry] BY EntriesMap DEF Inv
<1>2. CASE StartUser(f)
  <2> DEFINE v == [Off EXCEPT !.step = "form"]
  <2>1. Sound(v) /\ v.uid = None BY DEF Sound, Off, FlowState
  <2> QED BY <1>1, <1>2, <2>1, OneFlow DEF StartUser
<1>3. ASSUME NEW u \in Url, StartZeroconf(f, u) PROVE Inv'
  <2> DEFINE v == [Off EXCEPT !.step = "fetching", !.source = "zeroconf", !.url = u]
  <2>1. Sound(v) /\ v.uid = None
    BY NoneAssumption, EntriesMap DEF Sound, Off, FlowState, Configured, Inv
  <2> QED BY <1>1, <1>3, <2>1, OneFlow DEF StartZeroconf
<1>4. ASSUME NEW r \in Router, StartReauth(f, r) PROVE Inv'
  <2> DEFINE v == [Off EXCEPT !.step = "form", !.source = "reauth", !.uid = r]
  <2>1. Sound(v) /\ v.uid = r BY <1>4 DEF Sound, Off, FlowState, StartReauth
  <2>2. \A g \in Flow \ {f} : flow[g].uid # r
    BY <1>4, NoneAssumption DEF StartReauth, Inv, Sound, FlowState
  <2> QED BY <1>1, <1>4, <2>1, <2>2, OneFlow DEF StartReauth
<1>5. ASSUME NEW r \in Router, DiscoveryAnswers(f, r) PROVE Inv'
  <2>1. CASE Busy(f, r) \/ Configured(r)
    BY <1>1, <1>5, <2>1, Ended DEF DiscoveryAnswers
  <2>2. CASE ~Busy(f, r) /\ ~Configured(r)
    <3> DEFINE v == [Off EXCEPT !.step = "form", !.source = "zeroconf", !.uid = r]
    <3>1. Sound(v) /\ v.uid = r BY <2>2 DEF Sound, Off, FlowState
    <3>2. \A g \in Flow \ {f} : flow[g].uid # r BY <2>2, FreeId
    <3> QED BY <1>1, <1>5, <2>2, <3>1, <3>2, OneFlow DEF DiscoveryAnswers, Offered
  <2> QED BY <2>1, <2>2
<1>6. CASE DiscoveryFails(f) BY <1>1, <1>6, Ended DEF DiscoveryFails
<1> QED BY <1>2, <1>3, <1>4, <1>5, <1>6 DEF Begin

LEMMA ValidateKeeps ==
  ASSUME Inv, NEW f \in Flow, Validate(f)
  PROVE  Inv'
<1>0. /\ entries \in [DOMAIN entries -> Entry]
      /\ Sound(flow[f]) /\ flow[f] \in FlowState
  BY EntriesMap DEF Inv, TypeOK
<1>1. ASSUME NEW u \in Url, NEW t \in Token, Submit(f, u, t) PROVE Inv'
  <2> DEFINE v == [flow[f] EXCEPT !.step = "probing", !.url = u, !.token = t]
  <2>1. flow' = [flow EXCEPT ![f] = v] /\ entries' = entries
    BY <1>1 DEF Submit, Inv, TypeOK
  <2>2. Sound(v) /\ v.uid = flow[f].uid BY <1>0, <1>1 DEF Sound, FlowState, Submit
  <2> QED BY <1>0, <2>1, <2>2, OneFlow
<1>2. ASSUME NEW r \in Router, ProbeAnswers(f, r) PROVE Inv'
  <2> DEFINE v == [flow[f] EXCEPT !.step = "stating", !.id = r]
  <2>1. flow' = [flow EXCEPT ![f] = v] /\ entries' = entries
    BY <1>2 DEF ProbeAnswers, Inv, TypeOK
  <2>2. Sound(v) /\ v.uid = flow[f].uid
    BY <1>0, <1>2 DEF Sound, FlowState, ProbeAnswers
  <2> QED BY <1>0, <2>1, <2>2, OneFlow
<1>3. CASE ValidationFails(f)
  <2>1. CASE flow[f].source = "closed"
    BY <1>0, <1>3, <2>1, Ended DEF ValidationFails
  <2>2. CASE flow[f].source # "closed"
    <3> DEFINE v == [flow[f] EXCEPT !.step = "form", !.url = None, !.token = None,
                                    !.id = None]
    <3>1. flow' = [flow EXCEPT ![f] = v] /\ entries' = entries
      BY <1>3, <2>2 DEF ValidationFails
    <3>2. Sound(v) /\ v.uid = flow[f].uid
      BY <1>0, <1>3 DEF Sound, FlowState, ValidationFails
    <3> QED BY <1>0, <3>1, <3>2, OneFlow
  <2> QED BY <2>1, <2>2
<1>4. CASE Close(f)
  <2>1. CASE flow[f].step = "form" BY <1>0, <1>4, <2>1, Ended DEF Close
  <2>2. CASE flow[f].step # "form"
    <3> DEFINE v == [flow[f] EXCEPT !.source = "closed"]
    <3>1. flow' = [flow EXCEPT ![f] = v] /\ entries' = entries
      BY <1>4, <2>2 DEF Close
    <3>2. Sound(v) /\ v.uid = flow[f].uid BY <1>0, <1>4 DEF Sound, FlowState, Close
    <3> QED BY <1>0, <3>1, <3>2, OneFlow
  <2> QED BY <2>1, <2>2
<1> QED BY <1>1, <1>2, <1>3, <1>4 DEF Validate

LEMMA FinishKeeps ==
  ASSUME Inv, NEW f \in Flow, Finish(f)
  PROVE  Inv'
<1>0. /\ entries \in [DOMAIN entries -> Entry]
      /\ Sound(flow[f]) /\ flow[f] \in FlowState
  BY EntriesMap DEF Inv, TypeOK
<1>1. CASE UserDone(f)
  <2> DEFINE r == flow[f].id
  <2>1. r \in Router /\ flow[f].url \in Url BY <1>0, <1>1 DEF Sound, UserDone
  <2>2. CASE Create(f, r) BY <1>1, <2>1, <2>2, CreateKeeps DEF UserDone
  <2>3. CASE /\ entries' = [entries EXCEPT ![r].url = flow[f].url]
             /\ flow' = [flow EXCEPT ![f] = Off]
    <3>1. entries' \in [DOMAIN entries -> Entry] BY <1>0, <2>1, <2>3 DEF Entry
    <3> QED BY <2>3, <3>1, Ended
  <2>4. CASE UNCHANGED entries /\ flow' = [flow EXCEPT ![f] = Off]
    BY <1>0, <2>4, Ended
  <2> QED BY <1>1, <2>2, <2>3, <2>4 DEF UserDone
<1>2. CASE ConfirmDone(f)
  <2>1. flow[f].uid \in Router BY <1>0, <1>2 DEF Sound, ConfirmDone
  <2> QED BY <1>2, <2>1, CreateKeeps DEF ConfirmDone
<1>3. CASE ReauthDone(f)
  <2>1. flow[f].token \in Token BY <1>0, <1>3 DEF Sound, ReauthDone
  <2>2. entries' = [entries EXCEPT ![flow[f].uid].token = flow[f].token]
    BY <1>3 DEF ReauthDone
  <2>3. entries' \in [DOMAIN entries -> Entry] BY <1>0, <2>1, <2>2 DEF Entry
  <2> QED BY <1>3, <2>3, Ended DEF ReauthDone
<1> QED BY <1>1, <1>2, <1>3 DEF Finish

LEMMA InvStep == Inv /\ [Next]_vars => Inv'
<1> SUFFICES ASSUME Inv, [Next]_vars PROVE Inv'
  OBVIOUS
<1>1. CASE Restart
  <2>1. Off \in FlowState BY DEF Off, FlowState
  <2>2. TypeOK' BY <1>1, <2>1 DEF Restart, Inv, TypeOK
  <2>3. \A f \in Flow : flow'[f] = Off BY <1>1 DEF Restart
  <2>4. Sound(Off)' BY <1>1, OffIsSound DEF Restart, Inv, Sound, Configured
  <2>5. \A f \in Flow : Sound(flow[f])' BY <2>3, <2>4 DEF Sound, Configured
  <2> QED BY <2>2, <2>3, <2>5 DEF Inv, FlowsUnique, Off
<1>2. CASE UNCHANGED vars
  BY <1>2 DEF vars, Inv, TypeOK, FlowsUnique, Sound, Configured
<1> QED BY <1>1, <1>2, BeginKeeps, ValidateKeeps, FinishKeeps, RemoveKeeps DEF Next

\* Types, of the entries and of every flow (config_flow.py).
THEOREM TypeCorrect == Spec => []TypeOK
<1>1. Inv => TypeOK BY DEF Inv
<1> QED BY <1>1, InvInit, InvStep, PTL DEF Spec

\* No two flows in progress are for the same router (async_step_zeroconf, and the
\* reauthentication that the coordinator asks for).
THEOREM OneFlowPerRouter == Spec => []FlowsUnique
<1>1. Inv => FlowsUnique BY DEF Inv
<1> QED BY <1>1, InvInit, InvStep, PTL DEF Spec

-----------------------------------------------------------------------------
(* The registry *)

LEMMA CreateAdds ==
  ASSUME Inv, NEW f \in Flow, NEW r \in Router, flow[f].step = "stating",
         ~Configured(r), Create(f, r)
  PROVE  Registry!Next
<1>1. Submitted(f) \in Registry!SprEntry
  BY DEF Inv, Sound, Submitted, Registry!SprEntry
<1>2. Registry!Add(r, Submitted(f)) BY DEF Registry!Add, Create, Configured
<1> QED BY <1>1, <1>2 DEF Registry!Next

LEMMA FinishRefines ==
  ASSUME Inv, NEW f \in Flow, Finish(f)
  PROVE  [Registry!Next]_entries
<1>0. Sound(flow[f]) /\ DOMAIN entries \subseteq Router BY EntriesMap DEF Inv
<1>1. CASE UserDone(f)
  <2> DEFINE r == flow[f].id
  <2>1. r \in Router /\ flow[f].url \in Url BY <1>0, <1>1 DEF Sound, UserDone
  <2>2. CASE ~Busy(f, r) /\ ~Configured(r) /\ flow[f].source = "user"
    BY <1>1, <2>1, <2>2, CreateAdds DEF UserDone
  <2>3. CASE Configured(r) /\ ~Busy(f, r)
    <3>1. Registry!Repoint(r, flow[f].url)
      BY <1>1, <2>3 DEF UserDone, Registry!Repoint, Configured
    <3> QED BY <2>1, <3>1 DEF Registry!Next
  <2>4. CASE Busy(f, r) \/ (~Configured(r) /\ flow[f].source # "user")
    BY <1>1, <2>4 DEF UserDone
  <2> QED BY <2>2, <2>3, <2>4
<1>2. CASE ConfirmDone(f)
  <2>1. flow[f].uid \in Router /\ ~Configured(flow[f].uid)
    BY <1>0, <1>2 DEF Sound, ConfirmDone
  <2> QED BY <1>2, <2>1, CreateAdds DEF ConfirmDone
<1>3. CASE ReauthDone(f)
  <2>1. flow[f].uid \in DOMAIN entries /\ flow[f].token \in Token
    BY <1>0, <1>3 DEF Sound, ReauthDone, Configured
  <2>2. Registry!Rekey(flow[f].uid, flow[f].token)
    BY <1>3, <2>1 DEF ReauthDone, Registry!Rekey
  <2> QED BY <1>0, <2>1, <2>2 DEF Registry!Next
<1> QED BY <1>1, <1>2, <1>3 DEF Finish

LEMMA StepRefines == Inv /\ [Next]_vars => [Registry!Next]_entries
<1> SUFFICES ASSUME Inv, [Next]_vars PROVE [Registry!Next]_entries
  OBVIOUS
<1>1. ASSUME NEW f \in Flow, Begin(f) \/ Validate(f) PROVE UNCHANGED entries
  BY <1>1 DEF Begin, StartUser, StartZeroconf, StartReauth, DiscoveryAnswers,
              DiscoveryFails, Validate, Submit, ProbeAnswers, ValidationFails, Close
<1>2. ASSUME NEW r \in Router, RemoveEntry(r) PROVE Registry!Next
  <2>1. Registry!Remove(r) BY <1>2 DEF RemoveEntry, Registry!Remove, Configured
  <2> QED BY <2>1 DEF Registry!Next
<1>3. CASE Restart \/ UNCHANGED vars BY <1>3 DEF Restart, vars
<1> QED BY <1>1, <1>2, <1>3, FinishRefines DEF Next

\* The config flow implements the registry: no entry is overwritten, and its parts
\* change one at a time, for any number of flows, routers, addresses and tokens.
THEOREM RegistryRefined == Spec => ImplementsRegistry
<1>1. Init => Registry!Init
  BY DEF Init, Registry!Init
<1> QED BY <1>1, InvInit, InvStep, StepRefines, PTL
        DEF Spec, ImplementsRegistry, Registry!Spec

\* No broadcast changes the address of an entry (config_flow.py: "deliberately no
\* updates").
THEOREM NeverRepointed == Spec => DiscoveryNeverRepoints
<1> DEFINE Justified ==
      \A r \in DOMAIN entries \cap DOMAIN entries' :
        entries'[r].url # entries[r].url =>
          \E f \in Flow : /\ flow[f].source \in {"user", "closed"}
                          /\ flow[f].id = r
                          /\ flow[f].url = entries'[r].url
<1>1. ASSUME Inv, NEW f \in Flow, Finish(f) PROVE Justified
  <2> SUFFICES ASSUME NEW r \in DOMAIN entries \cap DOMAIN entries',
                      entries'[r].url # entries[r].url
               PROVE  \E g \in Flow : /\ flow[g].source \in {"user", "closed"}
                                      /\ flow[g].id = r
                                      /\ flow[g].url = entries'[r].url
    OBVIOUS
  <2>0. Sound(flow[f]) /\ entries \in [DOMAIN entries -> Entry]
    BY <1>1, EntriesMap DEF Inv
  <2>1. ASSUME NEW s, ~Configured(s), Create(f, s) PROVE FALSE
    BY <2>1 DEF Create, Configured
  <2>2. CASE UserDone(f)
    <3>1. entries' = [entries EXCEPT ![flow[f].id].url = flow[f].url]
      BY <2>1, <2>2 DEF UserDone
    <3>2. r = flow[f].id /\ entries'[r].url = flow[f].url
      BY <2>0, <3>1 DEF Entry
    <3> QED BY <2>2, <3>2 DEF UserDone
  <2>3. CASE ConfirmDone(f) BY <2>0, <2>1, <2>3 DEF Sound, ConfirmDone
  <2>4. CASE ReauthDone(f)
    <3>1. entries' = [entries EXCEPT ![flow[f].uid].token = flow[f].token]
      BY <2>4 DEF ReauthDone
    <3> QED BY <2>0, <3>1 DEF Entry
  <2> QED BY <1>1, <2>2, <2>3, <2>4 DEF Finish
<1>2. ASSUME NEW f \in Flow, Begin(f) \/ Validate(f) PROVE UNCHANGED entries
  BY <1>2 DEF Begin, StartUser, StartZeroconf, StartReauth, DiscoveryAnswers,
              DiscoveryFails, Validate, Submit, ProbeAnswers, ValidationFails, Close
<1>3. ASSUME NEW r \in Router, RemoveEntry(r) PROVE Justified BY <1>3 DEF RemoveEntry
<1>4. Inv /\ [Next]_vars => [Justified]_vars
  BY <1>1, <1>2, <1>3 DEF Next, Restart, vars
<1> QED BY <1>4, InvInit, InvStep, PTL DEF Spec, DiscoveryNeverRepoints

-----------------------------------------------------------------------------
(* When a router cannot be added by hand *)

\* An offer for r that discovery made is on the screen, or being validated.
OfferPending(r) == \E g \in Flow : flow[g].source = "zeroconf" /\ flow[g].uid = r

\* A user step that comes to its end leaves the router configured exactly when no offer
\* for that router is pending.
ManualSetupNeedsNoOffer ==
  [][\A f \in Flow : UserDone(f) /\ flow[f].source = "user" =>
       (flow[f].id \in DOMAIN entries' <=> ~OfferPending(flow[f].id))]_vars

\* What ManualSetupAvailable leaves out, and no more: the offer that discovery opened is
\* the one thing that turns away a user whose token was accepted (async_set_unique_id);
\* another user's step, a reauthentication or an entry that is there already is not.
THEOREM OnlyOffersTurnAway == Spec => ManualSetupNeedsNoOffer
<1>1. ASSUME Inv, NEW f \in Flow, UserDone(f), flow[f].source = "user"
      PROVE  flow[f].id \in DOMAIN entries' <=> ~OfferPending(flow[f].id)
  <2> DEFINE r == flow[f].id
  <2>0. r \in Router /\ r # None
    BY <1>1, NoneAssumption DEF Inv, Sound, UserDone
  <2>1. CASE OfferPending(r)
    <3>1. PICK g \in Flow : flow[g].source = "zeroconf" /\ flow[g].uid = r
      BY <2>1 DEF OfferPending
    <3>2. Busy(f, r) /\ ~Configured(r)
      BY <1>1, <3>1 DEF Busy, Inv, Sound
    <3>3. UNCHANGED entries
      BY <1>1, <3>2 DEF UserDone
    <3> QED BY <2>1, <3>2, <3>3 DEF Configured
  <2>2. CASE ~OfferPending(r)
    <3>1. ~Busy(f, r)
      BY <1>1, <2>0, <2>2 DEF Busy, OfferPending, Inv, Sound, FlowState
    <3>2. CASE Configured(r)
      BY <1>1, <2>2, <3>1, <3>2 DEF UserDone, Configured
    <3>3. CASE ~Configured(r)
      BY <1>1, <2>2, <3>1, <3>3 DEF UserDone, Create
    <3> QED BY <3>2, <3>3
  <2> QED BY <2>1, <2>2
<1>2. Inv /\ [Next]_vars
        => [\A f \in Flow : UserDone(f) /\ flow[f].source = "user" =>
              (flow[f].id \in DOMAIN entries' <=> ~OfferPending(flow[f].id))]_vars
  BY <1>1
<1> QED BY <1>2, InvInit, InvStep, PTL DEF Spec, ManualSetupNeedsNoOffer
=============================================================================
