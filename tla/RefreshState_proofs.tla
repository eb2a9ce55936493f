------------------------ MODULE RefreshState_proofs ------------------------
(***************************************************************************)
(* Proofs about RefreshState for any set of devices, access points and       *)
(* subscriptions and any bound on the clock: types, safety, and that the     *)
(* snapshot comes to agree with SPR's tables once they rest.                *)
(***************************************************************************)
EXTENDS RefreshState, TLAPS

-----------------------------------------------------------------------------
(* Type correctness *)

LEMMA TimeIsNat == Time \subseteq Nat /\ 0 \in Time
  BY TimeAssumption DEF Time

\* A map built over a set of devices is a Go map keyed by MAC.
LEMMA BuiltMap ==
  ASSUME NEW S, NEW D \in SUBSET MAC, NEW f \in [D -> S]
  PROVE  f \in MapsTo(S)
  BY DEF MapsTo

LEMMA MapDomain ==
  ASSUME NEW S, NEW f \in MapsTo(S)
  PROVE  DOMAIN f \in SUBSET MAC /\ f \in [DOMAIN f -> S]
  BY DEF MapsTo

LEMMA EmptyMap ==
  ASSUME NEW S
  PROVE  [m \in {} |-> FALSE] \in MapsTo(S)
<1>1. [m \in {} |-> FALSE] \in [{} -> S]
  OBVIOUS
<1>2. QED
  BY <1>1, BuiltMap

\* Whatever is merged into an entry of gState.lastSeen is a time, and not older
\* than the entry.
LEMMA MergedIsLater ==
  ASSUME NEW old \in Time, NEW new \in Time
  PROVE  /\ MergedSighting(old, new) \in Time
         /\ MergedSighting(old, new) \in {old, new}
         /\ MergedSighting(old, new) >= old
  BY TimeIsNat DEF MergedSighting

LEMMA SeenByRefreshIsTime ==
  ASSUME TypeOK
  PROVE  SeenByRefresh \in [MAC -> Time]
  BY DEF SeenByRefresh, SightingTime, TypeOK

LEMMA TypeInit == Init => TypeOK
<1> SUFFICES ASSUME Init PROVE TypeOK
  OBVIOUS
<1>1. snapshot \in [at : Time, devices : MapsTo(Device)]
  BY EmptyMap, TimeIsNat DEF Init, EmptySnapshot
<1>2. prevConnected \in MapsTo(BOOLEAN)
  BY EmptyMap DEF Init, NoConnected
<1>3. clock \in Time \ {0}
  BY TimeAssumption DEF Init, Time
<1>4. QED
  BY <1>1, <1>2, <1>3, TimeIsNat
  DEF Init, TypeOK, Never, Phases, Belief

LEMMA ResetType ==
  ASSUME ResetLocals
  PROVE  /\ now' \in Time
         /\ devices' \in SUBSET MAC
         /\ toAsk' \in SUBSET AP
         /\ present' \in SUBSET MAC
         /\ seenCopy' \in [MAC -> Time]
         /\ prevConnected' \in MapsTo(BOOLEAN)
         /\ toNotify' \in SUBSET MAC
<1>1. prevConnected' \in MapsTo(BOOLEAN)
  BY EmptyMap DEF ResetLocals, NoConnected
<1>2. QED
  BY <1>1, TimeIsNat DEF ResetLocals, Never

LEMMA TypeWorld ==
  ASSUME TypeOK, World
  PROVE  TypeOK'
<1> USE DEF TypeOK, sprVars, storeVars, localVars
<1>1. CASE Tick
  <2>1. clock + 1 \in Time \ {0}
    BY <1>1, TimeAssumption DEF Tick, Time
  <2>2. QED
    BY <1>1, <2>1 DEF Tick
<1>2. ASSUME NEW m \in MAC, Register(m) PROVE TypeOK'
  BY <1>2 DEF Register
<1>3. ASSUME NEW m \in MAC, NEW ap \in AP \union {"none"}, Station(m, ap)
      PROVE  TypeOK'
  BY <1>3 DEF Station
<1>4. ASSUME NEW m \in MAC, Learn(m) PROVE TypeOK'
  BY <1>4 DEF Learn
<1>5. QED
  BY <1>1, <1>2, <1>3, <1>4 DEF World

LEMMA TypeBus ==
  ASSUME TypeOK, Bus
  PROVE  TypeOK'
<1> USE DEF TypeOK, sprVars, storeVars, localVars
<1>1. ASSUME NEW t \in Topics, MarkSeen(t) PROVE TypeOK'
  <2>1. sighting[t] \in Call
    BY <1>1 DEF MarkSeen
  <2>2. sighting[t].mac \in MAC /\ sighting[t].when \in Time
    BY <2>1 DEF Call
  <2>3. QED
    BY <1>1, <2>2 DEF MarkSeen
<1>2. ASSUME NEW t \in Topics, NEW m \in MAC, BusEvent(t, m) PROVE TypeOK'
  BY <1>2 DEF BusEvent, Call
<1>3. QED
  BY <1>1, <1>2 DEF Bus

LEMMA TypeRefresh ==
  ASSUME TypeOK, Refresh
  PROVE  TypeOK'
<1> USE DEF TypeOK, sprVars, storeVars, localVars, Phases
<1>1. CASE BeginRefresh
  BY <1>1 DEF BeginRefresh
<1>2. CASE FetchDevices
  BY <1>2 DEF FetchDevices, Decoded
<1>3. CASE DevicesUnavailable
  BY <1>3, ResetType DEF DevicesUnavailable
<1>4. CASE InterfacesAvailable \/ InterfacesUnavailable
  BY <1>4 DEF InterfacesAvailable, InterfacesUnavailable, FetchInterfaces
<1>5. CASE FetchTopology
  BY <1>5 DEF FetchTopology, InTables, OnWifi
<1>6. CASE TopologyUnavailable
  BY <1>6 DEF TopologyUnavailable
<1>7. ASSUME NEW ap \in AP, FetchStations(ap) \/ StationsUnavailable(ap)
      PROVE  TypeOK'
  BY <1>7 DEF FetchStations, StationsUnavailable, AskStations
<1>8. CASE FetchArp \/ ArpUnavailable
  BY <1>8 DEF FetchArp, ArpUnavailable, AskArp
<1>9. CASE CopyUnderLock
  <2>1. DOMAIN snapshot.devices \in SUBSET MAC
        /\ snapshot.devices \in [DOMAIN snapshot.devices -> Device]
    BY MapDomain
  <2>2. prevConnected' \in [DOMAIN snapshot.devices -> BOOLEAN]
    BY <1>9, <2>1 DEF CopyUnderLock, Device
  <2>3. prevConnected' \in MapsTo(BOOLEAN)
    BY <2>1, <2>2, BuiltMap
  <2>4. QED
    BY <1>9, <2>3 DEF CopyUnderLock
<1>10. CASE Publish
  <2>1. lastSeen' \in [MAC -> Time]
    BY <1>10, SeenByRefreshIsTime, MergedIsLater DEF Publish
  <2>2. snapshot'.devices \in [devices -> Device]
    BY <1>10, SeenByRefreshIsTime DEF Publish, Device
  <2>3. snapshot'.devices \in MapsTo(Device)
    BY <2>2, BuiltMap
  <2>4. snapshot' \in [at : Time, devices : MapsTo(Device)]
    BY <1>10, <2>3 DEF Publish
  <2>5. toNotify' \in SUBSET MAC
    BY <1>10 DEF Publish, Transitions
  <2>6. told' \in [MAC -> Belief]
    BY <1>10 DEF Publish, BeliefOf, Belief
  <2>7. QED
    BY <1>10, <2>1, <2>4, <2>5, <2>6 DEF Publish
<1>11. ASSUME NEW m \in MAC, Broadcast(m) PROVE TypeOK'
  BY <1>11 DEF Broadcast, BeliefOf, Belief
<1>12. CASE EndRefresh
  BY <1>12, ResetType DEF EndRefresh
<1>13. QED
  BY <1>1, <1>2, <1>3, <1>4, <1>5, <1>6, <1>7, <1>8, <1>9, <1>10, <1>11, <1>12
  DEF Refresh

LEMMA TypeRestart ==
  ASSUME TypeOK, Restart
  PROVE  TypeOK'
<1>1. snapshot' \in [at : Time, devices : MapsTo(Device)]
  BY EmptyMap, TimeIsNat DEF Restart, EmptySnapshot
<1>2. told' \in [MAC -> Belief] /\ lastSeen' \in [MAC -> Time]
  BY TimeIsNat DEF Restart, Belief, Never
<1>3. sighting' \in [Topics -> Call \union {NoCall}]
  BY DEF Restart
<1>4. QED
  BY <1>1, <1>2, <1>3, ResetType DEF Restart, TypeOK, sprVars, Phases

LEMMA TypeStep == TypeOK /\ [Next]_vars => TypeOK'
<1> SUFFICES ASSUME TypeOK, [Next]_vars PROVE TypeOK'
  OBVIOUS
<1>1. CASE UNCHANGED vars
  BY <1>1 DEF TypeOK, vars, sprVars, storeVars, localVars
<1>2. QED
  BY <1>1, TypeWorld, TypeBus, TypeRefresh, TypeRestart DEF Next

\* Every variable of the store, of the refresh and of the handlers stays in its
\* type: in particular every time recorded is an instant of the wall clock.
THEOREM TypeCorrect == Spec => []TypeOK
  BY TypeInit, TypeStep, PTL DEF Spec

-----------------------------------------------------------------------------
(* Publishing takes no sighting back *)

\* The critical section that publishes never replaces an entry of lastSeen by an
\* older time, whatever the bus handlers wrote since the copy was taken.
THEOREM NothingClobbered == Spec => NoClobber
<1>1. ASSUME TypeOK, Publish, NEW m \in MAC
      PROVE  lastSeen'[m] >= lastSeen[m]
  <2>1. lastSeen[m] \in Time /\ SeenByRefresh[m] \in Time
    BY <1>1, SeenByRefreshIsTime DEF TypeOK
  <2>2. lastSeen'[m] = MergedSighting(lastSeen[m], SeenByRefresh[m])
    BY <1>1 DEF Publish
  <2>3. QED
    BY <2>1, <2>2, MergedIsLater
<1>2. TypeOK /\ [Next]_vars
        => [Publish => \A m \in MAC : lastSeen'[m] >= lastSeen[m]]_vars
  BY <1>1
<1>3. QED
  BY <1>2, TypeCorrect, PTL DEF Spec, NoClobber

-----------------------------------------------------------------------------
(* Sightings are real *)

\* The strengthening: whoever holds a time, holds one at which the device was
\* really seen. A refresh may stamp what it found with its entry time because
\* the device was in a table at a later instant.
SightingsInv ==
  /\ now <= clock
  /\ pc = "idle" => present = {}
  /\ \A m \in MAC :
       /\ truth[m] <= clock
       /\ m \in InTables => truth[m] = clock
       /\ m \in present => now <= truth[m]
       /\ seenCopy[m] <= truth[m]
  /\ \A t \in Topics :
       sighting[t] # NoCall => sighting[t].when <= truth[sighting[t].mac]
  /\ SightingsAreReal

LEMMA SightingsInit == Init => SightingsInv
<1> SUFFICES ASSUME Init PROVE SightingsInv
  OBVIOUS
<1>1. InTables = {}
  BY DEF Init, InTables, OnWifi
<1>2. QED
  BY <1>1 DEF Init, SightingsInv, SightingsAreReal, Never, EmptySnapshot

\* The times in the state are numbers.
LEMMA TimesAreNumbers ==
  ASSUME TypeOK
  PROVE  /\ clock \in Nat /\ now \in Nat
         /\ \A m \in MAC : /\ truth[m] \in Nat
                           /\ lastSeen[m] \in Nat
                           /\ seenCopy[m] \in Nat
         /\ DOMAIN snapshot.devices \subseteq MAC
         /\ \A m \in DOMAIN snapshot.devices :
              snapshot.devices[m].lastSeen \in Nat
         /\ \A t \in Topics : sighting[t] # NoCall =>
              sighting[t].mac \in MAC /\ sighting[t].when \in Nat
<1>1. snapshot.devices \in MapsTo(Device)
  BY DEF TypeOK
<1>2. /\ DOMAIN snapshot.devices \subseteq MAC
      /\ \A m \in DOMAIN snapshot.devices : snapshot.devices[m] \in Device
  BY <1>1, MapDomain
<1>3. \A t \in Topics : sighting[t] # NoCall => sighting[t] \in Call
  BY DEF TypeOK
<1>4. QED
  BY <1>2, <1>3, TimeIsNat DEF TypeOK, Device, Call

\* A step that only makes the last sightings later keeps the invariant.
LEMMA TruthAdvances ==
  ASSUME TypeOK, SightingsInv,
         UNCHANGED <<storeVars, localVars>>,
         clock' \in Nat, clock' >= clock,
         \A m \in MAC : /\ truth'[m] \in Nat /\ truth[m] <= truth'[m]
                        /\ truth'[m] <= clock'
                        /\ m \in InTables' => truth'[m] = clock',
         \A t \in Topics : \/ sighting'[t] = sighting[t]
                           \/ sighting'[t].when <= truth'[sighting'[t].mac]
  PROVE  SightingsInv'
<1>0. ASSUME NEW m \in MAC, NEW x \in Nat, x <= truth[m]
      PROVE  x <= truth'[m]
  <2>1. truth[m] \in Nat /\ truth'[m] \in Nat /\ truth[m] <= truth'[m]
    BY TimesAreNumbers
  <2>2. QED
    BY <1>0, <2>1
<1>1. now' <= clock'
  BY TimesAreNumbers DEF SightingsInv, localVars
<1>2. ASSUME NEW m \in MAC
      PROVE  /\ m \in present' => now' <= truth'[m]
             /\ seenCopy'[m] <= truth'[m]
             /\ lastSeen'[m] <= truth'[m]
  <2>1. /\ now \in Nat /\ seenCopy[m] \in Nat /\ lastSeen[m] \in Nat
    BY TimesAreNumbers
  <2>2. /\ m \in present => now <= truth[m]
        /\ seenCopy[m] <= truth[m]
        /\ lastSeen[m] <= truth[m]
    BY DEF SightingsInv, SightingsAreReal
  <2>3. QED
    BY <1>0, <2>1, <2>2 DEF localVars, storeVars
<1>3. ASSUME NEW t \in Topics, sighting'[t] # NoCall
      PROVE  sighting'[t].when <= truth'[sighting'[t].mac]
  <2>1. CASE sighting'[t] = sighting[t]
    <3>1. sighting[t].mac \in MAC /\ sighting[t].when \in Nat
      BY <1>3, <2>1, TimesAreNumbers
    <3>2. sighting[t].when <= truth[sighting[t].mac]
      BY <1>3, <2>1 DEF SightingsInv
    <3>3. QED
      BY <1>0, <2>1, <3>1, <3>2
  <2>2. QED
    BY <2>1
<1>4. ASSUME NEW m \in DOMAIN snapshot'.devices
      PROVE  snapshot'.devices[m].lastSeen <= truth'[m]
  <2>1. snapshot' = snapshot
    BY DEF storeVars
  <2>2. m \in MAC /\ snapshot.devices[m].lastSeen \in Nat
    BY <2>1, TimesAreNumbers
  <2>3. snapshot.devices[m].lastSeen <= truth[m]
    BY <2>1 DEF SightingsInv, SightingsAreReal
  <2>4. QED
    BY <1>0, <2>1, <2>2, <2>3
<1>5. /\ pc' = "idle" => present' = {}
      /\ \A m \in MAC : truth'[m] <= clock' /\ (m \in InTables' => truth'[m] = clock')
  BY DEF SightingsInv, localVars
<1>6. QED
  BY <1>1, <1>2, <1>3, <1>4, <1>5 DEF SightingsInv, SightingsAreReal

LEMMA SightingsWorld ==
  ASSUME TypeOK, SightingsInv, World
  PROVE  SightingsInv'
<1>1. CASE Tick
  <2>1. InTables' = InTables
    BY <1>1 DEF Tick, InTables, OnWifi, sprVars
  <2>2. InTables \subseteq MAC
    BY DEF InTables, OnWifi, TypeOK
  <2>3. clock' = clock + 1 /\ UNCHANGED <<storeVars, localVars, sighting>>
    BY <1>1 DEF Tick
  <2>4. \A m \in MAC : truth'[m] = IF m \in InTables THEN clock + 1 ELSE truth[m]
    BY <1>1 DEF Tick
  <2>5. \A m \in MAC : truth[m] <= clock
    BY DEF SightingsInv
  <2>6. \A m \in MAC : /\ truth'[m] \in Nat /\ truth[m] <= truth'[m]
                       /\ truth'[m] <= clock'
                       /\ m \in InTables' => truth'[m] = clock'
    BY <2>1, <2>3, <2>4, <2>5, TimesAreNumbers
  <2>7. clock' \in Nat /\ clock' >= clock
    BY <2>3, TimesAreNumbers
  <2>8. QED
    BY <2>3, <2>6, <2>7, TruthAdvances
<1>2. ASSUME NEW m \in MAC, Register(m) PROVE SightingsInv'
  BY <1>2 DEF Register, InTables, OnWifi, SightingsInv, SightingsAreReal,
              storeVars, localVars
<1>3. ASSUME NEW m \in MAC,
             \/ \E ap \in AP \union {"none"} : Station(m, ap)
             \/ Learn(m)
      PROVE  SightingsInv'
  <2>1. /\ truth' = [truth EXCEPT ![m] = clock]
        /\ UNCHANGED <<clock, storeVars, localVars, sighting>>
    BY <1>3 DEF Station, Learn
  <2>2. \A n \in MAC : n # m => (n \in InTables' <=> n \in InTables)
    BY <1>3 DEF Station, Learn, InTables, OnWifi, TypeOK
  <2>3. truth \in [MAC -> Time]
    BY DEF TypeOK
  <2>4. \A n \in MAC : truth'[n] = IF n = m THEN clock ELSE truth[n]
    BY <2>1, <2>3
  <2>5. \A n \in MAC : truth[n] <= clock /\ (n \in InTables => truth[n] = clock)
    BY DEF SightingsInv
  <2>6. \A n \in MAC : /\ truth'[n] \in Nat /\ truth[n] <= truth'[n]
                       /\ truth'[n] <= clock'
                       /\ n \in InTables' => truth'[n] = clock'
    BY <2>1, <2>2, <2>4, <2>5, TimesAreNumbers
  <2>7. clock' \in Nat /\ clock' >= clock
    BY <2>1, TimesAreNumbers
  <2>8. QED
    BY <2>1, <2>6, <2>7, TruthAdvances
<1>4. QED
  BY <1>1, <1>2, <1>3 DEF World

LEMMA SightingsBus ==
  ASSUME TypeOK, SightingsInv, Bus
  PROVE  SightingsInv'
<1>0. ASSUME UNCHANGED sprVars PROVE InTables' = InTables
  BY <1>0 DEF sprVars, InTables, OnWifi
<1>1. ASSUME NEW t \in Topics, MarkSeen(t) PROVE SightingsInv'
  <2>1. InTables' = InTables
    BY <1>0, <1>1 DEF MarkSeen
  <2>2. \A m \in MAC : lastSeen'[m] <= truth'[m]
    <3>1. sighting[t].when <= truth[sighting[t].mac]
      BY <1>1 DEF MarkSeen, SightingsInv
    <3>2. lastSeen \in [MAC -> Time]
      BY DEF TypeOK
    <3>3. \A m \in MAC : lastSeen'[m] = IF m = sighting[t].mac
                                         THEN sighting[t].when ELSE lastSeen[m]
      BY <1>1, <3>2 DEF MarkSeen
    <3>4. truth' = truth
      BY <1>1 DEF MarkSeen
    <3>5. QED
      BY <3>1, <3>3, <3>4 DEF SightingsInv, SightingsAreReal
  <2>3. \A u \in Topics : sighting'[u] # NoCall => sighting'[u] = sighting[u]
    BY <1>1 DEF MarkSeen, TypeOK
  <2>4. QED
    BY <1>1, <2>1, <2>2, <2>3
    DEF MarkSeen, SightingsInv, SightingsAreReal, localVars
<1>2. ASSUME NEW t \in Topics, NEW m \in MAC, BusEvent(t, m) PROVE SightingsInv'
  <2>1. /\ truth' = [truth EXCEPT ![m] = clock]
        /\ sighting' = [sighting EXCEPT ![t] = [mac |-> m, when |-> clock]]
        /\ UNCHANGED <<clock, sprVars, storeVars, localVars>>
    BY <1>2 DEF BusEvent
  <2>2. InTables' = InTables
    BY <1>0, <2>1
  <2>3. truth \in [MAC -> Time] /\ DOMAIN sighting = Topics
    BY DEF TypeOK
  <2>4. \A n \in MAC : truth'[n] = IF n = m THEN clock ELSE truth[n]
    BY <2>1, <2>3
  <2>5. \A n \in MAC : truth[n] <= clock /\ (n \in InTables => truth[n] = clock)
    BY DEF SightingsInv
  <2>6. \A n \in MAC : /\ truth'[n] \in Nat /\ truth[n] <= truth'[n]
                       /\ truth'[n] <= clock'
                       /\ n \in InTables' => truth'[n] = clock'
    BY <2>1, <2>2, <2>4, <2>5, TimesAreNumbers
  <2>7. \A u \in Topics : \/ sighting'[u] = sighting[u]
                          \/ sighting'[u].when <= truth'[sighting'[u].mac]
    <3>1. TAKE u \in Topics
    <3>2. CASE u = t
      <4>1. sighting'[u].mac = m /\ sighting'[u].when = clock
        BY <2>1, <2>3, <3>2
      <4>2. QED
        BY <4>1, <2>4, TimesAreNumbers
    <3>3. CASE u # t
      BY <2>1, <2>3, <3>3
    <3>4. QED
      BY <3>2, <3>3
  <2>8. clock' \in Nat /\ clock' >= clock
    BY <2>1, TimesAreNumbers
  <2>9. QED
    BY <2>1, <2>6, <2>7, <2>8, TruthAdvances
<1>3. QED
  BY <1>1, <1>2 DEF Bus

\* The reads of a refresh: what joins `present` is in a table now, hence no
\* earlier than the entry time.
LEMMA SightingsRead ==
  ASSUME TypeOK, SightingsInv,
         NEW found \in SUBSET InTables,
         present' \subseteq present \union found,
         pc' # "idle",
         UNCHANGED <<clock, sprVars, storeVars, now, seenCopy, sighting, truth>>
  PROVE  SightingsInv'
<1>1. InTables' = InTables /\ InTables \subseteq MAC
  BY DEF sprVars, InTables, OnWifi, TypeOK
<1>2. \A m \in found : now <= truth[m]
  BY <1>1 DEF SightingsInv
<1>3. \A m \in MAC : m \in present' => now <= truth[m]
  BY <1>2 DEF SightingsInv
<1>4. QED
  BY <1>1, <1>3 DEF SightingsInv, SightingsAreReal, storeVars

\* Leaving a refresh, or losing it to a restart, forgets its locals.
LEMMA SightingsReset ==
  ASSUME TypeOK, SightingsInv, ResetLocals,
         UNCHANGED <<clock, sprVars, truth>>,
         \/ UNCHANGED <<storeVars, sighting>>
         \/ /\ lastSeen' = Never /\ snapshot' = EmptySnapshot
            /\ sighting' = [t \in Topics |-> NoCall]
  PROVE  SightingsInv'
<1>1. InTables' = InTables
  BY DEF sprVars, InTables, OnWifi
<1>2. now' <= clock'
  BY TimesAreNumbers DEF ResetLocals
<1>3. \A m \in MAC : 0 <= truth[m]
  BY TimesAreNumbers
<1>4. present' = {} /\ \A m \in MAC : seenCopy'[m] <= truth'[m]
  BY <1>3 DEF ResetLocals, Never
<1>5. \A t \in Topics :
        sighting'[t] # NoCall => sighting'[t].when <= truth'[sighting'[t].mac]
  BY DEF SightingsInv
<1>6. SightingsAreReal'
  BY <1>3 DEF SightingsInv, SightingsAreReal, storeVars, Never, EmptySnapshot
<1>7. QED
  BY <1>1, <1>2, <1>4, <1>5, <1>6 DEF SightingsInv

LEMMA SightingsPublish ==
  ASSUME TypeOK, SightingsInv, Publish
  PROVE  SightingsInv'
<1>1. /\ InTables' = InTables /\ pc' = "notify"
      /\ UNCHANGED <<clock, now, present, seenCopy, sighting, truth>>
  BY DEF Publish, InTables, OnWifi, sprVars
<1>2. \A m \in MAC : SeenByRefresh[m] <= truth[m]
  BY DEF SeenByRefresh, SightingTime, SightingsInv
<1>3. \A m \in MAC : lastSeen'[m] \in {lastSeen[m], SeenByRefresh[m]}
  BY SeenByRefreshIsTime, MergedIsLater DEF Publish, TypeOK
<1>4. \A m \in MAC : lastSeen'[m] <= truth[m]
  BY <1>2, <1>3 DEF SightingsInv, SightingsAreReal
<1>5. \A m \in DOMAIN snapshot'.devices :
        snapshot'.devices[m].lastSeen <= truth[m]
  BY <1>2 DEF Publish, TypeOK
<1>6. QED
  BY <1>1, <1>4, <1>5 DEF SightingsInv, SightingsAreReal

LEMMA SightingsRefresh ==
  ASSUME TypeOK, SightingsInv, Refresh
  PROVE  SightingsInv'
<1>0. ASSUME UNCHANGED sprVars PROVE InTables' = InTables
  BY <1>0 DEF sprVars, InTables, OnWifi
<1>1. CASE BeginRefresh
  <2>1. clock <= clock
    BY TimesAreNumbers
  <2>2. present = {}
    BY <1>1 DEF BeginRefresh, SightingsInv
  <2>3. QED
    BY <1>0, <1>1, <2>1, <2>2
    DEF BeginRefresh, SightingsInv, SightingsAreReal, storeVars
<1>2. CASE FetchDevices
  BY <1>0, <1>2
  DEF FetchDevices, SightingsInv, SightingsAreReal, storeVars
<1>3. CASE DevicesUnavailable
  BY <1>3, SightingsReset DEF DevicesUnavailable
<1>4. CASE InterfacesAvailable \/ InterfacesUnavailable
  BY <1>0, <1>4
  DEF InterfacesAvailable, InterfacesUnavailable, FetchInterfaces,
      SightingsInv, SightingsAreReal, storeVars
<1>5. CASE FetchTopology
  BY <1>5, SightingsRead DEF FetchTopology
<1>6. CASE TopologyUnavailable
  BY <1>0, <1>6
  DEF TopologyUnavailable, SightingsInv, SightingsAreReal, storeVars
<1>7. ASSUME NEW ap \in AP, FetchStations(ap) \/ StationsUnavailable(ap)
      PROVE  SightingsInv'
  <2>1. /\ {m \in MAC : stationed[m] = ap} \subseteq InTables
        /\ {} \subseteq InTables
    BY NamesAssumption DEF InTables, OnWifi
  <2>2. QED
    BY <1>7, <2>1, SightingsRead
    DEF FetchStations, StationsUnavailable, AskStations
<1>8. CASE FetchArp \/ ArpUnavailable
  <2>1. learned \subseteq InTables /\ {} \subseteq InTables
    BY DEF InTables
  <2>2. QED
    BY <1>8, <2>1, SightingsRead DEF FetchArp, ArpUnavailable, AskArp
<1>9. CASE CopyUnderLock
  BY <1>0, <1>9
  DEF CopyUnderLock, SightingsInv, SightingsAreReal, storeVars
<1>10. CASE Publish
  BY <1>10, SightingsPublish
<1>11. ASSUME NEW m \in MAC, Broadcast(m) PROVE SightingsInv'
  BY <1>0, <1>11
  DEF Broadcast, SightingsInv, SightingsAreReal, storeVars
<1>12. CASE EndRefresh
  BY <1>12, SightingsReset DEF EndRefresh
<1>13. QED
  BY <1>1, <1>2, <1>3, <1>4, <1>5, <1>6, <1>7, <1>8, <1>9, <1>10, <1>11, <1>12
  DEF Refresh

LEMMA SightingsStep == TypeOK /\ SightingsInv /\ [Next]_vars => SightingsInv'
<1> SUFFICES ASSUME TypeOK, SightingsInv, [Next]_vars PROVE SightingsInv'
  OBVIOUS
<1>1. CASE UNCHANGED vars
  BY <1>1 DEF vars, sprVars, storeVars, localVars, SightingsInv,
              SightingsAreReal, InTables, OnWifi
<1>2. CASE Restart
  BY <1>2, SightingsReset DEF Restart
<1>3. QED
  BY <1>1, <1>2, SightingsWorld, SightingsBus, SightingsRefresh DEF Next

\* No last_seen, in the store or in what Home Assistant is served, is later than
\* the last instant at which SPR or the bus showed the device.
THEOREM SightingsReal == Spec => []SightingsAreReal
<1>1. SightingsInv => SightingsAreReal
  BY DEF SightingsInv
<1>2. QED
  BY <1>1, TypeCorrect, SightingsInit, SightingsStep, PTL DEF Spec

-----------------------------------------------------------------------------
(* Presence is recent *)

\* Whom the snapshot calls connected, it says was seen when it was begun, and that device
\* was in a table of SPR or on the bus at that time or later.
PresenceIsRecent ==
  \A m \in DOMAIN snapshot.devices :
    snapshot.devices[m].connected =>
      snapshot.devices[m].lastSeen = snapshot.at /\ snapshot.at <= truth[m]

\* The stamp of a connected device is the time of its snapshot.
StampInv ==
  \A m \in DOMAIN snapshot.devices :
    snapshot.devices[m].connected => snapshot.devices[m].lastSeen = snapshot.at

LEMMA StampInit == Init => StampInv
  BY DEF Init, EmptySnapshot, StampInv

LEMMA StampStep == TypeOK /\ StampInv /\ [Next]_vars => StampInv'
<1> SUFFICES ASSUME TypeOK, StampInv, [Next]_vars PROVE StampInv'
  OBVIOUS
<1>1. CASE Publish
  <2>1. /\ snapshot'.at = now /\ DOMAIN snapshot'.devices = devices
        /\ \A m \in devices :
             /\ snapshot'.devices[m].connected = (m \in present)
             /\ snapshot'.devices[m].lastSeen = SeenByRefresh[m]
    BY <1>1 DEF Publish
  <2>2. \A m \in devices \cap present : SeenByRefresh[m] = now
    BY DEF SeenByRefresh, SightingTime, TypeOK
  <2>3. ASSUME NEW m \in DOMAIN snapshot'.devices, snapshot'.devices[m].connected
        PROVE  snapshot'.devices[m].lastSeen = snapshot'.at
    <3>1. m \in devices /\ m \in present
      BY <2>1, <2>3
    <3>2. QED
      BY <2>1, <2>2, <3>1
  <2>4. QED
    BY <2>3 DEF StampInv
<1>2. CASE Restart
  BY <1>2 DEF Restart, EmptySnapshot, StampInv
<1>3. CASE UNCHANGED snapshot
  BY <1>3 DEF StampInv
<1>4. ~Publish /\ ~Restart => UNCHANGED snapshot
  BY DEF Next, Refresh, BeginRefresh, FetchDevices, DevicesUnavailable,
         InterfacesAvailable, InterfacesUnavailable, FetchInterfaces, FetchTopology,
         TopologyUnavailable, FetchStations, StationsUnavailable, AskStations, FetchArp,
         ArpUnavailable, AskArp, CopyUnderLock, Broadcast, EndRefresh, World, Tick,
         Register, Station, Learn, Bus, MarkSeen, BusEvent, vars, storeVars
<1>5. QED
  BY <1>1, <1>2, <1>3, <1>4

\* A refresh reports no device connected that was gone for good before it began, however
\* long its reads took and whatever the bus said meanwhile.
THEOREM PresenceRecent == Spec => []PresenceIsRecent
<1>1. StampInv /\ SightingsAreReal => PresenceIsRecent
  BY DEF StampInv, SightingsAreReal, PresenceIsRecent
<1>2. QED
  BY <1>1, StampInit, StampStep, TypeCorrect, SightingsReal, PTL DEF Spec

-----------------------------------------------------------------------------
(* Events and snapshots agree *)

\* The strengthening: between the two critical sections nobody else replaces the
\* snapshot, so the flags copied by the first are those the second replaces; and
\* until the last broadcast the snapshot is the one this refresh built.
FollowerInv ==
  /\ pc = "publish" =>
       prevConnected = [m \in DOMAIN snapshot.devices |->
                          snapshot.devices[m].connected]
  /\ pc # "notify" => toNotify = {}
  /\ pc = "notify" =>
       /\ toNotify \subseteq devices
       /\ DOMAIN snapshot.devices = devices
       /\ \A m \in devices : snapshot.devices[m].connected = (m \in present)
  /\ FollowerInSync

LEMMA FollowerInit == Init => FollowerInv
  BY DEF Init, FollowerInv, FollowerInSync, Reported, EmptySnapshot

LEMMA FollowerPublish ==
  ASSUME TypeOK, FollowerInv, Publish
  PROVE  FollowerInv'
<1>1. /\ pc' = "notify" /\ UNCHANGED <<devices, present>>
      /\ toNotify' = Transitions
      /\ snapshot'.devices = [m \in devices |-> [connected |-> m \in present,
                                                lastSeen |-> SeenByRefresh[m]]]
  BY DEF Publish
<1>2. ASSUME NEW m \in MAC PROVE told'[m] = Reported(m)' \/ m \in toNotify'
  <2>1. told'[m] = IF m \notin devices THEN "gone"
                   ELSE IF m \in DOMAIN prevConnected THEN told[m]
                   ELSE BeliefOf(m \in present)
    BY DEF Publish
  <2>2. CASE m \notin devices
    BY <1>1, <2>1, <2>2 DEF Reported
  <2>3. CASE m \in devices \ DOMAIN prevConnected
    BY <1>1, <2>1, <2>3 DEF Reported
  <2>4. CASE m \in devices \cap DOMAIN prevConnected
    <3>1. /\ prevConnected = [n \in DOMAIN snapshot.devices |->
                                snapshot.devices[n].connected]
          /\ told[m] = Reported(m)
      BY DEF Publish, FollowerInv, FollowerInSync
    <3>2. told'[m] = BeliefOf(prevConnected[m])
      BY <2>1, <2>4, <3>1 DEF Reported
    <3>3. Reported(m)' = BeliefOf(m \in present)
      BY <1>1, <2>4 DEF Reported
    <3>4. m \in toNotify' <=> prevConnected[m] # (m \in present)
      BY <1>1, <2>4 DEF Transitions
    <3>5. QED
      BY <3>2, <3>3, <3>4
  <2>5. QED
    BY <2>2, <2>3, <2>4
<1>3. toNotify' \subseteq devices
  BY <1>1 DEF Transitions
<1>4. QED
  BY <1>1, <1>2, <1>3 DEF FollowerInv, FollowerInSync

LEMMA FollowerRefresh ==
  ASSUME TypeOK, FollowerInv, Refresh
  PROVE  FollowerInv'
<1> USE DEF FollowerInv, FollowerInSync, Reported, storeVars
<1>1. CASE BeginRefresh
  BY <1>1 DEF BeginRefresh
<1>2. CASE FetchDevices
  BY <1>2 DEF FetchDevices
<1>3. CASE DevicesUnavailable
  BY <1>3 DEF DevicesUnavailable, ResetLocals
<1>4. CASE InterfacesAvailable \/ InterfacesUnavailable
  BY <1>4 DEF InterfacesAvailable, InterfacesUnavailable, FetchInterfaces
<1>5. CASE FetchTopology
  BY <1>5 DEF FetchTopology
<1>6. CASE TopologyUnavailable
  BY <1>6 DEF TopologyUnavailable
<1>7. ASSUME NEW ap \in AP, FetchStations(ap) \/ StationsUnavailable(ap)
      PROVE  FollowerInv'
  BY <1>7 DEF FetchStations, StationsUnavailable, AskStations
<1>8. CASE FetchArp \/ ArpUnavailable
  BY <1>8 DEF FetchArp, ArpUnavailable, AskArp
<1>9. CASE CopyUnderLock
  BY <1>9 DEF CopyUnderLock
<1>10. CASE Publish
  BY <1>10, FollowerPublish
<1>11. ASSUME NEW m \in MAC, Broadcast(m) PROVE FollowerInv'
  <2>1. /\ told' = [told EXCEPT ![m] = BeliefOf(m \in present)]
        /\ toNotify' = toNotify \ {m} /\ m \in toNotify /\ pc = "notify"
        /\ UNCHANGED <<pc, snapshot, devices, present, prevConnected>>
    BY <1>11 DEF Broadcast
  <2>2. Reported(m) = BeliefOf(m \in present)
    BY <2>1
  <2>3. told \in [MAC -> Belief]
    BY DEF TypeOK
  <2>4. \A n \in MAC : told'[n] = Reported(n)' \/ n \in toNotify'
    BY <2>1, <2>2, <2>3
  <2>5. QED
    BY <2>1, <2>4
<1>12. CASE EndRefresh
  BY <1>12 DEF EndRefresh, ResetLocals
<1>13. QED
  BY <1>1, <1>2, <1>3, <1>4, <1>5, <1>6, <1>7, <1>8, <1>9, <1>10, <1>11, <1>12
  DEF Refresh

LEMMA FollowerStep == TypeOK /\ FollowerInv /\ [Next]_vars => FollowerInv'
<1> SUFFICES ASSUME TypeOK, FollowerInv, [Next]_vars PROVE FollowerInv'
  OBVIOUS
<1> USE DEF FollowerInv, FollowerInSync, Reported, storeVars, localVars
<1>1. CASE UNCHANGED vars
  BY <1>1 DEF vars
<1>2. CASE World
  BY <1>2 DEF World, Tick, Register, Station, Learn
<1>3. CASE Bus
  BY <1>3 DEF Bus, MarkSeen, BusEvent
<1>4. CASE Restart
  BY <1>4 DEF Restart, ResetLocals, EmptySnapshot
<1>5. QED
  BY <1>1, <1>2, <1>3, <1>4, FollowerRefresh DEF Next

\* Whatever reads fail and whatever the bus writes meanwhile, the events sent are
\* exactly the difference between consecutive snapshots.
THEOREM FollowerAgrees == Spec => []FollowerInSync
<1>1. FollowerInv => FollowerInSync
  BY DEF FollowerInv
<1>2. QED
  BY <1>1, TypeCorrect, FollowerInit, FollowerStep, PTL DEF Spec
-----------------------------------------------------------------------------
(* Convergence. While it is calm, what a refresh has read is what SPR holds, from *)
(* its first read on (Fresh); a refresh that was under way when calm set in may    *)
(* publish something else once, and the next one does not.                       *)

Fresh ==
  /\ pc \in {"idle", "devices", "interfaces", "topology"} => present = {}
  /\ pc \in {"interfaces", "topology", "stations", "copy", "publish"}
       => devices = registered
  /\ pc = "topology" => toAsk = AP
  /\ pc = "stations" => present = {m \in MAC : stationed[m] \in AP \ toAsk}
  /\ pc \in {"copy", "publish"} => present = InTables

\* The two loops of a refresh.
Looping == \/ pc = "stations" /\ toAsk # {}
           \/ pc = "notify" /\ toNotify # {}

\* What Fairness says of refreshState, which is enabled in every phase, and what follows
\* where access points and devices are finitely many: its loops end.
RefreshRuns == []<><<Refresh>>_vars /\ []<>~Looping

CalmStep == TypeOK /\ [Next]_vars /\ [Calm]_vars

LEMMA TablesRest == CalmStep => UNCHANGED <<sprVars, InTables>>
BY DEF CalmStep, Calm, vars, sprVars, InTables, OnWifi

\* What else a step may be.
LEMMA CalmKinds ==
  ASSUME CalmStep, ~UNCHANGED <<localVars, snapshot>>
  PROVE  \/ BeginRefresh \/ FetchDevices \/ InterfacesAvailable \/ FetchTopology
         \/ TopologyUnavailable \/ (\E ap \in AP : FetchStations(ap)) \/ FetchArp
         \/ CopyUnderLock \/ Publish \/ (\E m \in MAC : Broadcast(m)) \/ EndRefresh
<1>1. ~UNCHANGED vars BY DEF vars, storeVars
<1>2. Next /\ Calm BY <1>1 DEF CalmStep
<1>3. ~World BY DEF World, Tick, Register, Station, Learn, storeVars
<1>4. ~Bus BY DEF Bus, MarkSeen, BusEvent, storeVars
<1>5. Refresh BY <1>2, <1>3, <1>4 DEF Next, Calm
<1> QED BY <1>2, <1>5 DEF Refresh, Calm, ReadFails

LEMMA FreshStays == CalmStep /\ Fresh => Fresh'
<1> SUFFICES ASSUME CalmStep, Fresh PROVE Fresh'
  OBVIOUS
<1>1. UNCHANGED <<registered, stationed, learned, InTables>>
  BY TablesRest DEF sprVars
<1> USE <1>1 DEF Fresh
<1>2. CASE UNCHANGED <<localVars, snapshot>> BY <1>2 DEF localVars
<1>3. CASE BeginRefresh BY <1>3 DEF BeginRefresh
<1>4. CASE FetchDevices BY <1>4 DEF FetchDevices, Decoded
<1>5. CASE InterfacesAvailable BY <1>5 DEF InterfacesAvailable, FetchInterfaces
<1>6. CASE FetchTopology BY <1>6 DEF FetchTopology
<1>7. CASE TopologyUnavailable
  BY <1>7 DEF TopologyUnavailable
<1>8. ASSUME NEW ap \in AP, FetchStations(ap) PROVE Fresh'
  BY <1>8 DEF FetchStations, AskStations
<1>9. CASE FetchArp
  <2>1. OnWifi = {m \in MAC : stationed[m] \in AP}
    BY NamesAssumption DEF OnWifi, CalmStep, TypeOK
  <2> QED BY <1>9, <2>1 DEF FetchArp, AskArp, InTables
<1>10. CASE CopyUnderLock BY <1>10 DEF CopyUnderLock
<1>11. CASE Publish BY <1>11 DEF Publish
<1>12. ASSUME NEW m \in MAC, Broadcast(m) PROVE Fresh'
  BY <1>12 DEF Broadcast
<1>13. CASE EndRefresh BY <1>13 DEF EndRefresh, ResetLocals
<1> QED BY <1>2, <1>3, <1>4, <1>5, <1>6, <1>7, <1>8, <1>9, <1>10, <1>11, <1>12, <1>13,
           CalmKinds

LEMMA SyncReached == CalmStep /\ Fresh /\ Publish => InSync'
<1> SUFFICES ASSUME CalmStep, Fresh, Publish PROVE InSync'
  OBVIOUS
<1>1. devices = registered /\ present = InTables BY DEF Fresh, Publish
<1>2. /\ DOMAIN snapshot'.devices = devices
      /\ \A m \in devices : snapshot'.devices[m].connected = (m \in present)
  BY DEF Publish
<1> QED BY <1>1, <1>2, TablesRest DEF InSync, sprVars

LEMMA SyncStays == CalmStep /\ Fresh /\ InSync => InSync'
<1> SUFFICES ASSUME CalmStep, Fresh, InSync, ~Publish PROVE InSync'
  BY SyncReached
<1>1. UNCHANGED snapshot
  BY CalmKinds DEF BeginRefresh, FetchDevices, InterfacesAvailable, FetchInterfaces,
    FetchTopology, TopologyUnavailable, FetchStations, AskStations, FetchArp, AskArp,
    CopyUnderLock, Broadcast, EndRefresh, storeVars
<1> QED BY <1>1, TablesRest DEF InSync, sprVars

At(p) == pc = p

\* A phase is left by a step of the goroutine, for the next phase; one with a loop, once
\* that is done.
LEMMA PhasesFollow ==
  /\ CalmStep /\ ~<<Refresh>>_vars =>
       /\ At("idle") => At("idle")'
       /\ At("devices") => At("devices")'
       /\ At("interfaces") => At("interfaces")'
       /\ At("topology") => At("topology")'
       /\ At("stations") => At("stations")'
       /\ At("copy") => At("copy")'
       /\ At("publish") => At("publish")'
       /\ At("notify") => At("notify")'
       /\ ~Looping => ~Looping'
  /\ CalmStep /\ <<Refresh>>_vars =>
       /\ At("idle") => At("devices")'
       /\ At("devices") => At("interfaces")'
       /\ At("interfaces") => At("topology")'
       /\ At("topology") => At("stations")' \/ At("copy")'
       /\ At("stations") => At("stations")' \/ At("copy")'
       /\ At("stations") /\ ~Looping => At("copy")'
       /\ At("copy") => At("publish")'
       /\ At("publish") => At("notify")' /\ <<Publish>>_vars
       /\ At("notify") => At("notify")' \/ At("idle")'
       /\ At("notify") /\ ~Looping => At("idle")'
<1> USE DEF At, Looping
<1>1. ASSUME CalmStep, ~<<Refresh>>_vars
      PROVE  UNCHANGED <<pc, toAsk, toNotify>>
  <2>1. UNCHANGED vars \/ World \/ Bus BY <1>1 DEF CalmStep, Next, Calm
  <2>2. UNCHANGED localVars
    BY <2>1 DEF vars, World, Tick, Register, Station, Learn, Bus, MarkSeen, BusEvent
  <2> QED BY <2>2 DEF localVars
<1>2. ASSUME CalmStep, Refresh
      PROVE  \/ BeginRefresh \/ FetchDevices \/ InterfacesAvailable \/ FetchTopology
             \/ TopologyUnavailable \/ (\E ap \in AP : FetchStations(ap)) \/ FetchArp
             \/ CopyUnderLock \/ Publish \/ (\E m \in MAC : Broadcast(m)) \/ EndRefresh
             \/ UNCHANGED vars
  BY <1>2 DEF CalmStep, Refresh, Calm, ReadFails
<1>3. ASSUME CalmStep, <<Refresh>>_vars
      PROVE  /\ At("idle") => At("devices")'
             /\ At("devices") => At("interfaces")'
             /\ At("interfaces") => At("topology")'
             /\ At("topology") => At("stations")' \/ At("copy")'
             /\ At("stations") => At("stations")' \/ At("copy")'
             /\ At("stations") /\ ~Looping => At("copy")'
             /\ At("copy") => At("publish")'
             /\ At("publish") => At("notify")' /\ <<Publish>>_vars
             /\ At("notify") => At("notify")' \/ At("idle")'
             /\ At("notify") /\ ~Looping => At("idle")'
  BY <1>2, <1>3
  DEF BeginRefresh, FetchDevices, InterfacesAvailable, FetchInterfaces, FetchTopology,
      TopologyUnavailable, FetchStations, AskStations, FetchArp, AskArp, CopyUnderLock,
      Publish, Broadcast, EndRefresh
<1> QED BY <1>1, <1>3

LEMMA Phase ==
  TypeOK => \/ At("idle") \/ At("devices") \/ At("interfaces") \/ At("topology")
            \/ At("stations") \/ At("copy") \/ At("publish") \/ At("notify")
BY DEF TypeOK, Phases, At

\* While it is calm, refreshes publish again and again.
LEMMA PublishesRun ==
  RefreshRuns /\ []TypeOK /\ [][Next]_vars /\ [][Calm]_vars => []<><<Publish>>_vars
<1>1. TypeOK /\ [Next]_vars /\ [Calm]_vars => CalmStep BY DEF CalmStep
<1> QED BY <1>1, PhasesFollow, Phase, PTL DEF RefreshRuns

\* The snapshot comes to agree with SPR and stays so, for any devices, access points and
\* subscriptions, and from wherever the refresh is when it becomes calm (refreshState).
THEOREM SnapshotDoesConverge == Spec /\ RefreshRuns => SnapshotConverges
<1>1. TypeOK /\ [Next]_vars /\ [Calm]_vars => CalmStep BY DEF CalmStep
<1>2. <<Publish>>_vars => Fresh' BY DEF Publish, Fresh
<1>3. CalmStep /\ Fresh /\ <<Publish>>_vars => InSync' BY SyncReached
<1>4. RefreshRuns /\ []TypeOK /\ [][Next]_vars /\ [][Calm]_vars => <>[]InSync
  BY <1>1, <1>2, <1>3, PublishesRun, FreshStays, SyncStays, PTL
<1>5. RefreshRuns => []RefreshRuns BY PTL DEF RefreshRuns
<1> QED BY <1>1, <1>4, <1>5, TypeCorrect, PTL DEF Spec, SnapshotConverges
=============================================================================
