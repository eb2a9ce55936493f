----------------------------- MODULE WanTraffic -----------------------------
(***************************************************************************)
(* The WAN accounting that each refreshState does beside presence            *)
(* (refresh.go): two reads of nft counters, their totals, and a rate from    *)
(* the difference with the previous refresh. One direction per element of    *)
(* Directions; the code spells both out. Counters are unsigned words of      *)
(* Modulus values (2^64 in the code), so they wrap, and SPR clears them when *)
(* its firewall is rebuilt.                                                  *)
(***************************************************************************)
EXTENDS Naturals

CONSTANTS
  Directions,  \* {"rx", "tx"}: incoming_traffic_wan and outgoing_traffic_wan
  Modulus,     \* number of values of a counter word
  MaxTime,     \* bound on the clock of the run
  MaxCarried   \* bound on the bytes carried between two reads

ASSUME WordsAssumption == Modulus \in Nat \ {0} /\ MaxCarried \in Nat
ASSUME TimeAssumption == MaxTime \in Nat \ {0}

VARIABLES
  clock,     \* monotonic clock
  counter,   \* SPR: bytes counted, per direction
  pc,        \* where refreshState is
  now,       \* local: clock at its entry
  unread,    \* local: directions whose counter is still to be read
  total,     \* local: totals read; a read that fails counts nothing
  prev,      \* gState.prevWANRx, prevWANTx
  prevAt,    \* gState.prevTrafficAt, 0 for the zero time
  traffic,   \* snapshot.Traffic: totals, and the difference and the seconds
             \*   that make up each rate, 0 bytes when none was computed
  carried,   \* history: bytes really carried since the last read, per direction
  between,   \* history: those carried between the last two reads
  readOK,    \* history: directions whose last read gave the counter
  prevOK,    \* history: prev holds counters, not the totals of failed reads
  measured   \* history: the bytes that the published rates should be made of,
             \*   and whether every read on either side gave the counter

sprVars == <<counter, carried>>
storeVars == <<prev, prevAt, traffic, prevOK, measured>>
localVars == <<pc, now, unread, total, between, readOK>>
vars == <<clock, sprVars, storeVars, localVars>>

Word == 0..(Modulus - 1)
Amount == 0..MaxCarried
Zero == [d \in Directions |-> 0]

\* Faulty variant, used to show that TypeOK can fail: the operands swapped, and
\* no words to wrap around in.
DifferenceSwapped(a, b) == b - a
\* The unsigned subtraction of the code.
Difference(a, b) == (a + Modulus - b) % Modulus

TypeOK ==
  /\ clock \in 1..MaxTime
  /\ counter \in [Directions -> Word]
  /\ pc \in {"idle", "read", "publish"}
  /\ now \in 0..MaxTime
  /\ unread \in SUBSET Directions
  /\ total \in [Directions -> Word]
  /\ prev \in [Directions -> Word]
  /\ prevAt \in 0..MaxTime
  /\ traffic \in [bytes : [Directions -> Word], delta : [Directions -> Word],
                  dt : 0..MaxTime]
  /\ carried \in [Directions -> Amount]
  /\ between \in [Directions -> Amount]
  /\ readOK \in SUBSET Directions
  /\ prevOK \in BOOLEAN
  /\ measured \in [carried : [Directions -> Amount], ok : BOOLEAN]

Init ==
  /\ clock = 1
  /\ counter \in [Directions -> Word]
  /\ pc = "idle" /\ now = 0 /\ unread = {} /\ total = Zero
  /\ prev = Zero /\ prevAt = 0
  /\ traffic = [bytes |-> Zero, delta |-> Zero, dt |-> 0]
  /\ carried = Zero /\ between = Zero
  /\ readOK = {} /\ prevOK = FALSE
  /\ measured = [carried |-> Zero, ok |-> FALSE]

-----------------------------------------------------------------------------
(* SPR *)

Carry(d) ==
  /\ carried[d] < MaxCarried
  /\ counter' = [counter EXCEPT ![d] = (@ + 1) % Modulus]
  /\ carried' = [carried EXCEPT ![d] = @ + 1]
  /\ UNCHANGED <<clock, storeVars, localVars>>

\* The firewall is rebuilt and its counters start again.
ClearCounters ==
  /\ counter' = Zero
  /\ UNCHANGED <<clock, carried, storeVars, localVars>>

Tick ==
  /\ clock < MaxTime
  /\ clock' = clock + 1
  /\ UNCHANGED <<sprVars, storeVars, localVars>>

-----------------------------------------------------------------------------
(* refreshState *)

BeginRefresh ==
  /\ pc = "idle"
  /\ now' = clock
  /\ unread' = Directions
  /\ pc' = "read"
  /\ UNCHANGED <<clock, sprVars, storeVars, total, between, readOK>>

Read(d, bytes, ok) ==
  /\ pc = "read" /\ d \in unread
  /\ unread' = unread \ {d}
  /\ total' = [total EXCEPT ![d] = bytes]
  /\ readOK' = IF ok THEN readOK \union {d} ELSE readOK
  /\ between' = [between EXCEPT ![d] = carried[d]]
  /\ carried' = [carried EXCEPT ![d] = 0]
  /\ UNCHANGED <<clock, counter, storeVars, pc, now>>

\* GET /traffic/<set>, whose elements are summed into the total; when the request
\* fails fetchTrafficSet returns no elements.
ReadCounter(d) == Read(d, counter[d], TRUE)
ReadFails(d) == Read(d, 0, FALSE)

\* Faulty variant of Rated: counters that went back are not noticed.
RatedWhateverTheTotals == prevAt # 0 /\ now > prevAt

\* Whether the critical section computes rates.
Rated ==
  /\ prevAt # 0
  /\ now > prevAt
  /\ \A d \in Directions : total[d] >= prev[d]

\* The traffic part of the critical section that publishes the snapshot. A rate
\* is delta * 8 / dt bits per second.
Publish ==
  /\ pc = "publish"
  /\ traffic' = [bytes |-> total,
                 delta |-> IF Rated
                             THEN [d \in Directions |-> Difference(total[d], prev[d])]
                             ELSE Zero,
                 dt |-> IF Rated THEN now - prevAt ELSE 0]
  /\ measured' = [carried |-> between, ok |-> prevOK /\ readOK = Directions]
  /\ prevOK' = (readOK = Directions)
  /\ prev' = total
  /\ prevAt' = now
  /\ pc' = "idle"
  /\ now' = 0 /\ total' = Zero /\ between' = Zero /\ readOK' = {}
  /\ UNCHANGED <<clock, sprVars, unread>>

EndReads ==
  /\ pc = "read" /\ unread = {}
  /\ pc' = "publish"
  /\ UNCHANGED <<clock, sprVars, storeVars, now, unread, total, between, readOK>>

\* The plugin is restarted: SPR's counters live on, gState does not.
Restart ==
  /\ pc' = "idle" /\ now' = 0 /\ unread' = {} /\ total' = Zero
  /\ between' = Zero /\ readOK' = {}
  /\ prev' = Zero /\ prevAt' = 0 /\ prevOK' = FALSE
  /\ traffic' = [bytes |-> Zero, delta |-> Zero, dt |-> 0]
  /\ measured' = [carried |-> Zero, ok |-> FALSE]
  /\ UNCHANGED <<clock, sprVars>>

Next ==
  \/ \E d \in Directions : Carry(d) \/ ReadCounter(d) \/ ReadFails(d)
  \/ ClearCounters \/ Tick
  \/ BeginRefresh \/ EndReads \/ Publish
  \/ Restart

Spec == Init /\ [][Next]_vars

-----------------------------------------------------------------------------
(* Properties *)

OnlyTraffic == \A d \in Directions : traffic.delta[d] <= measured.carried[d]

\* A published rate never counts a byte the WAN did not carry between the reads
\* it is computed from, even if the counters were cleared or wrapped meanwhile,
\* provided those reads were answered.
RatesAreTraffic == measured.ok => OnlyTraffic

\* "bits/sec, from the last poll delta" (state.go): no rate counts a byte that
\* was not carried since the previous poll, whichever reads failed.
RatesComeFromTheLastPoll == OnlyTraffic
=============================================================================
