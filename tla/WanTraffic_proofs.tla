------------------------- MODULE WanTraffic_proofs -------------------------
(***************************************************************************)
(* Proofs about WanTraffic for any width of the counters.                   *)
(***************************************************************************)
EXTENDS WanTraffic, TLAPS

USE WordsAssumption, TimeAssumption

-----------------------------------------------------------------------------
(* Type correctness *)

LEMMA ZeroTyped == Zero \in [Directions -> Word] /\ Zero \in [Directions -> Amount]
  BY DEF Zero, Word, Amount

LEMMA DifferenceIsWord ==
  ASSUME NEW a \in Word, NEW b \in Word
  PROVE  /\ Difference(a, b) \in Word
         /\ a >= b => Difference(a, b) = a - b
  BY DEF Difference, Word

LEMMA TypeInit == Init => TypeOK
<1> SUFFICES ASSUME Init PROVE TypeOK
  OBVIOUS
<1>1. clock \in 1..MaxTime /\ 0 \in 0..MaxTime
  BY DEF Init
<1>2. QED
  BY <1>1, ZeroTyped DEF Init, TypeOK

LEMMA TypeRead ==
  ASSUME TypeOK, NEW d \in Directions, ReadCounter(d) \/ ReadFails(d)
  PROVE  TypeOK'
<1>1. 0 \in Word /\ 0 \in Amount /\ counter[d] \in Word
  BY DEF TypeOK, Word, Amount
<1>2. PICK bytes \in Word, ok \in BOOLEAN : Read(d, bytes, ok)
  BY <1>1 DEF ReadCounter, ReadFails
<1>3. /\ total' \in [Directions -> Word]
      /\ between' \in [Directions -> Amount]
      /\ carried' \in [Directions -> Amount]
  BY <1>1, <1>2 DEF Read, TypeOK
<1>4. readOK' \in SUBSET Directions /\ unread' \in SUBSET Directions
  BY <1>2 DEF Read, TypeOK
<1>5. QED
  BY <1>2, <1>3, <1>4 DEF Read, TypeOK, storeVars

LEMMA TypePublish ==
  ASSUME TypeOK, Publish
  PROVE  TypeOK'
<1>1. \A d \in Directions : Difference(total[d], prev[d]) \in Word
  BY DifferenceIsWord DEF TypeOK
<1>2. (IF Rated THEN now - prevAt ELSE 0) \in 0..MaxTime
  BY DEF Rated, TypeOK
<1>3. traffic' \in [bytes : [Directions -> Word], delta : [Directions -> Word],
                    dt : 0..MaxTime]
  BY <1>1, <1>2, ZeroTyped DEF Publish, TypeOK
<1>4. measured' \in [carried : [Directions -> Amount], ok : BOOLEAN]
  <2>1. (prevOK /\ readOK = Directions) \in BOOLEAN
    OBVIOUS
  <2>2. QED
    BY <2>1 DEF Publish, TypeOK
<1>5. prevOK' \in BOOLEAN
  BY DEF Publish
<1>6. now' \in 0..MaxTime /\ pc' \in {"idle", "read", "publish"}
  BY DEF Publish
<1>7. QED
  BY <1>3, <1>4, <1>5, <1>6, ZeroTyped DEF Publish, TypeOK, sprVars

LEMMA TypeStep == TypeOK /\ [Next]_vars => TypeOK'
<1> SUFFICES ASSUME TypeOK, [Next]_vars PROVE TypeOK'
  OBVIOUS
<1> USE DEF sprVars, storeVars, localVars
<1>1. ASSUME NEW d \in Directions, Carry(d) PROVE TypeOK'
  <2>1. (counter[d] + 1) % Modulus \in Word /\ carried[d] + 1 \in Amount
    BY <1>1 DEF Carry, TypeOK, Word, Amount
  <2>2. QED
    BY <1>1, <2>1 DEF Carry, TypeOK
<1>2. ASSUME NEW d \in Directions, ReadCounter(d) \/ ReadFails(d) PROVE TypeOK'
  BY <1>2, TypeRead
<1>3. CASE ClearCounters
  BY <1>3, ZeroTyped DEF ClearCounters, TypeOK
<1>4. CASE Tick
  BY <1>4 DEF Tick, TypeOK
<1>5. CASE BeginRefresh
  BY <1>5 DEF BeginRefresh, TypeOK
<1>6. CASE EndReads
  BY <1>6 DEF EndReads, TypeOK
<1>7. CASE Publish
  BY <1>7, TypePublish
<1>8. CASE Restart
  <2>1. 0 \in 0..MaxTime
    OBVIOUS
  <2>2. QED
    BY <1>8, <2>1, ZeroTyped, Zenon DEF Restart, TypeOK
<1>9. CASE UNCHANGED vars
  BY <1>9 DEF vars, TypeOK
<1>10. QED
  BY <1>1, <1>2, <1>3, <1>4, <1>5, <1>6, <1>7, <1>8, <1>9 DEF Next

\* Totals, kept totals and differences are words of the counters' width.
THEOREM TypeCorrect == Spec => []TypeOK
  BY TypeInit, TypeStep, PTL DEF Spec

-----------------------------------------------------------------------------
(* Rates are made of traffic *)

\* The strengthening: a counter is never ahead of its last answered read by more
\* than what was carried since (wrapping and clearing only put it behind), and
\* what this refresh read is likewise not ahead of what the previous one kept.
RateInv ==
  /\ pc = "idle" => unread = {} /\ readOK = {}
  /\ pc = "publish" => unread = {}
  /\ readOK \cap unread = {}
  /\ prevOK => \A d \in Directions :
       IF pc = "idle" \/ d \in unread
         THEN counter[d] <= prev[d] + carried[d]
         ELSE d \in readOK => total[d] <= prev[d] + between[d]
  /\ \A d \in readOK : counter[d] <= total[d] + carried[d]
  /\ RatesAreTraffic

LEMMA RateInit == Init => RateInv
  BY DEF Init, RateInv, RatesAreTraffic

LEMMA NumbersTyped ==
  ASSUME TypeOK
  PROVE  \A d \in Directions :
           /\ counter[d] \in Nat /\ counter[d] < Modulus
           /\ total[d] \in Word /\ total[d] \in Nat
           /\ prev[d] \in Word /\ prev[d] \in Nat
           /\ carried[d] \in Nat /\ between[d] \in Nat
  BY DEF TypeOK, Word, Amount

LEMMA RateCarry ==
  ASSUME TypeOK, RateInv, NEW d \in Directions, Carry(d)
  PROVE  RateInv'
<1>1. /\ counter' = [counter EXCEPT ![d] = (counter[d] + 1) % Modulus]
      /\ carried' = [carried EXCEPT ![d] = carried[d] + 1]
      /\ counter \in [Directions -> Word] /\ carried \in [Directions -> Amount]
      /\ UNCHANGED <<storeVars, localVars>>
  BY DEF Carry, TypeOK
<1>2. counter'[d] <= counter[d] + 1 /\ carried'[d] = carried[d] + 1
  BY <1>1, NumbersTyped DEF Word, Amount
<1>3. ASSUME NEW e \in Directions, NEW n \in Nat, counter[e] <= n + carried[e]
      PROVE  counter'[e] <= n + carried'[e]
  <2>1. CASE e = d
    BY <1>1, <1>2, <1>3, <2>1, NumbersTyped
  <2>2. CASE e # d
    BY <1>1, <1>3, <2>2
  <2>3. QED
    BY <2>1, <2>2
<1>4. ASSUME NEW e \in Directions, prevOK
      PROVE  IF pc = "idle" \/ e \in unread
               THEN counter'[e] <= prev[e] + carried'[e]
               ELSE e \in readOK => total[e] <= prev[e] + between[e]
  BY <1>3, <1>4, NumbersTyped DEF RateInv
<1>5. ASSUME NEW e \in readOK PROVE counter'[e] <= total[e] + carried'[e]
  BY <1>3, NumbersTyped DEF RateInv, TypeOK
<1>6. QED
  BY <1>1, <1>4, <1>5
  DEF RateInv, RatesAreTraffic, OnlyTraffic, storeVars, localVars

LEMMA RateClear ==
  ASSUME TypeOK, RateInv, ClearCounters
  PROVE  RateInv'
<1>1. \A d \in Directions : counter'[d] = 0
  BY DEF ClearCounters, Zero
<1>2. UNCHANGED <<carried, storeVars, localVars>>
  BY DEF ClearCounters
<1>3. \A d \in Directions : /\ counter'[d] <= prev[d] + carried[d]
                           /\ counter'[d] <= total[d] + carried[d]
  BY <1>1, NumbersTyped
<1>4. readOK \subseteq Directions
  BY DEF TypeOK
<1>5. QED
  BY <1>2, <1>3, <1>4
  DEF RateInv, RatesAreTraffic, OnlyTraffic, storeVars, localVars

LEMMA RateRead ==
  ASSUME TypeOK, RateInv, NEW d \in Directions,
         NEW bytes, NEW ok \in BOOLEAN, ok => bytes = counter[d],
         Read(d, bytes, ok)
  PROVE  RateInv'
<1>1. /\ pc = "read" /\ pc' = "read" /\ d \in unread
      /\ unread' = unread \ {d}
      /\ total' = [total EXCEPT ![d] = bytes]
      /\ readOK' = IF ok THEN readOK \union {d} ELSE readOK
      /\ between' = [between EXCEPT ![d] = carried[d]]
      /\ carried' = [carried EXCEPT ![d] = 0]
      /\ UNCHANGED <<counter, prev, prevOK, traffic, measured>>
  BY DEF Read, storeVars
<1>2. /\ total \in [Directions -> Word] /\ between \in [Directions -> Amount]
      /\ carried \in [Directions -> Amount] /\ readOK \subseteq Directions
  BY DEF TypeOK
<1>3. d \notin readOK
  BY <1>1 DEF RateInv
<1>4. ASSUME NEW e \in Directions, prevOK
      PROVE  IF e \in unread' THEN counter[e] <= prev[e] + carried'[e]
             ELSE e \in readOK' => total'[e] <= prev[e] + between'[e]
  <2>1. CASE e = d
    <3>1. counter[d] <= prev[d] + carried[d]
      BY <1>1, <1>4 DEF RateInv
    <3>2. e \notin unread' /\ between'[e] = carried[d]
      BY <1>1, <1>2, <2>1
    <3>3. e \in readOK' => total'[e] = counter[d]
      BY <1>1, <1>2, <1>3, <2>1
    <3>4. QED
      BY <2>1, <3>1, <3>2, <3>3
  <2>2. CASE e # d
    <3>1. /\ e \in unread' <=> e \in unread
          /\ e \in readOK' <=> e \in readOK
          /\ total'[e] = total[e] /\ between'[e] = between[e]
          /\ carried'[e] = carried[e]
      BY <1>1, <1>2, <2>2
    <3>2. QED
      BY <1>1, <1>4, <3>1 DEF RateInv
  <2>3. QED
    BY <2>1, <2>2
<1>5. ASSUME NEW e \in readOK'
      PROVE  counter[e] <= total'[e] + carried'[e]
  <2>1. CASE e = d
    <3>1. total'[e] = counter[d] /\ carried'[e] = 0
      BY <1>1, <1>2, <1>3, <1>5, <2>1
    <3>2. QED
      BY <2>1, <3>1, NumbersTyped
  <2>2. CASE e # d
    <3>1. e \in readOK /\ total'[e] = total[e] /\ carried'[e] = carried[e]
      BY <1>1, <1>2, <1>5, <2>2
    <3>2. QED
      BY <3>1 DEF RateInv
  <2>3. QED
    BY <2>1, <2>2
<1>6. readOK' \cap unread' = {}
  BY <1>1 DEF RateInv
<1>7. QED
  BY <1>1, <1>4, <1>5, <1>6 DEF RateInv, RatesAreTraffic, OnlyTraffic

LEMMA RatePublish ==
  ASSUME TypeOK, RateInv, Publish
  PROVE  RateInv'
<1>1. /\ pc = "publish" /\ pc' = "idle" /\ unread' = {} /\ readOK' = {}
      /\ unread = {} /\ prev' = total /\ prevOK' = (readOK = Directions)
      /\ UNCHANGED <<counter, carried>>
  BY DEF Publish, RateInv, sprVars
<1>2. prevOK' => \A d \in Directions : counter[d] <= total[d] + carried[d]
  BY <1>1 DEF RateInv
<1>3. ASSUME measured'.ok, NEW d \in Directions
      PROVE  traffic'.delta[d] <= measured'.carried[d]
  <2>1. /\ prevOK /\ readOK = Directions /\ measured'.carried[d] = between[d]
        /\ traffic'.delta[d] = IF Rated THEN Difference(total[d], prev[d]) ELSE 0
    BY <1>3 DEF Publish, Zero
  <2>2. total[d] <= prev[d] + between[d]
    BY <1>1, <2>1 DEF RateInv
  <2>3. CASE Rated
    <3>1. total[d] >= prev[d]
      BY <2>3 DEF Rated
    <3>2. Difference(total[d], prev[d]) = total[d] - prev[d]
      BY <3>1, NumbersTyped, DifferenceIsWord
    <3>3. QED
      BY <2>1, <2>2, <2>3, <3>2, NumbersTyped
  <2>4. CASE ~Rated
    BY <2>1, <2>4, NumbersTyped
  <2>5. QED
    BY <2>3, <2>4
<1>4. QED
  BY <1>1, <1>2, <1>3 DEF RateInv, RatesAreTraffic, OnlyTraffic

LEMMA RateStep == TypeOK /\ RateInv /\ [Next]_vars => RateInv'
<1> SUFFICES ASSUME TypeOK, RateInv, [Next]_vars PROVE RateInv'
  OBVIOUS
<1>1. ASSUME NEW d \in Directions, Carry(d) PROVE RateInv'
  BY <1>1, RateCarry
<1>2. ASSUME NEW d \in Directions, ReadCounter(d) PROVE RateInv'
  BY <1>2, RateRead DEF ReadCounter
<1>3. ASSUME NEW d \in Directions, ReadFails(d) PROVE RateInv'
  BY <1>3, RateRead DEF ReadFails
<1>4. CASE ClearCounters
  BY <1>4, RateClear
<1>5. CASE Tick
  BY <1>5 DEF Tick, RateInv, RatesAreTraffic, OnlyTraffic, sprVars, storeVars,
              localVars
<1>6. CASE BeginRefresh
  BY <1>6 DEF BeginRefresh, RateInv, RatesAreTraffic, OnlyTraffic, sprVars,
              storeVars
<1>7. CASE EndReads
  BY <1>7 DEF EndReads, RateInv, RatesAreTraffic, OnlyTraffic, sprVars,
              storeVars
<1>8. CASE Publish
  BY <1>8, RatePublish
<1>9. CASE Restart
  BY <1>9 DEF Restart, RateInv, RatesAreTraffic
<1>10. CASE UNCHANGED vars
  BY <1>10 DEF vars, RateInv, RatesAreTraffic, OnlyTraffic, sprVars, storeVars,
               localVars
<1>11. QED
  BY <1>1, <1>2, <1>3, <1>4, <1>5, <1>6, <1>7, <1>8, <1>9, <1>10 DEF Next

\* For any counter width: whatever is cleared, wraps or fails, a rate whose reads
\* were all answered counts no byte that was not carried.
THEOREM RatesSound == Spec => []RatesAreTraffic
<1>1. RateInv => RatesAreTraffic
  BY DEF RateInv
<1>2. QED
  BY <1>1, TypeCorrect, RateInit, RateStep, PTL DEF Spec

-----------------------------------------------------------------------------
(* What it takes for a rate to be wrong *)

\* A total that was not read counts nothing.
UnreadInv == \A d \in Directions : d \notin readOK => total[d] = 0

LEMMA UnreadInit == Init => UnreadInv
  BY DEF Init, UnreadInv, Zero

LEMMA UnreadRead ==
  ASSUME TypeOK, UnreadInv, NEW d \in Directions, NEW bytes, NEW ok \in BOOLEAN,
         ~ok => bytes = 0, Read(d, bytes, ok)
  PROVE  UnreadInv'
<1>1. /\ total' = [total EXCEPT ![d] = bytes]
      /\ readOK' = IF ok THEN readOK \union {d} ELSE readOK
      /\ total \in [Directions -> Word]
  BY DEF Read, TypeOK
<1>2. ASSUME NEW e \in Directions, e \notin readOK' PROVE total'[e] = 0
  <2>1. CASE e = d
    BY <1>1, <1>2, <2>1
  <2>2. CASE e # d
    BY <1>1, <1>2, <2>2 DEF UnreadInv
  <2>3. QED
    BY <2>1, <2>2
<1>3. QED
  BY <1>2 DEF UnreadInv

LEMMA UnreadStep == TypeOK /\ UnreadInv /\ [Next]_vars => UnreadInv'
<1> SUFFICES ASSUME TypeOK, UnreadInv, [Next]_vars PROVE UnreadInv'
  OBVIOUS
<1>1. ASSUME NEW d \in Directions, ReadCounter(d) PROVE UnreadInv'
  BY <1>1, UnreadRead DEF ReadCounter
<1>2. ASSUME NEW d \in Directions, ReadFails(d) PROVE UnreadInv'
  BY <1>2, UnreadRead DEF ReadFails
<1>3. CASE Publish \/ Restart
  BY <1>3 DEF Publish, Restart, UnreadInv, Zero
<1>4. ASSUME NEW d \in Directions, Carry(d) PROVE UnreadInv'
  BY <1>4 DEF Carry, UnreadInv, localVars
<1>5. CASE ClearCounters \/ Tick \/ BeginRefresh \/ EndReads \/ UNCHANGED vars
  BY <1>5 DEF ClearCounters, Tick, BeginRefresh, EndReads, UnreadInv, vars, localVars
<1>6. QED
  BY <1>1, <1>2, <1>3, <1>4, <1>5 DEF Next

\* What a refresh publishes counts only traffic whenever the refresh before it read
\* every counter, whatever it failed to read itself.
WrongOnlyAfterAFailedPoll == [][Publish /\ prevOK => OnlyTraffic']_vars

\* A rate that counts bytes nobody carried comes from the totals that a failed read of
\* the previous refresh left behind (fetchTrafficSet returns no elements), and from
\* nothing else: a failed read of this refresh, a wrapped counter and a cleared one all
\* leave a total that is not above the previous, and no rate.
THEOREM RatesWrongOnlyAfterAFailedPoll == Spec => WrongOnlyAfterAFailedPoll
<1>1. ASSUME TypeOK, RateInv, UnreadInv, Publish, prevOK, NEW d \in Directions
      PROVE  traffic'.delta[d] <= measured'.carried[d]
  <2>1. /\ pc = "publish" /\ unread = {} /\ measured'.carried[d] = between[d]
        /\ traffic'.delta[d] = IF Rated THEN Difference(total[d], prev[d]) ELSE 0
    BY <1>1 DEF Publish, Zero, RateInv
  <2>2. CASE Rated
    <3>1. total[d] >= prev[d] /\ Difference(total[d], prev[d]) = total[d] - prev[d]
      BY <1>1, <2>2, NumbersTyped, DifferenceIsWord DEF Rated
    <3>2. total[d] <= prev[d] + between[d]
      <4>1. CASE d \in readOK
        BY <1>1, <2>1, <4>1 DEF RateInv
      <4>2. CASE d \notin readOK
        BY <1>1, <4>2, NumbersTyped DEF UnreadInv
      <4>3. QED
        BY <4>1, <4>2
    <3>3. QED
      BY <1>1, <2>1, <2>2, <3>1, <3>2, NumbersTyped
  <2>3. CASE ~Rated
    BY <1>1, <2>1, <2>3, NumbersTyped
  <2>4. QED
    BY <2>2, <2>3
<1>2. TypeOK /\ RateInv /\ UnreadInv /\ [Next]_vars
        => [Publish /\ prevOK => OnlyTraffic']_vars
  BY <1>1 DEF OnlyTraffic
<1>3. QED
  BY <1>2, TypeCorrect, RateInit, RateStep, UnreadInit, UnreadStep, PTL
  DEF Spec, WrongOnlyAfterAFailedPoll
=============================================================================
