------------------------- MODULE AudioBuffer_proofs -------------------------
(***************************************************************************)
(* Proofs about AudioBuffer, for every pool size, timestamp range, number *)
(* of chunks and number of calls.                                        *)
(***************************************************************************)
EXTENDS AudioBuffer, SequenceTheorems, FiniteSetTheorems, NatLemmas, TLAPS

-----------------------------------------------------------------------------
(* Lemmas about the operators the buffer is built from.                  *)

(* InsertAt keeps the elements before the position and shifts the others. *)
LEMMA InsertAtElements ==
  ASSUME NEW S, NEW s \in Seq(S), NEW p \in 1 .. Len(s) + 1, NEW e \in S
  PROVE  /\ InsertAt(s, p, e) \in Seq(S)
         /\ Len(InsertAt(s, p, e)) = Len(s) + 1
         /\ \A j \in 1 .. Len(s) + 1 :
              InsertAt(s, p, e)[j] = IF j < p THEN s[j]
                                     ELSE IF j = p THEN e ELSE s[j - 1]
<1> DEFINE a == SubSeq(s, 1, p - 1)
           b == SubSeq(s, p, Len(s))
<1>0. /\ Len(s) \in Nat
      /\ \A i \in 1 .. Len(s) : s[i] \in S
  BY LenProperties, ElementOfSeq
<1>1. /\ a \in Seq(S)
      /\ Len(a) = p - 1
      /\ \A i \in 1 .. p - 1 : a[i] = s[i]
  <2>1. \A i \in 1 .. p - 1 : s[i] \in S
    BY <1>0
  <2> QED
    BY <1>0, <2>1, SubSeqProperties
<1>2. /\ b \in Seq(S)
      /\ Len(b) = Len(s) - p + 1
      /\ \A i \in 1 .. Len(s) - p + 1 : b[i] = s[p + i - 1]
  <2>1. \A i \in p .. Len(s) : s[i] \in S
    BY <1>0
  <2> QED
    BY <1>0, <2>1, SubSeqProperties
<1>3. <<e>> \in Seq(S) /\ Len(<<e>>) = 1 /\ <<e>>[1] = e
  OBVIOUS
<1> DEFINE ae == a \o <<e>>
<1> HIDE DEF a, b
<1>4. /\ ae \in Seq(S)
      /\ Len(ae) = p
      /\ \A i \in 1 .. p : ae[i] = IF i <= p - 1 THEN a[i] ELSE e
  <2>1. /\ ae \in Seq(S)
        /\ Len(ae) = Len(a) + 1
        /\ \A i \in 1 .. Len(a) + 1 :
             ae[i] = IF i <= Len(a) THEN a[i] ELSE <<e>>[i - Len(a)]
    BY <1>1, <1>3, ConcatProperties
  <2> QED
    BY <2>1, <1>1, <1>3
<1> HIDE DEF ae
<1>5. /\ ae \o b \in Seq(S)
      /\ Len(ae \o b) = Len(ae) + Len(b)
      /\ \A i \in 1 .. Len(ae) + Len(b) :
           (ae \o b)[i] = IF i <= Len(ae) THEN ae[i] ELSE b[i - Len(ae)]
  BY <1>2, <1>4, ConcatProperties
<1>6. InsertAt(s, p, e) = ae \o b
  BY DEF InsertAt, ae, a, b
<1> QED
  BY <1>0, <1>1, <1>2, <1>4, <1>5, <1>6

(* A place for a new frame always exists.                                *)
LEMMA InsertPosRange ==
  ASSUME NEW seq \in Seq(Slots), NEW t
  PROVE  InsertPos(seq, t) \in 1 .. Len(seq) + 1
<1> DEFINE L == {i \in 1 .. Len(seq) : TsCmp(stamp[seq[i]], t) < 0}
<1>1. Len(seq) \in Nat
  BY LenProperties
<1>2. IsFiniteSet(1 .. Len(seq)) /\ Cardinality(1 .. Len(seq)) = Len(seq)
  BY <1>1, FS_Interval
<1>3. IsFiniteSet(L) /\ Cardinality(L) <= Len(seq)
  BY <1>2, FS_Subset
<1>4. Cardinality(L) \in Nat
  BY <1>3, FS_CardinalityType
<1> QED
  BY <1>1, <1>3, <1>4 DEF InsertPos

(* The five ways a slot changes hands keep every slot with one owner.    *)

LEMMA PopAndInsert ==
  ASSUME NEW q \in Seq(Slots), NEW f \in Seq(Slots), NEW h,
         f # <<>>, OwnedOnce(q, f, h), NEW p \in 1 .. Len(q) + 1
  PROVE  LET top == f[Len(f)]
             rest == SubSeq(f, 1, Len(f) - 1)
         IN  /\ top \in Slots
             /\ InsertAt(q, p, top) \in Seq(Slots)
             /\ Len(InsertAt(q, p, top)) = Len(q) + 1
             /\ rest \in Seq(Slots)
             /\ Len(rest) = Len(f) - 1
             /\ OwnedOnce(InsertAt(q, p, top), rest, h)
<1> DEFINE top == f[Len(f)]
           rest == SubSeq(f, 1, Len(f) - 1)
           ins == InsertAt(q, p, top)
<1>1. Len(f) \in Nat /\ Len(f) > 0 /\ Len(q) \in Nat
  BY LenProperties, EmptySeq
<1>2. top \in Slots
  BY <1>1, ElementOfSeq
<1>3. /\ rest \in Seq(Slots)
      /\ Len(rest) = Len(f) - 1
      /\ \A i \in 1 .. Len(f) - 1 : rest[i] = f[i]
  <2>1. \A i \in 1 .. Len(f) - 1 : f[i] \in Slots
    BY <1>1, ElementOfSeq
  <2>2. /\ rest \in Seq(Slots)
        /\ Len(rest) = IF 1 <= Len(f) - 1 THEN (Len(f) - 1) - 1 + 1 ELSE 0
        /\ \A i \in 1 .. (Len(f) - 1) - 1 + 1 : rest[i] = f[1 + i - 1]
    BY <1>1, <2>1, SubSeqProperties
  <2> HIDE DEF rest
  <2>3. ASSUME NEW i \in 1 .. Len(f) - 1  PROVE rest[i] = f[i]
    <3>1. i \in 1 .. (Len(f) - 1) - 1 + 1 /\ 1 + i - 1 = i
      BY <1>1
    <3> QED
      BY <2>2, <3>1
  <2>4. Len(rest) = Len(f) - 1
    <3>1. \A n \in Nat : n > 0 => (IF 1 <= n - 1 THEN (n - 1) - 1 + 1 ELSE 0) = n - 1
      OBVIOUS
    <3> QED
      BY <1>1, <2>2, <3>1
  <2> QED
    BY <2>2, <2>3, <2>4
<1>4. /\ ins \in Seq(Slots)
      /\ Len(ins) = Len(q) + 1
      /\ \A j \in 1 .. Len(q) + 1 :
           ins[j] = IF j < p THEN q[j] ELSE IF j = p THEN top ELSE q[j - 1]
  <2> HIDE DEF top, rest
  <2>1. /\ InsertAt(q, p, top) \in Seq(Slots)
        /\ Len(InsertAt(q, p, top)) = Len(q) + 1
        /\ \A j \in 1 .. Len(q) + 1 :
             InsertAt(q, p, top)[j] = IF j < p THEN q[j] ELSE IF j = p THEN top ELSE q[j - 1]
    BY <1>2, InsertAtElements
  <2> QED
    BY <2>1
<1> HIDE DEF ins, rest
<1>5. /\ \A i \in 1 .. Len(q) : q[i] # top
      /\ \A i \in 1 .. Len(rest) : rest[i] # top
      /\ top # h
  <2>1. Len(f) \in 1 .. Len(f) /\ \A i \in 1 .. Len(rest) : i \in 1 .. Len(f) /\ i # Len(f)
    BY <1>1, <1>3
  <2>2. \A i \in 1 .. Len(rest) : rest[i] = f[i]
    BY <1>3
  <2> HIDE DEF rest
  <2>3. \A i \in 1 .. Len(q) : q[i] # f[Len(f)]
    BY <2>1 DEF OwnedOnce
  <2>4. \A i \in 1 .. Len(rest) : rest[i] # f[Len(f)]
    BY <2>1, <2>2 DEF OwnedOnce
  <2>5. f[Len(f)] # h
    BY <2>1 DEF OwnedOnce
  <2> QED
    BY <2>3, <2>4, <2>5
<1> HIDE DEF top
<1>6. \A j \in 1 .. Len(ins) : ins[j] = top \/ \E k \in 1 .. Len(q) : ins[j] = q[k]
  <2> SUFFICES ASSUME NEW j \in 1 .. Len(ins), ins[j] # top
               PROVE  \E k \in 1 .. Len(q) : ins[j] = q[k]
    OBVIOUS
  <2>1. j \in 1 .. Len(q) + 1
    BY <1>4
  <2>2. CASE j < p
    <3>1. j \in 1 .. Len(q) /\ ins[j] = q[j]
      BY <1>1, <1>4, <2>1, <2>2
    <3> QED
      BY <3>1
  <2>3. CASE j > p
    <3>1. j - 1 \in 1 .. Len(q) /\ ins[j] = q[j - 1]
      BY <1>1, <1>4, <2>1, <2>3
    <3> QED
      BY <3>1
  <2> QED
    BY <1>1, <1>4, <2>1, <2>2, <2>3
<1>7. \A i, j \in 1 .. Len(ins) : ins[i] = ins[j] => i = j
  <2> SUFFICES ASSUME NEW i \in 1 .. Len(q) + 1, NEW j \in 1 .. Len(q) + 1,
                      ins[i] = ins[j]
               PROVE  i = j
    BY <1>4
  <2>1. \A k, l \in 1 .. Len(q) : q[k] = q[l] => k = l
    BY DEF OwnedOnce
  <2>0. \A k \in 1 .. Len(q) + 1 : k # p => ins[k] # top
    <3> SUFFICES ASSUME NEW k \in 1 .. Len(q) + 1, k # p
                 PROVE  ins[k] # top
      OBVIOUS
    <3>1. CASE k < p
      <4>1. k \in 1 .. Len(q) /\ ins[k] = q[k]
        BY <1>1, <1>4, <3>1
      <4> QED
        BY <1>5, <4>1
    <3>2. CASE k > p
      <4>1. k - 1 \in 1 .. Len(q) /\ ins[k] = q[k - 1]
        BY <1>1, <1>4, <3>2
      <4> QED
        BY <1>5, <4>1
    <3> QED
      BY <3>1, <3>2, <1>1
  <2>2. CASE i = p \/ j = p
    <3>1. p \in 1 .. Len(q) + 1 /\ ins[p] = top
      BY <1>1, <1>4
    <3> QED
      BY <2>0, <2>2, <3>1
  <2>3. CASE i < p /\ j < p
    <3>1. q[i] = q[j] /\ i \in 1 .. Len(q) /\ j \in 1 .. Len(q)
      BY <1>1, <1>4, <2>3
    <3> QED
      BY <2>1, <3>1
  <2>4. CASE i > p /\ j > p
    <3>1. q[i - 1] = q[j - 1] /\ i - 1 \in 1 .. Len(q) /\ j - 1 \in 1 .. Len(q)
      BY <1>1, <1>4, <2>4
    <3> QED
      BY <2>1, <3>1
  <2>5. CASE i < p /\ j > p
    <3>1. q[i] = q[j - 1] /\ i \in 1 .. Len(q) /\ j - 1 \in 1 .. Len(q)
      BY <1>1, <1>4, <2>5
    <3> QED
      BY <2>1, <2>5, <3>1
  <2>6. CASE i > p /\ j < p
    <3>1. q[i - 1] = q[j] /\ i - 1 \in 1 .. Len(q) /\ j \in 1 .. Len(q)
      BY <1>1, <1>4, <2>6
    <3> QED
      BY <2>1, <2>6, <3>1
  <2> QED
    BY <2>2, <2>3, <2>4, <2>5, <2>6
<1>8. \A i, j \in 1 .. Len(rest) : rest[i] = rest[j] => i = j
  BY <1>1, <1>3 DEF OwnedOnce
<1>9. \A i \in 1 .. Len(rest) : rest[i] # h /\ \A k \in 1 .. Len(q) : q[k] # rest[i]
  BY <1>1, <1>3 DEF OwnedOnce
<1>10. \A i \in 1 .. Len(ins), j \in 1 .. Len(rest) : ins[i] # rest[j]
  BY <1>5, <1>6, <1>9
<1>11. \A i \in 1 .. Len(ins) : ins[i] # h
  <2>1. \A k \in 1 .. Len(q) : q[k] # h
    BY DEF OwnedOnce
  <2> QED
    BY <1>5, <1>6, <2>1
<1>12. OwnedOnce(ins, rest, h)
  BY <1>7, <1>8, <1>9, <1>10, <1>11 DEF OwnedOnce
<1> QED
  BY <1>2, <1>3, <1>4, <1>12 DEF ins, rest, top

LEMMA Evict ==
  ASSUME NEW q \in Seq(Slots), NEW f \in Seq(Slots), NEW h,
         q # <<>>, OwnedOnce(q, f, h)
  PROVE  /\ Tail(q) \in Seq(Slots)
         /\ Len(Tail(q)) = Len(q) - 1
         /\ Append(f, Head(q)) \in Seq(Slots)
         /\ Len(Append(f, Head(q))) = Len(f) + 1
         /\ OwnedOnce(Tail(q), Append(f, Head(q)), h)
<1>1. Len(f) \in Nat /\ Len(q) \in Nat /\ Len(q) > 0
  BY LenProperties, EmptySeq
<1>2. /\ Head(q) \in Slots /\ Head(q) = q[1]
      /\ Tail(q) \in Seq(Slots)
      /\ Len(Tail(q)) = Len(q) - 1
      /\ \A i \in 1 .. Len(q) - 1 : Tail(q)[i] = q[i + 1]
  BY HeadTailProperties
<1>3. /\ Append(f, Head(q)) \in Seq(Slots)
      /\ Len(Append(f, Head(q))) = Len(f) + 1
      /\ \A i \in 1 .. Len(f) : Append(f, Head(q))[i] = f[i]
      /\ Append(f, Head(q))[Len(f) + 1] = Head(q)
  BY <1>2, AppendProperties
<1> QED
  BY <1>1, <1>2, <1>3 DEF OwnedOnce

LEMMA Take ==
  ASSUME NEW q \in Seq(Slots), NEW f \in Seq(Slots), NEW h,
         q # <<>>, OwnedOnce(q, f, h)
  PROVE  /\ Head(q) \in Slots
         /\ Tail(q) \in Seq(Slots)
         /\ Len(Tail(q)) = Len(q) - 1
         /\ OwnedOnce(Tail(q), f, Head(q))
<1>1. Len(f) \in Nat /\ Len(q) \in Nat /\ Len(q) > 0
  BY LenProperties, EmptySeq
<1>2. /\ Head(q) \in Slots /\ Head(q) = q[1]
      /\ Tail(q) \in Seq(Slots)
      /\ Len(Tail(q)) = Len(q) - 1
      /\ \A i \in 1 .. Len(q) - 1 : Tail(q)[i] = q[i + 1]
  BY HeadTailProperties
<1> QED
  BY <1>1, <1>2 DEF OwnedOnce

LEMMA Give ==
  ASSUME NEW q \in Seq(Slots), NEW f \in Seq(Slots), NEW h \in Slots,
         OwnedOnce(q, f, h)
  PROVE  /\ Append(f, h) \in Seq(Slots)
         /\ Len(Append(f, h)) = Len(f) + 1
         /\ OwnedOnce(q, Append(f, h), None)
<1>1. Len(f) \in Nat /\ Len(q) \in Nat
  BY LenProperties
<1>2. /\ Append(f, h) \in Seq(Slots)
      /\ Len(Append(f, h)) = Len(f) + 1
      /\ \A i \in 1 .. Len(f) : Append(f, h)[i] = f[i]
      /\ Append(f, h)[Len(f) + 1] = h
  BY AppendProperties
<1>3. /\ \A i \in 1 .. Len(q) : q[i] \in Slots
      /\ \A i \in 1 .. Len(f) : f[i] \in Slots
  BY ElementOfSeq
<1> QED
  BY <1>1, <1>2, <1>3, CapacityAssumption DEF OwnedOnce

LEMMA FlushAll ==
  ASSUME NEW q \in Seq(Slots), NEW f \in Seq(Slots), NEW h,
         OwnedOnce(q, f, h)
  PROVE  /\ f \o q \in Seq(Slots)
         /\ Len(f \o q) = Len(f) + Len(q)
         /\ OwnedOnce(<<>>, f \o q, h)
<1>1. Len(f) \in Nat /\ Len(q) \in Nat
  BY LenProperties
<1>2. /\ f \o q \in Seq(Slots)
      /\ Len(f \o q) = Len(f) + Len(q)
      /\ \A i \in 1 .. Len(f) + Len(q) :
           (f \o q)[i] = IF i <= Len(f) THEN f[i] ELSE q[i - Len(f)]
  BY ConcatProperties
<1>3. \A i, j \in 1 .. Len(f \o q) : (f \o q)[i] = (f \o q)[j] => i = j
  BY <1>1, <1>2 DEF OwnedOnce
<1>4. \A i \in 1 .. Len(f \o q) : (f \o q)[i] # h
  BY <1>1, <1>2 DEF OwnedOnce
<1> QED
  BY <1>2, <1>3, <1>4, EmptySeq DEF OwnedOnce

-----------------------------------------------------------------------------
(* The inductive invariant: types and conservation support each other, for *)
(* a popped or returned slot has to be a slot.                           *)
IInv == TypeOK /\ SlotConservation

LEMMA InsertKeepsIInv ==
  ASSUME IInv,
         NEW seq \in Seq(Slots), NEW pool \in Seq(Slots), pool # <<>>,
         Len(seq) + Len(pool) + Holding = Capacity,
         OwnedOnce(seq, pool, held),
         prod.pc = "chunk",
         Insert(seq, pool),
         tokens' \in 0 .. Capacity
  PROVE  IInv'
<1> DEFINE top == pool[Len(pool)]
           p == InsertPos(seq, prod.at)
<1>1. Len(seq) \in Nat /\ Len(pool) \in Nat
  BY LenProperties
<1>2. p \in 1 .. Len(seq) + 1
  BY InsertPosRange
<1>3. /\ top \in Slots
      /\ sorted' \in Seq(Slots)
      /\ Len(sorted') = Len(seq) + 1
      /\ free' \in Seq(Slots)
      /\ Len(free') = Len(pool) - 1
      /\ OwnedOnce(sorted', free', held)
  <2> HIDE DEF p
  <2>1. /\ free' = SubSeq(pool, 1, Len(pool) - 1)
        /\ sorted' = InsertAt(seq, p, top)
    BY DEF Insert, p
  <2> QED
    BY <1>2, <2>1, PopAndInsert
<1>4. held' = held /\ cons' = cons /\ draining' = draining
      /\ queued' = queued /\ flushes' = flushes
  BY DEF Insert
<1>5. Holding' = Holding /\ Holding \in {0, 1}
  BY <1>4 DEF Holding
<1>6. stamp' \in [Slots -> Stamps]
  <2>1. prod.at \in Stamps /\ stamp \in [Slots -> Stamps]
    BY DEF IInv, TypeOK
  <2>2. stamp' = [stamp EXCEPT ![top] = prod.at]
    BY DEF Insert
  <2> HIDE DEF top
  <2> QED
    BY <1>3, <2>1, <2>2
<1>7. prod' \in [pc : {"idle", "chunk", "give"}, at : Stamps, left : Nat]
  BY DEF Insert, IInv, TypeOK
<1>8. late' \in Nat
  BY DEF Insert, IInv, TypeOK
<1>9. TypeOK'
  BY <1>3, <1>4, <1>6, <1>7, <1>8 DEF TypeOK, IInv
<1>10. SlotConservation'
  <2>1. HeldIffHolding'
    BY <1>4 DEF IInv, SlotConservation, HeldIffHolding
  <2>2. SlotAccounting'
    BY <1>1, <1>3, <1>5 DEF SlotAccounting
  <2>3. OwnedOnce(sorted, free, held)'
    BY <1>3, <1>4 DEF OwnedOnce
  <2> QED
    BY <2>1, <2>2, <2>3 DEF SlotConservation
<1> QED
  BY <1>9, <1>10 DEF IInv

LEMMA InitIInv == Init => IInv
<1> SUFFICES ASSUME Init PROVE IInv
  OBVIOUS
<1>1. free = [i \in 1 .. Capacity |-> i - 1] /\ sorted = <<>> /\ held = None
  BY DEF Init
<1>2. free \in Seq(Slots) /\ Len(free) = Capacity
  BY <1>1, CapacityAssumption DEF Slots
<1>3. TypeOK
  BY <1>2, CapacityAssumption DEF Init, TypeOK, Idle, Stamps, Slots, Tasks
<1>4. HeldIffHolding /\ SlotAccounting
  BY <1>1, <1>2, CapacityAssumption
  DEF Init, HeldIffHolding, SlotAccounting, Holding
<1>5. OwnedOnce(sorted, free, held)
  BY <1>1, <1>2, CapacityAssumption DEF OwnedOnce, Slots
<1> QED
  BY <1>3, <1>4, <1>5 DEF IInv, SlotConservation

LEMMA NextIInv == IInv /\ [Next]_vars => IInv'
<1> SUFFICES ASSUME IInv, [Next]_vars PROVE IInv'
  OBVIOUS
<1> USE DEF IInv, SlotConservation
<1>0. Len(sorted) \in Nat /\ Len(free) \in Nat /\ Holding \in {0, 1}
  BY LenProperties DEF TypeOK, Holding
<1>1. ASSUME NEW t \in Starts, NEW n \in 1 .. MaxChunks, QueueDecoded(t, n)
      PROVE  IInv'
  <2>1. prod' \in [pc : {"idle", "chunk", "give"}, at : Stamps, left : Nat]
    <3>1. t \in Stamps /\ n \in Nat
      BY CapacityAssumption
    <3> QED
      BY <1>1, <3>1 DEF QueueDecoded
  <2> QED
    BY <1>1, <2>1
    DEF QueueDecoded, TypeOK, HeldIffHolding, SlotAccounting, Holding, OwnedOnce
<1>2. ASSUME InsertChunk PROVE IInv'
  <2>1. tokens' \in 0 .. Capacity
    BY <1>2 DEF InsertChunk, TypeOK
  <2> QED
    BY <1>2, <2>1, InsertKeepsIInv DEF InsertChunk, TypeOK, SlotAccounting
<1>3. ASSUME EvictAndInsertChunk PROVE IInv'
  <2>1. tokens' \in 0 .. Capacity
    BY <1>3, CapacityAssumption DEF EvictAndInsertChunk, TypeOK
  <2>2. sorted # <<>>
    BY <1>0, <1>3, CapacityAssumption, EmptySeq DEF EvictAndInsertChunk
  <2>3. /\ Tail(sorted) \in Seq(Slots)
        /\ Len(Tail(sorted)) = Len(sorted) - 1
        /\ Append(free, Head(sorted)) \in Seq(Slots)
        /\ Len(Append(free, Head(sorted))) = Len(free) + 1
        /\ OwnedOnce(Tail(sorted), Append(free, Head(sorted)), held)
    BY <2>2, Evict DEF TypeOK
  <2>4. /\ Append(free, Head(sorted)) # <<>>
        /\ Len(Tail(sorted)) + Len(Append(free, Head(sorted))) + Holding = Capacity
    BY <1>0, <2>3, EmptySeq DEF SlotAccounting
  <2> QED
    BY <1>3, <2>1, <2>3, <2>4, InsertKeepsIInv DEF EvictAndInsertChunk
<1>4. ASSUME RefuseChunk PROVE IInv'
  BY <1>4, CapacityAssumption
  DEF RefuseChunk, Idle, TypeOK, HeldIffHolding, SlotAccounting, Holding,
      OwnedOnce, Stamps
<1>5. ASSUME GiveToken PROVE IInv'
  <2>1. prod' \in [pc : {"idle", "chunk", "give"}, at : Stamps, left : Nat]
    <3>1. (prod.at + 1) % StampMod \in Stamps
      BY CapacityAssumption DEF TypeOK, Stamps
    <3> QED
      BY <1>5, <3>1, CapacityAssumption DEF GiveToken, NextChunk, Idle, TypeOK, Stamps
  <2>2. tokens' \in 0 .. Capacity
    BY <1>5, CapacityAssumption DEF GiveToken, TypeOK
  <2> QED
    BY <1>5, <2>1, <2>2
    DEF GiveToken, TypeOK, HeldIffHolding, SlotAccounting, Holding, OwnedOnce
<1>6. ASSUME TakeToken PROVE IInv'
  BY <1>6, CapacityAssumption
  DEF TakeToken, TypeOK, HeldIffHolding, SlotAccounting, Holding, OwnedOnce
<1>7. ASSUME TakeFrame PROVE IInv'
  <2>1. held = None /\ Holding = 0
    BY <1>7 DEF TakeFrame, HeldIffHolding, Holding
  <2>2. /\ held' \in Slots
        /\ sorted' \in Seq(Slots)
        /\ Len(sorted') = Len(sorted) - 1
        /\ OwnedOnce(sorted', free, held')
    BY <1>7, Take DEF TakeFrame, TypeOK
  <2>3. TypeOK'
    BY <1>7, <2>2 DEF TakeFrame, TypeOK
  <2>4. held' # None /\ HeldIffHolding' /\ Holding' = 1
    BY <1>7, <2>2, CapacityAssumption DEF TakeFrame, HeldIffHolding, Holding
  <2>5. SlotAccounting'
    BY <1>0, <1>7, <2>1, <2>2, <2>4 DEF TakeFrame, SlotAccounting
  <2>6. OwnedOnce(sorted, free, held)'
    BY <1>7, <2>2 DEF TakeFrame, OwnedOnce
  <2> QED
    BY <2>3, <2>4, <2>5, <2>6
<1>8. ASSUME TakeNothing PROVE IInv'
  BY <1>8 DEF TakeNothing, TypeOK, HeldIffHolding, SlotAccounting, Holding, OwnedOnce
<1>9. ASSUME ReturnSlot PROVE IInv'
  <2>1. held # None /\ held \in Slots /\ Holding = 1
    BY <1>9 DEF ReturnSlot, HeldIffHolding, Holding, TypeOK
  <2>2. /\ free' \in Seq(Slots)
        /\ Len(free') = Len(free) + 1
        /\ OwnedOnce(sorted, free', None)
    BY <1>9, <2>1, Give DEF ReturnSlot, TypeOK
  <2>3. TypeOK'
    BY <1>9, <2>2 DEF ReturnSlot, TypeOK
  <2>4. HeldIffHolding' /\ Holding' = 0
    BY <1>9 DEF ReturnSlot, HeldIffHolding, Holding
  <2>5. SlotAccounting'
    BY <1>0, <1>9, <2>1, <2>2, <2>4 DEF ReturnSlot, SlotAccounting
  <2>6. OwnedOnce(sorted, free, held)'
    BY <1>9, <2>2 DEF ReturnSlot, OwnedOnce
  <2> QED
    BY <2>3, <2>4, <2>5, <2>6
<1>10. ASSUME NEW task \in Tasks, Clear(task) PROVE IInv'
  <2>1. /\ free' \in Seq(Slots)
        /\ Len(free') = Len(free) + Len(sorted)
        /\ OwnedOnce(<<>>, free', held)
    BY <1>10, FlushAll DEF Clear, TypeOK
  <2>2. sorted' = <<>> /\ sorted' \in Seq(Slots) /\ Len(sorted') = 0
    BY <1>10, EmptySeq DEF Clear
  <2>3. TypeOK'
    BY <1>10, <2>1, <2>2 DEF Clear, TypeOK
  <2>4. HeldIffHolding' /\ Holding' = Holding
    BY <1>10 DEF Clear, HeldIffHolding, Holding
  <2>5. SlotAccounting'
    BY <1>0, <2>1, <2>2, <2>4 DEF SlotAccounting
  <2>6. OwnedOnce(sorted, free, held)'
    BY <1>10, <2>1, <2>2 DEF Clear, OwnedOnce
  <2> QED
    BY <2>3, <2>4, <2>5, <2>6
<1>11. ASSUME NEW task \in Tasks, DrainToken(task) PROVE IInv'
  BY <1>11, CapacityAssumption
  DEF DrainToken, TypeOK, HeldIffHolding, SlotAccounting, Holding, OwnedOnce
<1>12. ASSUME NEW task \in Tasks, DrainDone(task) PROVE IInv'
  BY <1>12
  DEF DrainDone, TypeOK, HeldIffHolding, SlotAccounting, Holding, OwnedOnce
<1>13. CASE UNCHANGED vars
  BY <1>13 DEF vars, TypeOK, HeldIffHolding, SlotAccounting, Holding, OwnedOnce
<1> QED
  BY <1>1, <1>2, <1>3, <1>4, <1>5, <1>6, <1>7, <1>8, <1>9, <1>10, <1>11, <1>12,
     <1>13
  DEF Next, Produce, Consume, Flush

(* Types hold in every reachable state, and the slot pool is conserved   *)
(* under every interleaving of the three tasks: audio_buffer.c never leaks *)
(* a slot, never pushes one twice and never writes past free_stack.      *)
THEOREM SlotsAreConserved == Spec => [](TypeOK /\ SlotConservation)
  BY InitIInv, NextIInv, PTL DEF Spec, IInv

-----------------------------------------------------------------------------
(* Tokens.  While a flush drains, every frame in the index was inserted  *)
(* after its clear; at all other times the deficit was left behind by the *)
(* last flush, and nothing in queue, take or return can increase it.     *)
TokenInv ==
  /\ FewStranded
  /\ draining # {} => Len(sorted) <= late

LEMMA NextTokenInv == IInv /\ TokenInv /\ [Next]_vars => TokenInv'
<1> SUFFICES ASSUME IInv, TokenInv, [Next]_vars PROVE TokenInv'
  OBVIOUS
<1> USE DEF IInv, TokenInv, FewStranded, Pending
<1>0. /\ Len(sorted) \in Nat /\ Len(free) \in Nat /\ Holding \in {0, 1}
      /\ Len(sorted) <= Capacity
      /\ tokens \in 0 .. Capacity /\ late \in Nat /\ Capacity \in Nat
  BY LenProperties, CapacityAssumption
  DEF TypeOK, Holding, SlotConservation, SlotAccounting
<1>1. ASSUME NEW t \in Starts, NEW n \in 1 .. MaxChunks, QueueDecoded(t, n)
      PROVE  TokenInv'
  BY <1>0, <1>1 DEF QueueDecoded
<1>2. ASSUME InsertChunk PROVE TokenInv'
  <2>1. Len(sorted') = Len(sorted) + 1
    BY <1>2, InsertPosRange, ElementOfSeq, InsertAtElements, LenProperties, EmptySeq
    DEF InsertChunk, Insert, TypeOK
  <2>2. prod'.pc = "give" /\ prod.pc = "chunk"
    BY <1>2 DEF InsertChunk, Insert, TypeOK
  <2> QED
    BY <1>0, <1>2, <2>1, <2>2 DEF InsertChunk, Insert
<1>3. ASSUME EvictAndInsertChunk PROVE TokenInv'
  <2>1. sorted # <<>> /\ Len(sorted) = Capacity
    BY <1>0, <1>3, CapacityAssumption, EmptySeq DEF EvictAndInsertChunk
  <2>2. Len(sorted') = Len(sorted)
    <3>1. /\ Tail(sorted) \in Seq(Slots)
          /\ Len(Tail(sorted)) = Len(sorted) - 1
          /\ Append(free, Head(sorted)) \in Seq(Slots)
          /\ Append(free, Head(sorted)) # <<>>
      BY <2>1, HeadTailProperties, AppendProperties, EmptySeq DEF TypeOK
    <3> DEFINE seq == Tail(sorted)
               pool == Append(free, Head(sorted))
    <3> HIDE DEF seq, pool
    <3>2. Len(pool) \in 1 .. Len(pool) /\ pool[Len(pool)] \in Slots
      BY <3>1, LenProperties, EmptySeq, ElementOfSeq DEF pool
    <3>3. sorted' = InsertAt(seq, InsertPos(seq, prod.at), pool[Len(pool)])
      BY <1>3 DEF EvictAndInsertChunk, Insert, seq, pool
    <3>4. seq \in Seq(Slots)
      BY <3>1 DEF seq
    <3>5. InsertPos(seq, prod.at) \in 1 .. Len(seq) + 1
      BY <3>4, InsertPosRange
    <3>6. Len(sorted') = Len(seq) + 1
      BY <3>2, <3>3, <3>4, <3>5, InsertAtElements
    <3> QED
      BY <1>0, <3>1, <3>6 DEF seq
  <2> QED
    <3>1. prod'.pc = "give" /\ prod.pc = "chunk"
      BY <1>3 DEF EvictAndInsertChunk, Insert, TypeOK
    <3> QED
      BY <1>0, <1>3, <2>1, <2>2, <3>1 DEF EvictAndInsertChunk, Insert
<1>4. ASSUME RefuseChunk PROVE TokenInv'
  BY <1>0, <1>4 DEF RefuseChunk, Idle
<1>5. ASSUME GiveToken PROVE TokenInv'
  BY <1>0, <1>5 DEF GiveToken, NextChunk, Idle
<1>6. ASSUME TakeToken PROVE TokenInv'
  BY <1>0, <1>6 DEF TakeToken
<1>7. ASSUME TakeFrame PROVE TokenInv'
  <2>1. Len(sorted') = Len(sorted) - 1
    BY <1>7, HeadTailProperties DEF TakeFrame, TypeOK
  <2> QED
    BY <1>0, <1>7, <2>1 DEF TakeFrame
<1>8. ASSUME TakeNothing PROVE TokenInv'
  BY <1>0, <1>8, EmptySeq DEF TakeNothing
<1>9. ASSUME ReturnSlot PROVE TokenInv'
  BY <1>0, <1>9 DEF ReturnSlot
<1>10. ASSUME NEW task \in Tasks, Clear(task) PROVE TokenInv'
  BY <1>0, <1>10, EmptySeq DEF Clear
<1>11. ASSUME NEW task \in Tasks, DrainToken(task) PROVE TokenInv'
  BY <1>0, <1>11 DEF DrainToken
<1>12. ASSUME NEW task \in Tasks, DrainDone(task) PROVE TokenInv'
  BY <1>0, <1>12 DEF DrainDone
<1>13. CASE UNCHANGED vars
  BY <1>13 DEF vars
<1> QED
  BY <1>1, <1>2, <1>3, <1>4, <1>5, <1>6, <1>7, <1>8, <1>9, <1>10, <1>11, <1>12,
     <1>13
  DEF Next, Produce, Consume, Flush

(* A frame can be left without a token only by a flush that was draining *)
(* the semaphore while the frame was queued: overflow, refusal, the take's *)
(* "count == 0" guard and the semaphore's maximum never cause it.        *)
THEOREM OnlyFlushStrandsFrames == Spec => []FewStranded
<1>1. Init => TokenInv
  BY EmptySeq DEF Init, TokenInv, FewStranded, Pending, Idle
<1> QED
  BY <1>1, InitIInv, NextIInv, NextTokenInv, PTL DEF Spec, TokenInv

(* A set of positions from the first on without a gap is an interval, and *)
(* its cardinality is where it ends.                                     *)
LEMMA PrefixIsInterval ==
  ASSUME NEW n \in Nat, NEW L \in SUBSET (1 .. n),
         \A i \in L : \A j \in 1 .. i : j \in L
  PROVE  Cardinality(L) \in 0 .. n /\ L = 1 .. Cardinality(L)
<1> DEFINE T == {m \in 1 .. n + 1 : m \notin L}
<1>1. T \in SUBSET Nat /\ n + 1 \in T
  OBVIOUS
<1>2. PICK k \in T : \A m \in T : k <= m
  BY <1>1, SmallestNat
<1>3. k \in 1 .. n + 1 /\ k \notin L /\ \A m \in 1 .. n + 1 : m < k => m \in L
  BY <1>2
<1>4. L = 1 .. k - 1
  <2>1. ASSUME NEW i \in L
        PROVE  i \in 1 .. k - 1
    <3>1. i \in 1 .. n /\ (k \in 1 .. i => k \in L)
      BY <2>1
    <3> QED
      BY <1>3, <3>1
  <2>2. ASSUME NEW i \in 1 .. k - 1
        PROVE  i \in L
    BY <1>3, <2>2
  <2> QED
    BY <2>1, <2>2
<1>5. Cardinality(1 .. k - 1) = k - 1
  <2>1. k - 1 \in Nat
    BY <1>3
  <2> DEFINE m == k - 1
  <2> HIDE DEF m
  <2>2. Cardinality(1 .. m) = IF 1 > m THEN 0 ELSE m - 1 + 1
    BY <2>1, FS_Interval DEF m
  <2> QED
    BY <2>1, <2>2 DEF m
<1> QED
  BY <1>3, <1>4, <1>5

-----------------------------------------------------------------------------
(* Timestamps that are in the buffer together are totally preordered.    *)

LEMMA WindowStamps ==
  /\ Window \subseteq Stamps
  /\ \A a, b \in Window : TsCmp(a, b) \in Int
<1>0. StampMod \in Nat \ {0} /\ Starts \subseteq Nat
  BY CapacityAssumption DEF Stamps
<1>1. ASSUME NEW a \in Window
      PROVE  a \in Stamps
  <2>1. PICK s \in Starts, k \in 0 .. MaxChunks - 1 : a = (s + k) % StampMod
    BY DEF Window
  <2> QED
    BY <1>0, <2>1 DEF Stamps
<1>2. ASSUME NEW a \in Stamps, NEW b \in Stamps
      PROVE  TsCmp(a, b) \in Int
  <2>1. (a - b) % StampMod \in Int /\ StampMod \div 2 \in Int
    BY <1>0 DEF Stamps
  <2> QED
    BY <1>0, <2>1 DEF TsCmp
<1> QED
  BY <1>1, <1>2

LEMMA OlderThan ==
  ASSUME NEW a \in Window, NEW b \in Window, NEW c \in Window
  PROVE  /\ TsCmp(a, b) >= 0 => TsCmp(b, a) <= 0
         /\ TsCmp(a, b) <= 0 /\ TsCmp(b, c) <= 0 => TsCmp(a, c) <= 0
         /\ TsCmp(a, b) <= 0 /\ TsCmp(b, c) < 0 => TsCmp(a, c) < 0
<1>1. /\ TsCmp(a, b) \in Int /\ TsCmp(b, c) \in Int /\ TsCmp(a, c) \in Int
      /\ TsCmp(b, a) \in Int /\ TsCmp(c, b) \in Int /\ TsCmp(c, a) \in Int
  BY WindowStamps
<1>2. /\ TsCmp(a, b) >= 0 => TsCmp(b, a) <= 0
      /\ TsCmp(a, b) <= 0 /\ TsCmp(b, c) <= 0 => TsCmp(a, c) <= 0
      /\ TsCmp(a, c) >= 0 => TsCmp(c, a) <= 0
      /\ TsCmp(b, c) < 0 => TsCmp(c, b) > 0
      /\ TsCmp(c, a) <= 0 /\ TsCmp(a, b) <= 0 => TsCmp(c, b) <= 0
  BY WindowAssumption
<1>3. ASSUME TsCmp(a, b) <= 0, TsCmp(b, c) < 0, ~(TsCmp(a, c) < 0)
      PROVE  FALSE
  BY <1>1, <1>2, <1>3
<1> QED
  BY <1>2, <1>3

(* The timestamps of a queue of slots, and what a place in their order is: *)
(* everything before it is older, nothing after it is.                   *)
Times(q) == [i \in 1 .. Len(q) |-> stamp[q[i]]]

LEMMA TimesOf ==
  ASSUME NEW q \in Seq(Slots), \A i \in 1 .. Len(q) : stamp[q[i]] \in Window
  PROVE  /\ Times(q) \in Seq(Window) /\ Len(Times(q)) = Len(q)
         /\ \A i \in 1 .. Len(q) : Times(q)[i] = stamp[q[i]]
<1>1. Len(q) \in Nat
  BY LenProperties
<1> QED
  BY <1>1 DEF Times

LEMMA PlaceInOrder ==
  ASSUME NEW q \in Seq(Slots), NEW t \in Window,
         \A i \in 1 .. Len(q) : stamp[q[i]] \in Window,
         Queue!Ordered(Times(q))
  PROVE  /\ InsertPos(q, t) \in 1 .. Len(q) + 1
         /\ \A i \in 1 .. Len(q) : TsCmp(stamp[q[i]], t) < 0 <=> i < InsertPos(q, t)
<1> DEFINE L == {i \in 1 .. Len(q) : TsCmp(stamp[q[i]], t) < 0}
<1>1. Len(q) \in Nat
  BY LenProperties
<1>2. ASSUME NEW i \in L, NEW j \in 1 .. i
      PROVE  j \in L
  <2>1. i \in 1 .. Len(q) /\ j \in 1 .. Len(q) /\ j <= i
    BY <1>1
  <2>2. TsCmp(stamp[q[i]], t) < 0
    OBVIOUS
  <2>3. CASE j < i
    <3>1. TsCmp(stamp[q[j]], stamp[q[i]]) <= 0
      <4>1. \A k, l \in 1 .. Len(Times(q)) : k < l => TsCmp(Times(q)[k], Times(q)[l]) <= 0
        BY DEF Queue!Ordered
      <4> QED
        BY <2>1, <2>3, <4>1, TimesOf
    <3> QED
      BY <2>1, <2>2, <3>1, OlderThan
  <2> QED
    BY <2>1, <2>3
<1>3. Cardinality(L) \in 0 .. Len(q) /\ L = 1 .. Cardinality(L)
  <2>1. L \in SUBSET (1 .. Len(q))
    OBVIOUS
  <2> HIDE DEF L
  <2> QED
    BY <1>1, <1>2, <2>1, PrefixIsInterval
<1>4. InsertPos(q, t) = 1 + Cardinality(L)
  BY DEF InsertPos
<1>5. \A i \in 1 .. Len(q) : TsCmp(stamp[q[i]], t) < 0 <=> i \in L
  OBVIOUS
<1> HIDE DEF L
<1> QED
  BY <1>1, <1>3, <1>4, <1>5

LEMMA InsertInOrder ==
  ASSUME NEW s \in Seq(Window), NEW t \in Window, NEW p \in 1 .. Len(s) + 1,
         \A i \in 1 .. Len(s) : TsCmp(s[i], t) < 0 <=> i < p,
         Queue!Ordered(s)
  PROVE  InsertAt(s, p, t) \in Seq(Window) /\ Queue!Ordered(InsertAt(s, p, t))
<1> DEFINE r == InsertAt(s, p, t)
<1>1. /\ r \in Seq(Window) /\ Len(r) = Len(s) + 1
      /\ \A j \in 1 .. Len(s) + 1 : r[j] = IF j < p THEN s[j] ELSE IF j = p THEN t ELSE s[j - 1]
  <2>1. s \in Seq(Window) /\ p \in 1 .. Len(s) + 1 /\ t \in Window
    OBVIOUS
  <2> QED
    BY ONLY <2>1, InsertAtElements, SMTT(20)
<1>2. Len(s) \in Nat /\ \A i \in 1 .. Len(s) : s[i] \in Window
  BY LenProperties, ElementOfSeq
<1>3. \A i, j \in 1 .. Len(s) : i < j => TsCmp(s[i], s[j]) <= 0
  BY DEF Queue!Ordered
<1> HIDE DEF r
<1>4. \A i \in 1 .. Len(s) : TsCmp(s[i], t) \in Int
  BY <1>2, WindowStamps
<1>5. \A i \in 1 .. Len(s) : i >= p => TsCmp(t, s[i]) <= 0
  <2> SUFFICES ASSUME NEW i \in 1 .. Len(s), i >= p
               PROVE  TsCmp(t, s[i]) <= 0
    OBVIOUS
  <2>1. TsCmp(s[i], t) >= 0
    BY <1>4
  <2> QED
    BY <1>2, <2>1, OlderThan
<1>6. ASSUME NEW i \in 1 .. Len(s) + 1, NEW j \in 1 .. Len(s) + 1, i < j
      PROVE  TsCmp(r[i], r[j]) <= 0
  <2>1. CASE j < p
    BY <1>1, <1>2, <1>3, <1>6, <2>1
  <2>2. CASE j = p
    <3>1. i \in 1 .. Len(s) /\ r[i] = s[i] /\ r[j] = t /\ TsCmp(s[i], t) < 0
      BY <1>1, <1>2, <1>6, <2>2
    <3> QED
      BY <1>4, <3>1
  <2>3. CASE j > p /\ i = p
    <3>1. j - 1 \in 1 .. Len(s) /\ r[j] = s[j - 1] /\ r[i] = t /\ j - 1 >= p
      BY <1>1, <1>2, <1>6, <2>3
    <3> QED
      BY <1>5, <3>1
  <2>4. CASE j > p /\ i < p
    <3>1. /\ i \in 1 .. Len(s) /\ j - 1 \in 1 .. Len(s) /\ i < j - 1
          /\ r[i] = s[i] /\ r[j] = s[j - 1]
      BY <1>1, <1>2, <1>6, <2>4
    <3> QED
      BY <1>3, <3>1
  <2>5. CASE j > p /\ i > p
    <3>1. /\ i - 1 \in 1 .. Len(s) /\ j - 1 \in 1 .. Len(s) /\ i - 1 < j - 1
          /\ r[i] = s[i - 1] /\ r[j] = s[j - 1]
      BY <1>1, <1>2, <1>6, <2>5
    <3> QED
      BY <1>3, <3>1
  <2> QED
    BY <1>2, <2>1, <2>2, <2>3, <2>4, <2>5
<1> QED
  BY <1>1, <1>6 DEF Queue!Ordered, r

(* Giving the oldest frame away leaves the others in order.              *)
LEMMA TimesOfTail ==
  ASSUME NEW q \in Seq(Slots), q # <<>>, \A i \in 1 .. Len(q) : stamp[q[i]] \in Window
  PROVE  /\ Times(Tail(q)) = Tail(Times(q))
         /\ Times(q) # <<>> /\ Head(Times(q)) = stamp[Head(q)]
         /\ \A i \in 1 .. Len(Tail(q)) : stamp[Tail(q)[i]] \in Window
         /\ Queue!Ordered(Times(q)) => Queue!Ordered(Times(Tail(q)))
<1>1. Len(q) \in Nat /\ Len(q) > 0
  BY LenProperties, EmptySeq
<1>2. /\ Head(q) = q[1] /\ Tail(q) \in Seq(Slots) /\ Len(Tail(q)) = Len(q) - 1
      /\ \A i \in 1 .. Len(q) - 1 : Tail(q)[i] = q[i + 1]
  BY HeadTailProperties
<1>3. /\ Times(q) \in Seq(Window) /\ Len(Times(q)) = Len(q)
      /\ \A i \in 1 .. Len(q) : Times(q)[i] = stamp[q[i]]
  BY TimesOf
<1>4. Times(q) # <<>>
  BY <1>1, <1>3, EmptySeq
<1>5. /\ Head(Times(q)) = Times(q)[1] /\ Tail(Times(q)) \in Seq(Window)
      /\ Len(Tail(Times(q))) = Len(q) - 1
      /\ \A i \in 1 .. Len(q) - 1 : Tail(Times(q))[i] = Times(q)[i + 1]
  BY <1>3, <1>4, HeadTailProperties
<1>6. \A i \in 1 .. Len(Tail(q)) : stamp[Tail(q)[i]] \in Window
  BY <1>1, <1>2
<1>7. /\ Times(Tail(q)) \in Seq(Window) /\ Len(Times(Tail(q))) = Len(q) - 1
      /\ \A i \in 1 .. Len(q) - 1 : Times(Tail(q))[i] = stamp[Tail(q)[i]]
  BY <1>2, <1>6, TimesOf
<1>8. \A i \in 1 .. Len(q) - 1 : i + 1 \in 1 .. Len(q) /\ Times(Tail(q))[i] = Times(q)[i + 1]
  BY <1>1, <1>2, <1>3, <1>7
<1>9. Times(Tail(q)) = Tail(Times(q))
  BY <1>1, <1>5, <1>7, <1>8, SeqEqual
<1>10. Queue!Ordered(Times(q)) => Queue!Ordered(Times(Tail(q)))
  <2> SUFFICES ASSUME Queue!Ordered(Times(q)) PROVE Queue!Ordered(Times(Tail(q)))
    OBVIOUS
  <2>1. Len(Times(q)) = Len(q) /\ Len(Times(Tail(q))) = Len(q) - 1
    BY <1>3, <1>7
  <2>2. ASSUME NEW i \in 1 .. Len(q) - 1, NEW j \in 1 .. Len(q) - 1, i < j
        PROVE  TsCmp(Times(Tail(q))[i], Times(Tail(q))[j]) <= 0
    <3>1. i + 1 \in 1 .. Len(q) /\ j + 1 \in 1 .. Len(q) /\ i + 1 < j + 1
      BY <1>1, <2>2
    <3>2. TsCmp(Times(q)[i + 1], Times(q)[j + 1]) <= 0
      BY <2>1, <3>1 DEF Queue!Ordered
    <3> QED
      BY <1>8, <3>2
  <2> QED
    BY <2>1, <2>2 DEF Queue!Ordered
<1> QED
  BY <1>1, <1>3, <1>4, <1>5, <1>2, <1>6, <1>9, <1>10

(* A frame in a slot that is not in q goes into the order of q at its place. *)
LEMMA InsertTimes ==
  ASSUME NEW q \in Seq(Slots), NEW e \in Slots, NEW p \in 1 .. Len(q) + 1, NEW t \in Window,
         stamp \in [Slots -> Stamps], stamp' = [stamp EXCEPT ![e] = t],
         sorted' = InsertAt(q, p, e),
         \A i \in 1 .. Len(q) : q[i] # e /\ stamp[q[i]] \in Window
  PROVE  Times(sorted)' = InsertAt(Times(q), p, t)
<1>1. Len(q) \in Nat /\ \A i \in 1 .. Len(q) : q[i] \in Slots
  BY LenProperties, ElementOfSeq
<1>2. /\ Len(sorted') = Len(q) + 1
      /\ \A j \in 1 .. Len(q) + 1 :
           sorted'[j] = IF j < p THEN q[j] ELSE IF j = p THEN e ELSE q[j - 1]
  <2>1. q \in Seq(Slots) /\ p \in 1 .. Len(q) + 1 /\ e \in Slots /\ sorted' = InsertAt(q, p, e)
    OBVIOUS
  <2> QED
    BY ONLY <2>1, InsertAtElements, SMTT(20)
<1>3. /\ Times(q) \in Seq(Window) /\ Len(Times(q)) = Len(q)
      /\ \A i \in 1 .. Len(q) : Times(q)[i] = stamp[q[i]]
  BY TimesOf
<1> DEFINE s == Times(q)
           r == InsertAt(s, p, t)
<1>4. s \in Seq(Window) /\ Len(s) = Len(q) /\ \A i \in 1 .. Len(q) : s[i] = stamp[q[i]]
  BY <1>3
<1> HIDE DEF s
<1>5. /\ r \in Seq(Window) /\ Len(r) = Len(q) + 1
      /\ \A j \in 1 .. Len(q) + 1 : r[j] = IF j < p THEN s[j] ELSE IF j = p THEN t ELSE s[j - 1]
  <2>1. p \in 1 .. Len(s) + 1
    BY <1>4
  <2>2. /\ r \in Seq(Window) /\ Len(r) = Len(s) + 1
        /\ \A j \in 1 .. Len(s) + 1 : r[j] = IF j < p THEN s[j] ELSE IF j = p THEN t ELSE s[j - 1]
    BY <1>4, <2>1, InsertAtElements
  <2> QED
    BY <1>4, <2>2
<1> HIDE DEF r
<1>6. stamp'[e] = t /\ \A i \in 1 .. Len(q) : stamp'[q[i]] = stamp[q[i]]
  BY <1>1
<1>7. ASSUME NEW j \in 1 .. Len(q) + 1
      PROVE  stamp'[sorted'[j]] = r[j]
  <2>1. CASE j < p
    <3>1. j \in 1 .. Len(q)
      BY <1>1, <2>1
    <3> QED
      BY <1>2, <1>4, <1>5, <1>6, <2>1, <3>1
  <2>2. CASE j = p
    BY <1>2, <1>5, <1>6, <2>2
  <2>3. CASE j > p
    <3>1. j - 1 \in 1 .. Len(q) /\ j \in 1 .. Len(q) + 1 /\ ~(j < p) /\ j # p
      BY <1>1, <2>3
    <3>2. sorted'[j] = q[j - 1]
      BY <1>2, <3>1
    <3>3. r[j] = s[j - 1]
      BY <1>5, <3>1
    <3>4. s[j - 1] = stamp[q[j - 1]] /\ stamp'[q[j - 1]] = stamp[q[j - 1]]
      BY <1>4, <1>6, <3>1
    <3> QED
      BY <3>2, <3>3, <3>4
  <2> QED
    BY <1>1, <2>1, <2>2, <2>3
<1> DEFINE m == [j \in 1 .. Len(sorted') |-> stamp'[sorted'[j]]]
<1>8. m \in Seq(Window) /\ Len(m) = Len(q) + 1 /\ \A j \in 1 .. Len(q) + 1 : m[j] = r[j]
  <2>1. \A j \in 1 .. Len(q) + 1 : r[j] \in Window
    BY <1>5, ElementOfSeq
  <2>2. Len(q) + 1 \in Nat
    BY <1>1
  <2> QED
    BY <1>2, <1>7, <2>1, <2>2
<1> HIDE DEF m
<1>9. m = r
  BY <1>5, <1>8, SeqEqual
<1> QED
  BY <1>9 DEF Times, m, r, s

-----------------------------------------------------------------------------
(* Order.  What is queued, and what the producer is about to queue, is in *)
(* the window the sender keeps to; only there is "older" an order.       *)
InOrder(q) ==
  /\ \A i \in 1 .. Len(q) : stamp[q[i]] \in Window
  /\ Queue!Ordered(Times(q))

ChunksLeft ==
  prod.pc # "idle" =>
    /\ prod.left \in Nat \ {0}
    /\ \E s \in Starts, k \in Nat :
         prod.at = (s + k) % StampMod /\ k + prod.left <= MaxChunks

OrderInv == InOrder(sorted) /\ ChunksLeft

LEMMA ChunkInWindow == ChunksLeft /\ prod.pc # "idle" => prod.at \in Window
<1> SUFFICES ASSUME ChunksLeft, prod.pc # "idle" PROVE prod.at \in Window
  OBVIOUS
<1>1. PICK s \in Starts, k \in Nat :
        prod.at = (s + k) % StampMod /\ k + prod.left <= MaxChunks
  BY DEF ChunksLeft
<1>2. prod.left \in Nat \ {0} /\ MaxChunks \in Nat
  BY CapacityAssumption DEF ChunksLeft
<1>3. k \in 0 .. MaxChunks - 1
  BY <1>1, <1>2
<1> QED
  BY <1>1, <1>3 DEF Window

(* The order is a fact about the stamps of the queued slots only.        *)
LEMMA SameOrder ==
  ASSUME NEW q \in Seq(Slots), InOrder(q), stamp' = stamp, sorted' = q
  PROVE  InOrder(sorted)'
<1>1. Times(sorted)' = Times(q)
  BY DEF Times
<1> QED
  BY <1>1 DEF InOrder, Queue!Ordered

LEMMA InsertKeepsOrder ==
  ASSUME NEW q \in Seq(Slots), NEW e \in Slots, stamp \in [Slots -> Stamps],
         InOrder(q), prod.at \in Window, \A i \in 1 .. Len(q) : q[i] # e,
         stamp' = [stamp EXCEPT ![e] = prod.at],
         sorted' = InsertAt(q, InsertPos(q, prod.at), e)
  PROVE  /\ InOrder(sorted)'
         /\ InsertPos(q, prod.at) \in 1 .. Len(Times(q)) + 1
         /\ Times(sorted)' = InsertAt(Times(q), InsertPos(q, prod.at), prod.at)
         /\ Queue!Ordered(Times(sorted)')
<1>1. PICK t \in Window : t = prod.at
  OBVIOUS
<1> DEFINE p == InsertPos(q, t)
           s == Times(q)
<1>2. /\ p \in 1 .. Len(q) + 1
      /\ \A i \in 1 .. Len(q) : TsCmp(stamp[q[i]], t) < 0 <=> i < p
  BY <1>1, PlaceInOrder DEF InOrder
<1>3. s \in Seq(Window) /\ Len(s) = Len(q) /\ \A i \in 1 .. Len(q) : s[i] = stamp[q[i]]
  BY TimesOf DEF InOrder
<1>4. Queue!Ordered(s)
  BY DEF InOrder
<1>5. sorted' = InsertAt(q, p, e) /\ stamp' = [stamp EXCEPT ![e] = t]
  BY <1>1
<1>6. \A i \in 1 .. Len(q) : q[i] # e /\ stamp[q[i]] \in Window
  BY DEF InOrder
<1> HIDE DEF p
<1>7. Times(sorted)' = InsertAt(s, p, t)
  BY <1>1, <1>2, <1>5, <1>6, InsertTimes
<1> HIDE DEF s
<1>8. \A i \in 1 .. Len(s) : TsCmp(s[i], t) < 0 <=> i < p
  BY <1>2, <1>3
<1>9. p \in 1 .. Len(s) + 1
  BY <1>2, <1>3
<1>10. InsertAt(s, p, t) \in Seq(Window) /\ Queue!Ordered(InsertAt(s, p, t))
  BY <1>1, <1>3, <1>4, <1>8, <1>9, InsertInOrder
<1>11. Queue!Ordered(Times(sorted)')
  BY <1>7, <1>10
<1>12. \A i \in 1 .. Len(sorted') : stamp'[sorted'[i]] \in Window
  <2>1. Len(q) \in Nat /\ Len(sorted') \in Nat /\ Len(sorted') = Len(q) + 1
    <3>1. sorted' \in Seq(Slots) /\ Len(sorted') = Len(q) + 1
      <4>1. q \in Seq(Slots) /\ e \in Slots
        OBVIOUS
      <4> QED
        BY ONLY <1>2, <1>5, <4>1, InsertAtElements, SMTT(20)
    <3> QED
      BY <3>1, LenProperties
  <2>2. \A i \in 1 .. Len(sorted') : (Times(sorted)')[i] = stamp'[sorted'[i]]
    BY DEF Times
  <2>3. /\ Len(InsertAt(s, p, t)) = Len(s) + 1
        /\ \A j \in 1 .. Len(s) + 1 : InsertAt(s, p, t)[j] \in Window
    <3>1. Len(InsertAt(s, p, t)) = Len(s) + 1
      BY ONLY t \in Window, <1>3, <1>9, InsertAtElements, SMTT(20)
    <3> QED
      BY <1>10, <3>1, ElementOfSeq
  <2> QED
    BY <1>3, <1>7, <2>1, <2>2, <2>3
<1>13. InOrder(sorted)'
  BY <1>11, <1>12 DEF InOrder, Queue!Ordered
<1> QED
  BY <1>1, <1>7, <1>9, <1>11, <1>13 DEF p, s

(* The slot a chunk is written to is not in the index.                   *)
LEMMA TopIsFresh ==
  ASSUME NEW q \in Seq(Slots), NEW f \in Seq(Slots), NEW h, f # <<>>, OwnedOnce(q, f, h)
  PROVE  f[Len(f)] \in Slots /\ \A i \in 1 .. Len(q) : q[i] # f[Len(f)]
<1>1. Len(f) \in Nat /\ Len(f) \in 1 .. Len(f)
  BY LenProperties, EmptySeq
<1>2. f[Len(f)] \in Slots
  BY <1>1, ElementOfSeq
<1> QED
  BY <1>1, <1>2 DEF OwnedOnce

LEMMA OldestGone ==
  ASSUME IInv, InOrder(sorted), sorted # <<>>
  PROVE  /\ Tail(sorted) \in Seq(Slots) /\ InOrder(Tail(sorted))
         /\ Append(free, Head(sorted)) \in Seq(Slots) /\ Append(free, Head(sorted)) # <<>>
         /\ OwnedOnce(Tail(sorted), Append(free, Head(sorted)), held)
         /\ Times(Tail(sorted)) = Tail(Times(sorted))
         /\ Times(sorted) # <<>> /\ Head(Times(sorted)) = stamp[Head(sorted)]
<1>1. sorted \in Seq(Slots) /\ free \in Seq(Slots) /\ OwnedOnce(sorted, free, held)
  BY DEF IInv, TypeOK, SlotConservation
<1>2. /\ Tail(sorted) \in Seq(Slots)
      /\ Append(free, Head(sorted)) \in Seq(Slots)
      /\ Len(Append(free, Head(sorted))) = Len(free) + 1
      /\ OwnedOnce(Tail(sorted), Append(free, Head(sorted)), held)
  BY <1>1, Evict
<1>3. Append(free, Head(sorted)) # <<>>
  BY <1>1, <1>2, LenProperties, EmptySeq
<1>4. /\ Times(Tail(sorted)) = Tail(Times(sorted))
      /\ Times(sorted) # <<>> /\ Head(Times(sorted)) = stamp[Head(sorted)]
      /\ \A i \in 1 .. Len(Tail(sorted)) : stamp[Tail(sorted)[i]] \in Window
      /\ Queue!Ordered(Times(Tail(sorted)))
  BY <1>1, TimesOfTail DEF InOrder
<1> QED
  BY <1>2, <1>3, <1>4 DEF InOrder

(* What queue_chunk does to the timestamps the buffer holds.             *)
LEMMA InsertOrdered ==
  ASSUME IInv, ChunksLeft, prod.pc = "chunk",
         NEW q \in Seq(Slots), NEW f \in Seq(Slots), f # <<>>,
         InOrder(q), OwnedOnce(q, f, held), Insert(q, f)
  PROVE  /\ InOrder(sorted)' /\ ChunksLeft'
         /\ \E p \in 1 .. Len(Times(q)) + 1 : Times(sorted)' = InsertAt(Times(q), p, prod.at)
         /\ Queue!Ordered(Times(sorted)')
<1>1. PICK e \in Slots : e = f[Len(f)] /\ \A i \in 1 .. Len(q) : q[i] # e
  BY TopIsFresh
<1>2. /\ stamp' = [stamp EXCEPT ![e] = prod.at]
      /\ sorted' = InsertAt(q, InsertPos(q, prod.at), e)
      /\ prod' = [prod EXCEPT !.pc = "give"]
  BY <1>1 DEF Insert
<1>3. prod.at \in Window
  BY ChunkInWindow
<1>4. stamp \in [Slots -> Stamps]
  BY DEF IInv, TypeOK
<1>5. /\ InOrder(sorted)'
      /\ InsertPos(q, prod.at) \in 1 .. Len(Times(q)) + 1
      /\ Times(sorted)' = InsertAt(Times(q), InsertPos(q, prod.at), prod.at)
      /\ Queue!Ordered(Times(sorted)')
  BY <1>1, <1>2, <1>3, <1>4, InsertKeepsOrder
<1>6. ChunksLeft'
  <2>1. prod'.at = prod.at /\ prod'.left = prod.left
    BY <1>2 DEF IInv, TypeOK
  <2> QED
    BY <2>1 DEF ChunksLeft
<1> QED
  BY <1>5, <1>6

LEMMA InitOrderInv == Init => OrderInv
<1> SUFFICES ASSUME Init PROVE OrderInv
  OBVIOUS
<1>1. sorted = <<>> /\ Len(sorted) = 0
  BY EmptySeq DEF Init
<1>2. Len(Times(sorted)) = 0
  BY <1>1 DEF Times
<1> QED
  BY <1>1, <1>2 DEF Init, Idle, OrderInv, InOrder, ChunksLeft, Queue!Ordered

LEMMA NextOrderInv == IInv /\ OrderInv /\ [Next]_vars => OrderInv'
<1> SUFFICES ASSUME IInv, OrderInv, [Next]_vars PROVE OrderInv'
  OBVIOUS
<1>0. sorted \in Seq(Slots) /\ free \in Seq(Slots) /\ OwnedOnce(sorted, free, held)
  BY DEF IInv, TypeOK, SlotConservation
<1>1. ASSUME sorted' = sorted, stamp' = stamp, ChunksLeft'
      PROVE  OrderInv'
  BY <1>0, <1>1, SameOrder DEF OrderInv
<1>2. ASSUME NEW t \in Starts, NEW n \in 1 .. MaxChunks, QueueDecoded(t, n)
      PROVE  OrderInv'
  <2>1. prod'.at = t /\ prod'.left = n
    BY <1>2 DEF QueueDecoded
  <2>2. t = (t + 0) % StampMod /\ 0 \in Nat
    BY CapacityAssumption DEF Stamps
  <2>3. 0 + n <= MaxChunks /\ n \in Nat \ {0}
    BY CapacityAssumption
  <2>4. ChunksLeft'
    BY <2>1, <2>2, <2>3 DEF ChunksLeft
  <2> QED
    BY <1>1, <1>2, <2>4 DEF QueueDecoded
<1>3. ASSUME InsertChunk PROVE OrderInv'
  BY <1>0, <1>3, InsertOrdered DEF InsertChunk, OrderInv
<1>4. ASSUME EvictAndInsertChunk PROVE OrderInv'
  <2>1. sorted # <<>>
    BY <1>0, <1>4, CapacityAssumption, EmptySeq DEF EvictAndInsertChunk
  <2> QED
    BY <1>4, <2>1, OldestGone, InsertOrdered DEF EvictAndInsertChunk, OrderInv
<1>5. ASSUME RefuseChunk PROVE OrderInv'
  BY <1>1, <1>5 DEF RefuseChunk, Idle, ChunksLeft
<1>6. ASSUME GiveToken PROVE OrderInv'
  <2>1. CASE prod.left > 1
    <3>1. PICK s \in Starts, k \in Nat :
            prod.at = (s + k) % StampMod /\ k + prod.left <= MaxChunks
      BY <1>6 DEF GiveToken, OrderInv, ChunksLeft
    <3>2. prod.left \in Nat /\ MaxChunks \in Nat /\ s \in Nat /\ StampMod \in Nat \ {0}
      BY CapacityAssumption DEF IInv, TypeOK, Stamps
    <3>3. prod'.at = (prod.at + 1) % StampMod /\ prod'.left = prod.left - 1
      BY <1>6, <2>1 DEF GiveToken, NextChunk
    <3>4. prod'.at = (s + (k + 1)) % StampMod
      <4>1. s + k \in Nat /\ (s + k) + 1 = s + (k + 1)
        BY <3>2
      <4>2. (((s + k) % StampMod) + 1) % StampMod = ((s + k) + 1) % StampMod
        BY <3>2, <4>1, NextStamp
      <4> QED
        BY <3>1, <3>3, <4>1, <4>2
    <3>5. k + 1 \in Nat /\ (k + 1) + prod'.left <= MaxChunks /\ prod'.left \in Nat \ {0}
      BY <2>1, <3>1, <3>2, <3>3
    <3>6. ChunksLeft'
      BY <3>4, <3>5 DEF ChunksLeft
    <3> QED
      BY <1>1, <1>6, <3>6 DEF GiveToken
  <2>2. CASE ~(prod.left > 1)
    BY <1>1, <1>6, <2>2 DEF GiveToken, NextChunk, Idle, ChunksLeft
  <2> QED
    BY <2>1, <2>2
<1>7. ASSUME TakeToken PROVE OrderInv'
  BY <1>1, <1>7 DEF TakeToken, OrderInv, ChunksLeft
<1>8. ASSUME TakeFrame PROVE OrderInv'
  <2>1. Tail(sorted) \in Seq(Slots) /\ InOrder(Tail(sorted))
    BY <1>8, OldestGone DEF TakeFrame, OrderInv
  <2>2. InOrder(sorted)'
    BY <1>8, <2>1, SameOrder DEF TakeFrame
  <2> QED
    BY <1>8, <2>2 DEF TakeFrame, OrderInv, ChunksLeft
<1>9. ASSUME TakeNothing PROVE OrderInv'
  BY <1>1, <1>9 DEF TakeNothing, OrderInv, ChunksLeft
<1>10. ASSUME ReturnSlot PROVE OrderInv'
  BY <1>1, <1>10 DEF ReturnSlot, OrderInv, ChunksLeft
<1>11. ASSUME NEW task \in Tasks, Clear(task) PROVE OrderInv'
  <2>1. sorted' = <<>> /\ Len(sorted') = 0 /\ <<>> \in Seq(Slots)
    BY <1>11, EmptySeq DEF Clear
  <2>2. Len(Times(<<>>)) = 0
    BY EmptySeq DEF Times
  <2>3. InOrder(<<>>)
    BY <2>1, <2>2, EmptySeq DEF InOrder, Queue!Ordered
  <2>4. InOrder(sorted)'
    BY <1>11, <2>1, <2>3, SameOrder DEF Clear
  <2> QED
    BY <1>11, <2>4 DEF Clear, OrderInv, ChunksLeft
<1>12. ASSUME NEW task \in Tasks, DrainToken(task) PROVE OrderInv'
  BY <1>1, <1>12 DEF DrainToken, OrderInv, ChunksLeft
<1>13. ASSUME NEW task \in Tasks, DrainDone(task) PROVE OrderInv'
  BY <1>1, <1>13 DEF DrainDone, OrderInv, ChunksLeft
<1>14. CASE UNCHANGED vars
  BY <1>1, <1>14 DEF vars, OrderInv, ChunksLeft
<1> QED
  BY <1>2, <1>3, <1>4, <1>5, <1>6, <1>7, <1>8, <1>9, <1>10, <1>11, <1>12, <1>13, <1>14
  DEF Next, Produce, Consume, Flush

LEMMA OrderShows == IInv /\ OrderInv => SortedByRtp
<1> SUFFICES ASSUME IInv, OrderInv PROVE SortedByRtp
  OBVIOUS
<1>1. /\ Len(Times(sorted)) = Len(sorted)
      /\ \A i \in 1 .. Len(sorted) : Times(sorted)[i] = stamp[sorted[i]]
  BY TimesOf DEF IInv, TypeOK, OrderInv, InOrder
<1> QED
  BY <1>1 DEF SortedByRtp, OrderInv, InOrder, Queue!Ordered

(* The index stays in RTP order whatever order the frames arrive in, across *)
(* the timestamp wrap and under every interleaving with take and flush, so *)
(* long as the sender keeps to a window ts_cmp orders.                   *)
THEOREM IndexInOrder == Spec => []SortedByRtp
  BY InitIInv, NextIInv, InitOrderInv, NextOrderInv, OrderShows, PTL DEF Spec

-----------------------------------------------------------------------------
(* The search.  q holds K frames older than t, in front of all the others; *)
(* an interval that K is in shrinks onto K.                              *)

LEMMA Halving ==
  ASSUME NEW lo \in Int, NEW hi \in Int, lo < hi
  PROVE  /\ lo + (hi - lo) \div 2 \in Int
         /\ lo <= lo + (hi - lo) \div 2
         /\ lo + (hi - lo) \div 2 < hi
<1>1. PICK d \in Nat : d = hi - lo /\ d > 0
  OBVIOUS
<1>2. d \div 2 \in Int /\ 0 <= d \div 2 /\ d \div 2 < d
  BY <1>1, SMTT(20)
<1> QED
  BY <1>1, <1>2

LEMMA SearchFinds ==
  ASSUME NEW q \in Seq(Slots), NEW t \in Window, InOrder(q)
  PROVE  BinarySearchPos(q, t) = InsertPos(q, t)
<1> DEFINE n == Len(q)
           D == (0 .. n) \X (0 .. n)
           Mid(r) == r[1] + (r[2] - r[1]) \div 2
           Older(m) == TsCmp(stamp[q[m + 1]], t) < 0
           Body(f, r) == IF r[1] >= r[2] THEN r[1]
                         ELSE IF Older(Mid(r)) THEN f[<<Mid(r) + 1, r[2]>>]
                         ELSE f[<<r[1], Mid(r)>>]
           search == CHOOSE f : f = [r \in D |-> Body(f, r)]
<1>1. BinarySearchPos(q, t) = search[<<0, n>>] + 1
  BY DEF BinarySearchPos
<1>2. n \in Nat
  BY LenProperties
<1>3. PICK K \in 0 .. n : InsertPos(q, t) = K + 1 /\ \A m \in 0 .. n - 1 : Older(m) <=> m < K
  <2>1. /\ InsertPos(q, t) \in 1 .. n + 1
        /\ \A i \in 1 .. n : TsCmp(stamp[q[i]], t) < 0 <=> i < InsertPos(q, t)
    BY PlaceInOrder DEF InOrder
  <2> DEFINE K == InsertPos(q, t) - 1
  <2>2. K \in 0 .. n /\ InsertPos(q, t) = K + 1
    BY <1>2, <2>1
  <2>3. ASSUME NEW m \in 0 .. n - 1
        PROVE  Older(m) <=> m < K
    <3>1. m + 1 \in 1 .. n
      BY <1>2
    <3>2. Older(m) <=> m + 1 < InsertPos(q, t)
      BY <2>1, <3>1
    <3> HIDE DEF Older, K
    <3> QED
      BY <1>2, <2>2, <3>2
  <2> QED
    BY <2>2, <2>3
<1> HIDE DEF Older, n
<1>4. ASSUME NEW lo \in 0 .. n, NEW hi \in 0 .. n, lo < hi
      PROVE  /\ Mid(<<lo, hi>>) \in lo .. hi - 1
             /\ <<Mid(<<lo, hi>>) + 1, hi>> \in D /\ <<lo, Mid(<<lo, hi>>)>> \in D
             /\ Older(Mid(<<lo, hi>>)) <=> Mid(<<lo, hi>>) < K
  <2>1. Mid(<<lo, hi>>) = lo + (hi - lo) \div 2
    OBVIOUS
  <2>2. Mid(<<lo, hi>>) \in Int /\ lo <= Mid(<<lo, hi>>) /\ Mid(<<lo, hi>>) < hi
    BY <1>2, <1>4, <2>1, Halving
  <2> HIDE DEF Mid
  <2>3. Mid(<<lo, hi>>) \in 0 .. n - 1
    BY <1>2, <2>2
  <2> QED
    BY <1>2, <1>3, <2>2, <2>3
<1> HIDE DEF Mid
(* The equation of the recursion has a solution ...                      *)
<1>5. search = [r \in D |-> Body(search, r)]
  <2> DEFINE Nearest(r) == IF r[1] >= r[2] \/ K < r[1] THEN r[1]
                           ELSE IF K > r[2] THEN r[2] ELSE K
             g == [r \in D |-> Nearest(r)]
  <2>1. ASSUME NEW lo \in 0 .. n, NEW hi \in 0 .. n
        PROVE  Nearest(<<lo, hi>>) = Body(g, <<lo, hi>>)
    <3>1. CASE lo >= hi
      BY <3>1
    <3>2. CASE lo < hi
      <4>0. \A x, y \in 0 .. n : g[<<x, y>>] = IF x >= y \/ K < x THEN x ELSE IF K > y THEN y ELSE K
        OBVIOUS
      <4> DEFINE m == Mid(<<lo, hi>>)
      <4> HIDE DEF g
      <4>1. m \in lo .. hi - 1 /\ (Older(m) <=> m < K)
        BY <1>4, <3>2
      <4>2. Body(g, <<lo, hi>>) = IF Older(m) THEN g[<<m + 1, hi>>] ELSE g[<<lo, m>>]
        BY <1>2, <3>2
      <4>3. m + 1 \in 0 .. n /\ m \in 0 .. n
        BY <1>2, <4>1
      <4>4. /\ g[<<m + 1, hi>>] = IF m + 1 >= hi \/ K < m + 1 THEN m + 1 ELSE IF K > hi THEN hi ELSE K
            /\ g[<<lo, m>>] = IF lo >= m \/ K < lo THEN lo ELSE IF K > m THEN m ELSE K
        BY <4>0, <4>3
      <4>5. Nearest(<<lo, hi>>) = IF K < lo THEN lo ELSE IF K > hi THEN hi ELSE K
        BY <1>2, <3>2
      <4> HIDE DEF m, Nearest, Body
      <4>6. K \in Int /\ m \in Int /\ lo \in Int /\ hi \in Int /\ lo <= m /\ m < hi
        BY <1>2, <1>3, <4>1
      <4>7. CASE Older(m)
        <5>1. Body(g, <<lo, hi>>) = g[<<m + 1, hi>>] /\ m < K
          BY <4>1, <4>2, <4>7
        <5> QED
          BY <3>2, <4>4, <4>5, <4>6, <5>1
      <4>8. CASE ~Older(m)
        <5>1. Body(g, <<lo, hi>>) = g[<<lo, m>>] /\ ~(m < K)
          BY <4>1, <4>2, <4>8
        <5> QED
          BY <3>2, <4>4, <4>5, <4>6, <5>1
      <4> QED
        BY <4>7, <4>8
    <3> QED
      BY <1>2, <3>1, <3>2
  <2>2. \A r \in D : Nearest(r) = Body(g, r)
    <3> SUFFICES ASSUME NEW r \in D PROVE Nearest(r) = Body(g, r)
      OBVIOUS
    <3>1. PICK lo \in 0 .. n, hi \in 0 .. n : r = <<lo, hi>>
      OBVIOUS
    <3> HIDE DEF Nearest, Body, g
    <3> QED
      BY <2>1, <3>1
  <2>3. g = [r \in D |-> Body(g, r)]
    <3> HIDE DEF Nearest, Body, D
    <3>1. \A r \in D : Nearest(r) = Body(g, r)
      BY <2>2
    <3> QED
      BY <3>1
  <2> HIDE DEF g, Body, D
  <2>4. \E f : f = [r \in D |-> Body(f, r)]
    BY <2>3
  <2> QED
    BY <2>4
(* ... and every solution finds K.                                       *)
<1> HIDE DEF search
<1> DEFINE Off(r) == r[1] <= K /\ K <= r[2] /\ search[r] # K
           T == {d \in Nat : \E lo, hi \in 0 .. n : hi = lo + d /\ Off(<<lo, hi>>)}
<1>6. T = {}
  <2> SUFFICES ASSUME T # {} PROVE FALSE
    OBVIOUS
  <2>1. T \in SUBSET Nat
    OBVIOUS
  <2>2. PICK d \in T : \A e \in T : d <= e
    <3> HIDE DEF T
    <3> QED
      BY <2>1, SmallestNat
  <2>3. PICK lo \in 0 .. n, hi \in 0 .. n : hi = lo + d /\ Off(<<lo, hi>>)
    OBVIOUS
  <2>4. \A x, y \in 0 .. n : x <= y /\ y - x < d => ~ Off(<<x, y>>)
    <3> SUFFICES ASSUME NEW x \in 0 .. n, NEW y \in 0 .. n, x <= y, y - x < d, Off(<<x, y>>)
                 PROVE  FALSE
      OBVIOUS
    <3> HIDE DEF Off
    <3>1. y - x \in T
      <4>1. y - x \in Nat /\ y = x + (y - x)
        BY <1>2
      <4> QED
        BY <4>1
    <3>2. d \in Nat
      BY <2>1
    <3> HIDE DEF T
    <3>3. d <= y - x
      BY <2>2, <3>1
    <3> QED
      BY <1>2, <3>2, <3>3
  <2>5. lo <= K /\ K <= hi /\ search[<<lo, hi>>] # K /\ d \in Nat
    BY <2>1, <2>3
  <2>6. <<lo, hi>> \in D
    OBVIOUS
  <2>7. search[<<lo, hi>>] = Body(search, <<lo, hi>>)
    <3> HIDE DEF Body, D
    <3> QED
      BY <1>5, <2>6
  <2>8. lo < hi
    <3> SUFFICES ASSUME lo >= hi PROVE FALSE
      BY <1>2
    <3>1. Body(search, <<lo, hi>>) = lo
      OBVIOUS
    <3>2. lo = K
      BY <1>2, <2>5
    <3> HIDE DEF Body
    <3> QED
      BY <2>5, <2>7, <3>1, <3>2
  <2> DEFINE m == Mid(<<lo, hi>>)
  <2>9. m \in lo .. hi - 1 /\ (Older(m) <=> m < K)
    BY <1>4, <2>8
  <2>10. Body(search, <<lo, hi>>) = IF Older(m) THEN search[<<m + 1, hi>>] ELSE search[<<lo, m>>]
    BY <1>2, <2>8
  <2> HIDE DEF Body, m
  <2>11. CASE Older(m)
    <3>1. m + 1 \in 0 .. n /\ m + 1 <= K /\ m + 1 <= hi /\ hi - (m + 1) < d
      BY <1>2, <1>3, <2>3, <2>5, <2>9, <2>11
    <3>2. ~ Off(<<m + 1, hi>>)
      <4> HIDE DEF Off
      <4> QED
        BY <2>4, <3>1
    <3>3. search[<<m + 1, hi>>] = K
      BY <2>5, <3>1, <3>2
    <3> QED
      BY <2>5, <2>7, <2>10, <2>11, <3>3
  <2>12. CASE ~ Older(m)
    <3>1. m \in 0 .. n /\ lo <= K /\ K <= m /\ lo <= m /\ m - lo < d
      BY <1>2, <1>3, <2>3, <2>5, <2>9, <2>12
    <3>2. ~ Off(<<lo, m>>)
      <4> HIDE DEF Off
      <4> QED
        BY <2>4, <3>1
    <3>3. search[<<lo, m>>] = K
      BY <2>5, <3>1, <3>2
    <3> QED
      BY <2>5, <2>7, <2>10, <2>12, <3>3
  <2> QED
    BY <2>11, <2>12
<1>7. search[<<0, n>>] = K
  <2>1. n \notin T
    BY <1>6
  <2>2. 0 \in 0 .. n /\ n \in 0 .. n /\ n = 0 + n /\ 0 <= K /\ K <= n
    BY <1>2, <1>3
  <2>3. ~ Off(<<0, n>>)
    <3> HIDE DEF Off
    <3> QED
      BY <1>2, <2>1, <2>2
  <2> QED
    BY <2>2, <2>3
<1> QED
  BY <1>1, <1>3, <1>7

(* sorted_insert_pos finds, on every buffer the program can build, the   *)
(* place behind all older frames and before all others: the binary search *)
(* neither runs off the array nor stops one short.                       *)
THEOREM SearchIsRight == Spec => []SearchFindsInsertPos
<1>1. IInv /\ OrderInv => SearchFindsInsertPos
  BY SearchFinds DEF IInv, TypeOK, OrderInv, SearchFindsInsertPos
<1> QED
  BY <1>1, InitIInv, NextIInv, InitOrderInv, NextOrderInv, PTL DEF Spec

-----------------------------------------------------------------------------
(* The refinement.                                                       *)
Hand == IF held = None THEN None ELSE stamp[held]

LEMMA NoTimes == Times(<<>>) = <<>>
<1>1. Len(<<>>) = 0
  BY EmptySeq
<1>2. Times(<<>>) \in Seq(Window) /\ Len(Times(<<>>)) = 0
  BY <1>1 DEF Times
<1> QED
  BY <1>2, EmptySeq

LEMMA SameTimes ==
  ASSUME sorted' = sorted, stamp' = stamp
  PROVE  Times(sorted)' = Times(sorted)
  BY DEF Times

(* A chunk goes into the queue, and the reader's frame stays as it is.   *)
LEMMA InsertIsPutInto ==
  ASSUME IInv, OrderInv, prod.pc = "chunk",
         NEW q \in Seq(Slots), NEW f \in Seq(Slots), f # <<>>,
         InOrder(q), OwnedOnce(q, f, held), Insert(q, f)
  PROVE  /\ prod.at \in Stamps
         /\ \E p \in 1 .. Len(Times(q)) + 1 :
              Times(sorted)' = Queue!InsertAt(Times(q), p, prod.at)
         /\ Queue!Ordered(Times(sorted)')
         /\ Hand' = Hand
<1>1. prod.at \in Stamps /\ stamp \in [Slots -> Stamps] /\ held \in Slots \cup {None}
  BY DEF IInv, TypeOK
<1>2. f[Len(f)] \in Slots /\ f[Len(f)] # held
  <2>1. Len(f) \in 1 .. Len(f)
    BY LenProperties, EmptySeq
  <2> QED
    BY <2>1, TopIsFresh DEF OwnedOnce
<1>3. stamp' = [stamp EXCEPT ![f[Len(f)]] = prod.at] /\ held' = held
  BY DEF Insert
<1>4. Hand' = Hand
  BY <1>1, <1>2, <1>3 DEF Hand
<1>5. /\ \E p \in 1 .. Len(Times(q)) + 1 : Times(sorted)' = InsertAt(Times(q), p, prod.at)
      /\ Queue!Ordered(Times(sorted)')
  BY InsertOrdered DEF OrderInv
<1>6. \A p : InsertAt(Times(q), p, prod.at) = Queue!InsertAt(Times(q), p, prod.at)
  BY DEF InsertAt, Queue!InsertAt
<1> QED
  BY <1>1, <1>4, <1>5, <1>6

LEMMA StepRefines ==
  IInv /\ OrderInv /\ [Next]_vars => [Queue!Next]_<<Times(sorted), Hand>>
<1> SUFFICES ASSUME IInv, OrderInv, [Next]_vars
             PROVE  Queue!Next \/ (Times(sorted)' = Times(sorted) /\ Hand' = Hand)
  OBVIOUS
<1>0. /\ sorted \in Seq(Slots) /\ free \in Seq(Slots) /\ OwnedOnce(sorted, free, held)
      /\ Len(Times(sorted)) = Len(sorted) /\ InOrder(sorted)
      /\ Len(sorted) \in Nat /\ Len(sorted) <= Capacity
  <2>1. sorted \in Seq(Slots) /\ free \in Seq(Slots) /\ OwnedOnce(sorted, free, held)
    BY DEF IInv, TypeOK, SlotConservation
  <2>2. Len(Times(sorted)) = Len(sorted) /\ InOrder(sorted)
    BY <2>1, TimesOf DEF OrderInv, InOrder
  <2>3. Len(sorted) \in Nat /\ Len(sorted) <= Capacity
    BY LenProperties, CapacityAssumption
    DEF IInv, TypeOK, SlotConservation, SlotAccounting, Holding
  <2> QED
    BY <2>1, <2>2, <2>3
<1>1. ASSUME UNCHANGED <<sorted, stamp, held>>
      PROVE  Times(sorted)' = Times(sorted) /\ Hand' = Hand
  BY <1>1, SameTimes DEF Hand
<1>2. ASSUME InsertChunk PROVE Queue!Next
  <2>1. Len(Times(sorted)) < Capacity
    BY <1>0, <1>2 DEF InsertChunk
  <2>2. PICK t \in Stamps :
          /\ \E p \in 1 .. Len(Times(sorted)) + 1 :
               Times(sorted)' = Queue!InsertAt(Times(sorted), p, t)
          /\ Queue!Ordered(Times(sorted)')
          /\ Hand' = Hand
    BY <1>0, <1>2, InsertIsPutInto DEF InsertChunk
  <2>3. Queue!Put(t)
    BY <2>1, <2>2 DEF Queue!Put, Queue!PutInto, Times, Hand
  <2> QED
    BY <2>2, <2>3 DEF Queue!Next
<1>3. ASSUME EvictAndInsertChunk PROVE Queue!Next
  <2>1. Len(Times(sorted)) = Capacity
    BY <1>0, <1>3, CapacityAssumption DEF EvictAndInsertChunk
  <2>2. sorted # <<>>
    BY <1>0, <1>3, CapacityAssumption, EmptySeq DEF EvictAndInsertChunk
  <2>3. /\ Tail(sorted) \in Seq(Slots) /\ InOrder(Tail(sorted))
        /\ Append(free, Head(sorted)) \in Seq(Slots) /\ Append(free, Head(sorted)) # <<>>
        /\ OwnedOnce(Tail(sorted), Append(free, Head(sorted)), held)
        /\ Times(Tail(sorted)) = Tail(Times(sorted))
    BY <1>0, <2>2, OldestGone
  <2>4. PICK t \in Stamps :
          /\ \E p \in 1 .. Len(Tail(Times(sorted))) + 1 :
               Times(sorted)' = Queue!InsertAt(Tail(Times(sorted)), p, t)
          /\ Queue!Ordered(Times(sorted)')
          /\ Hand' = Hand
    BY <1>3, <2>3, InsertIsPutInto DEF EvictAndInsertChunk
  <2>5. Queue!PutFull(t)
    BY <2>1, <2>4 DEF Queue!PutFull, Queue!PutInto, Times, Hand
  <2> QED
    BY <2>4, <2>5 DEF Queue!Next
<1>4. ASSUME TakeFrame PROVE Queue!Next
  <2>1. sorted # <<>> /\ held' = Head(sorted) /\ sorted' = Tail(sorted) /\ stamp' = stamp
    BY <1>4 DEF TakeFrame
  <2>2. held = None
    BY <1>4 DEF TakeFrame, IInv, SlotConservation, HeldIffHolding
  <2>3. /\ Tail(sorted) \in Seq(Slots)
        /\ Times(Tail(sorted)) = Tail(Times(sorted))
        /\ Times(sorted) # <<>> /\ Head(Times(sorted)) = stamp[Head(sorted)]
    BY <1>0, <2>1, OldestGone
  <2>4. Head(sorted) # None
    BY <1>0, <2>1, Take, CapacityAssumption
  <2>5. Times(sorted)' = Tail(Times(sorted))
    BY <2>1, <2>3 DEF Times
  <2>6. Hand = None /\ Hand' = Head(Times(sorted))
    BY <2>1, <2>2, <2>3, <2>4 DEF Hand
  <2>7. Queue!Get
    BY <2>3, <2>5, <2>6 DEF Queue!Get, Times, Hand
  <2> QED
    BY <2>7 DEF Queue!Next
<1>5. ASSUME ReturnSlot PROVE Queue!Next \/ (Times(sorted)' = Times(sorted) /\ Hand' = Hand)
  <2>1. Hand' = None /\ Times(sorted)' = Times(sorted)
    BY <1>5, SameTimes DEF ReturnSlot, Hand
  <2>2. CASE Hand = None
    BY <2>1, <2>2
  <2>3. CASE Hand # None
    <3>1. Queue!Done
      BY <2>1, <2>3 DEF Queue!Done, Times, Hand
    <3> QED
      BY <3>1 DEF Queue!Next
  <2> QED
    BY <2>2, <2>3
<1>6. ASSUME NEW task \in Tasks, Clear(task) PROVE Queue!Next
  <2>1. sorted' = <<>> /\ stamp' = stamp /\ held' = held
    BY <1>6 DEF Clear
  <2>2. Times(sorted)' = <<>>
    <3>1. Times(sorted)' = Times(<<>>)
      BY <2>1 DEF Times
    <3> QED
      BY <3>1, NoTimes
  <2>3. Hand' = Hand
    BY <2>1 DEF Hand
  <2>4. Queue!Clear
    BY <2>2, <2>3 DEF Queue!Clear, Times, Hand
  <2> QED
    BY <2>4 DEF Queue!Next
<1>7. CASE UNCHANGED vars
  BY <1>1, <1>7 DEF vars
<1> QED
  BY <1>1, <1>2, <1>3, <1>4, <1>5, <1>6, <1>7
  DEF Next, Produce, Consume, Flush, QueueDecoded, RefuseChunk, GiveToken, TakeToken,
      TakeNothing, DrainToken, DrainDone

(* To its two users the buffer is an ordered queue of at most Capacity   *)
(* timestamps: slots, the free stack, tokens and the lock never show, a  *)
(* take gives the oldest frame, only overflow drops one, and nothing     *)
(* touches the frame the consumer is copying.                            *)
THEOREM BufferIsJitterQueue == Spec => IsJitterQueue
<1>1. Init => Queue!Init
  BY NoTimes DEF Init, Queue!Init, Times
<1>2. IInv /\ OrderInv /\ [Next]_vars => [Queue!Next]_<<Times(sorted), Hand>>
  BY StepRefines
<1> QED
  BY <1>1, <1>2, InitIInv, NextIInv, InitOrderInv, NextOrderInv, PTL
  DEF Spec, IsJitterQueue, Queue!Spec, Times, Hand
=============================================================================
