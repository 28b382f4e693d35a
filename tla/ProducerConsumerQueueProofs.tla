---------------------- MODULE ProducerConsumerQueueProofs ----------------------
(***************************************************************************)
(* Proofs about ProducerConsumerQueue, for a ring of any size and any set  *)
(* of records.                                                             *)
(***************************************************************************)
EXTENDS ProducerConsumerQueue, SequenceTheorems, TLAPS

\* The index arithmetic of the ring stays inside the slots, and moving an index
\* forward changes the distances measured from and to it by one.
LEMMA IndexArithmetic ==
  ASSUME NEW i \in Slots, NEW j \in Slots
  PROVE  /\ NextIndex(i) \in Slots
         /\ NextIndex(i) # i
         /\ Distance(i, j) \in Slots
         /\ Distance(i, j) = 0 <=> i = j
         /\ i # j => Distance(NextIndex(i), j) = Distance(i, j) - 1
         /\ NextIndex(j) # i => Distance(i, NextIndex(j)) = Distance(i, j) + 1
BY SizeAssumption DEF Slots, NextIndex, Distance

\* The initial state satisfies the inductive invariant.
LEMMA RingInvInit == Init => RingInv
<1> SUFFICES ASSUME Init PROVE RingInv
  OBVIOUS
<1>1. TypeOK
  <2>1. alive \in BOOLEAN /\ popping \in BOOLEAN
    BY Zenon DEF Init
  <2>2. /\ 0 \in Slots
        /\ records \in [Slots -> Records \cup {NoRecord}]
    BY SizeAssumption DEF Init, Slots
  <2> QED
    BY <2>1, <2>2, Zenon DEF Init, TypeOK
<1>2. \A s \in Slots : records[s] = NoRecord /\ ~Occupied(s)
  BY SizeAssumption DEF Init, Slots, Occupied, Distance
<1> QED
  BY <1>1, <1>2 DEF Init, RingInv

\* Every step of the producer, the consumer and the destructor preserves it.
LEMMA RingInvNext == RingInv /\ [Next]_vars => RingInv'
<1> SUFFICES ASSUME RingInv, [Next]_vars PROVE RingInv'
  OBVIOUS
<1> USE SizeAssumption, RecordsAssumption DEF RingInv, TypeOK
<1>1. ASSUME NEW r \in Records, WriteBegin(r) PROVE RingInv'
  BY <1>1 DEF WriteBegin, rvars, Occupied
<1>2. CASE WriteCheck
  BY <1>2 DEF WriteCheck, rvars, Occupied
<1>3. CASE WriteConstruct
  BY <1>3, IndexArithmetic DEF WriteConstruct, rvars, Occupied
<1>4. CASE WritePublish
  <2>1. TypeOK'
    BY <1>4, IndexArithmetic DEF WritePublish, rvars
  <2>2. \A s \in Slots : Occupied(s)' <=> Occupied(s) \/ s = writeIndex
    <3> TAKE s \in Slots
    <3>1. /\ Occupied(s) <=> Distance(readIndex, s) < Distance(readIndex, writeIndex)
          /\ Occupied(s)' <=> Distance(readIndex, s) < Distance(readIndex, NextIndex(writeIndex))
      BY <1>4 DEF WritePublish, Occupied
    <3> QED
      BY <1>4, <3>1 DEF WritePublish, Slots, Distance, NextIndex
  <2>3. ~Occupied(writeIndex)
    BY DEF Occupied, Slots, Distance
  <2> QED
    BY <1>4, <2>1, <2>2, <2>3, IndexArithmetic DEF WritePublish, rvars
<1>5. CASE ReadBegin
  BY <1>5 DEF ReadBegin, wvars, Occupied
<1>6. CASE ReadCheck
  BY <1>6 DEF ReadCheck, wvars, Occupied
<1>7. CASE ReadMove
  <2>1. Occupied(readIndex)
    BY <1>7 DEF ReadMove, Occupied, Distance, Slots
  <2>2. records[readIndex] # NoRecord
    BY <1>7, <2>1 DEF ReadMove
  <2>3. record' = records[readIndex] /\ record' \in Records
    BY <1>7, <2>2 DEF ReadMove
  <2>4. \A s \in Slots : Occupied(s)' <=> Occupied(s)
    BY <1>7 DEF ReadMove, Occupied
  <2> QED
    BY <1>7, <2>2, <2>3, <2>4 DEF ReadMove, wvars
<1>8. CASE PopFrontBegin
  <2>1. Occupied(readIndex)
    BY <1>8 DEF PopFrontBegin, Occupied, Distance, Slots
  <2>2. records[readIndex] # NoRecord
    BY <1>8, <2>1 DEF PopFrontBegin
  <2>3. record' = records[readIndex] /\ record' \in Records
    BY <1>8, <2>2 DEF PopFrontBegin
  <2>4. \A s \in Slots : Occupied(s)' <=> Occupied(s)
    BY <1>8 DEF PopFrontBegin, Occupied
  <2> QED
    BY <1>8, <2>2, <2>3, <2>4 DEF PopFrontBegin, wvars
<1>9. CASE ReadDestroy
  BY <1>9, IndexArithmetic DEF ReadDestroy, wvars, Occupied
<1>10. CASE ReadPublish
  <2>1. TypeOK'
    BY <1>10, IndexArithmetic DEF ReadPublish, wvars
  <2>2. \A s \in Slots : Occupied(s)' <=> Occupied(s) /\ s # readIndex
    <3> TAKE s \in Slots
    <3>1. /\ Occupied(s) <=> Distance(readIndex, s) < Distance(readIndex, writeIndex)
          /\ Occupied(s)' <=> Distance(NextIndex(readIndex), s) < Distance(NextIndex(readIndex), writeIndex)
      BY <1>10 DEF ReadPublish, Occupied
    <3> QED
      BY <1>10, <3>1 DEF ReadPublish, Slots, Distance, NextIndex
  <2>3. wpc \in {"construct", "publish"} => NextIndex(writeIndex) # NextIndex(readIndex)
    BY <1>10 DEF ReadPublish, Slots, NextIndex
  <2> QED
    BY <1>10, <2>1, <2>2, <2>3, IndexArithmetic DEF ReadPublish, wvars
<1>11. CASE Destructor
  BY <1>11 DEF Destructor, wvars, rvars, Occupied
<1>12. CASE UNCHANGED vars
  BY <1>12 DEF vars, wvars, rvars, Occupied
<1> QED
  BY <1>1, <1>2, <1>3, <1>4, <1>5, <1>6, <1>7, <1>8, <1>9, <1>10, <1>11, <1>12
     DEF Next, Producer, Consumer

\* RingInv, and with it the typing of every variable, holds in every reachable
\* state of the ring, whatever its size.
THEOREM RingInvariant == Spec => []RingInv
BY RingInvInit, RingInvNext, PTL DEF Spec

\* write() constructs only over raw memory and read() and popFront() move and
\* destroy only constructed records, for every size of the ring.
THEOREM SlotDisciplineHolds == Spec => []SlotDiscipline
<1>1. RingInv => SlotDiscipline
  <2> SUFFICES ASSUME RingInv PROVE SlotDiscipline
    OBVIOUS
  <2>1. ~Occupied(writeIndex)
    BY SizeAssumption DEF RingInv, TypeOK, Occupied, Distance, Slots
  <2>2. readIndex # writeIndex => Occupied(readIndex)
    BY SizeAssumption DEF RingInv, TypeOK, Occupied, Distance, Slots
  <2> QED
    BY <2>1, <2>2 DEF RingInv, TypeOK, SlotDiscipline
<1> QED
  BY RingInvariant, <1>1, PTL

\* The producer and the consumer never work on the same slot.
THEOREM NoSlotRaceHolds == Spec => []NoSlotRace
<1>1. RingInv => NoSlotRace
  BY DEF RingInv, NoSlotRace
<1> QED
  BY RingInvariant, <1>1, PTL

\* Once the queue object is gone no slot holds a record.
THEOREM NoRecordLeakedHolds == Spec => []NoRecordLeaked
<1>1. RingInv => NoRecordLeaked
  BY DEF RingInv, NoRecordLeaked
<1> QED
  BY RingInvariant, <1>1, PTL

--------------------------------------------------------------------------------
(* The ring implements a bounded FIFO. *)

\* What the refinement needs besides RingInv: a record stays what it was offered as
\* until it is published, and what the consumer destroys is what it has moved.
CarryInv ==
  /\ wpc = "idle" => arg = NoRecord
  /\ wpc = "publish" => records[writeIndex] = arg
  /\ rpc = "destroy" => record = records[readIndex]

\* n records from slot r on, the first of which is front while the consumer removes it.
FromSlot(n, recs, r, pc, front) ==
  [i \in 1 .. n |-> IF i = 1 /\ pc = "publish" THEN front ELSE recs[(r + i - 1) % Size]]

\* What a slot, the argument of write() or the reference of read() may hold.
Values == Records \cup {NoRecord}

\* Wrapping at Size and counting slots from an index fit together.
LEMMA SlotAt ==
  ASSUME NEW r \in Slots, NEW i \in 1 .. Size
  PROVE  (r + i - 1) % Size \in Slots /\ Distance(r, (r + i - 1) % Size) = i - 1
<1>1. Size \in Nat /\ Size >= 2 /\ r \in Nat /\ r < Size /\ i \in Nat /\ i >= 1 /\ i <= Size
  BY SizeAssumption DEF Slots
<1>2. CASE r + i - 1 < Size
  <2>1. (r + i - 1) % Size = r + i - 1
    BY <1>1, <1>2
  <2> QED
    BY <1>1, <1>2, <2>1 DEF Slots, Distance
<1>3. CASE ~(r + i - 1 < Size)
  <2>1. r + i - 1 - Size \in Nat /\ r + i - 1 - Size < Size
    BY <1>1, <1>3
  <2>2. (r + i - 1) % Size = r + i - 1 - Size
    BY <1>1, <2>1
  <2> QED
    BY <1>1, <1>3, <2>1, <2>2 DEF Slots, Distance
<1> QED
  BY <1>2, <1>3

\* Slots at the same distance from readIndex_ are the same slot.
LEMMA DistanceInjective ==
  ASSUME NEW r \in Slots, NEW a \in Slots, NEW b \in Slots, Distance(r, a) = Distance(r, b)
  PROVE  a = b
BY SizeAssumption DEF Slots, Distance

\* The published records form a sequence as long as the indices are apart.
LEMMA FromSlotSeq ==
  ASSUME NEW n \in 0 .. Size, NEW recs \in [Slots -> Values], NEW r \in Slots, NEW pc,
         NEW front \in Values
  PROVE  /\ FromSlot(n, recs, r, pc, front) \in Seq(Values)
         /\ Len(FromSlot(n, recs, r, pc, front)) = n
<1> DEFINE s == FromSlot(n, recs, r, pc, front)
<1>1. n \in Nat /\ \A i \in 1 .. n : i \in 1 .. Size
  BY SizeAssumption
<1>2. \A i \in 1 .. n : recs[(r + i - 1) % Size] \in Values
  BY <1>1, SlotAt
<1>3. s \in [1 .. n -> Values]
  BY <1>2 DEF FromSlot
<1> HIDE DEF s
<1> QED
  BY <1>1, <1>3 DEF s

\* A record published behind the others is appended to them.
LEMMA FromSlotAppend ==
  ASSUME NEW recs \in [Slots -> Values], NEW r \in Slots, NEW w \in Slots,
         NEW pc, NEW front \in Values, pc = "publish" => r # w, NextIndex(w) # r
  PROVE  FromSlot(Distance(r, NextIndex(w)), recs, r, pc, front)
           = Append(FromSlot(Distance(r, w), recs, r, pc, front), recs[w])
<1> DEFINE n == Distance(r, w)
           s == FromSlot(n, recs, r, pc, front)
           t == FromSlot(n + 1, recs, r, pc, front)
<1>1. /\ n \in Slots /\ Distance(r, NextIndex(w)) = n + 1 /\ n + 1 \in Slots
      /\ pc = "publish" => n # 0
  BY IndexArithmetic
<1>2. n \in 0 .. Size /\ n + 1 \in 0 .. Size /\ n + 1 \in 1 .. Size /\ n \in Nat
  BY <1>1, SizeAssumption DEF Slots
<1>3. s \in Seq(Values) /\ Len(s) = n /\ t \in Seq(Values) /\ Len(t) = n + 1
  BY <1>2, FromSlotSeq
<1>4. (r + (n + 1) - 1) % Size = w
  <2>1. /\ (r + (n + 1) - 1) % Size \in Slots
        /\ Distance(r, (r + (n + 1) - 1) % Size) = (n + 1) - 1
    <3> HIDE DEF n
    <3> QED
      BY <1>2, SlotAt
  <2>2. (n + 1) - 1 = n
    BY <1>2
  <2> QED
    BY <2>1, <2>2, DistanceInjective
<1>5. recs[w] \in Values
  OBVIOUS
<1>6. t[n + 1] = recs[w]
  <2>1. ~(n + 1 = 1 /\ pc = "publish")
    BY <1>1, <1>2
  <2>2. n + 1 \in 1 .. n + 1
    BY <1>2
  <2> HIDE DEF n
  <2> QED
    BY <1>4, <2>1, <2>2 DEF FromSlot
<1>7. \A i \in 1 .. n : t[i] = s[i]
  <2> TAKE i \in 1 .. n
  <2>1. i \in 1 .. n + 1
    BY <1>2
  <2> HIDE DEF n
  <2> QED
    BY <2>1 DEF FromSlot
<1> DEFINE u == Append(s, recs[w])
<1> HIDE DEF s, t, n
<1>8. /\ u \in Seq(Values) /\ Len(u) = n + 1
      /\ \A i \in 1 .. n : u[i] = s[i]
      /\ u[n + 1] = recs[w]
  BY <1>3, <1>5, AppendProperties
<1>9. \A i \in 1 .. n + 1 : i \in 1 .. n \/ i = n + 1
  BY <1>2
<1> HIDE DEF u
<1>10. t = u
  BY <1>3, <1>6, <1>7, <1>8, <1>9, SeqEqual
<1> QED
  BY <1>1, <1>10 DEF t, u, s, n

\* Moving the read index on takes the first record away.
LEMMA FromSlotTail ==
  ASSUME NEW recs \in [Slots -> Values], NEW r \in Slots, NEW w \in Slots,
         NEW front \in Values, r # w
  PROVE  LET s == FromSlot(Distance(r, w), recs, r, "publish", front)
             t == FromSlot(Distance(NextIndex(r), w), recs, NextIndex(r), "idle", NoRecord)
         IN  s # <<>> /\ Head(s) = front /\ t = Tail(s)
<1> DEFINE n == Distance(r, w)
           q == NextIndex(r)
           s == FromSlot(n, recs, r, "publish", front)
           t == FromSlot(n - 1, recs, q, "idle", NoRecord)
<1>1. n \in Slots /\ n # 0 /\ Distance(q, w) = n - 1 /\ q \in Slots
  BY IndexArithmetic
<1>2. n \in 1 .. Size /\ n \in 0 .. Size /\ n - 1 \in 0 .. Size /\ n \in Nat
  BY <1>1, SizeAssumption DEF Slots
<1>3. s \in Seq(Values) /\ Len(s) = n
  <2> HIDE DEF n
  <2> QED
    BY <1>2, FromSlotSeq
<1>4. t \in Seq(Values) /\ Len(t) = n - 1
  <2>1. NoRecord \in Values
    BY DEF Values
  <2> HIDE DEF n, q
  <2> QED
    BY <1>1, <1>2, <2>1, FromSlotSeq
<1>5. s # <<>>
  <2> HIDE DEF n, s
  <2> QED
    BY <1>2, <1>3
<1>6. s[1] = front
  <2>1. 1 \in 1 .. n
    BY <1>2
  <2> HIDE DEF n
  <2>2. s = [i \in 1 .. n |-> IF i = 1 /\ "publish" = "publish" THEN front ELSE recs[(r + i - 1) % Size]]
    BY Zenon DEF FromSlot
  <2>3. s[1] = IF 1 = 1 /\ "publish" = "publish" THEN front ELSE recs[(r + 1 - 1) % Size]
    BY <2>1, <2>2, Zenon
  <2> QED
    BY <2>3, Zenon
<1>7. \A i \in 1 .. n - 1 : t[i] = s[i + 1]
  <2> TAKE i \in 1 .. n - 1
  <2> HIDE DEF n
  <2>1. i \in 1 .. Size /\ i + 1 \in 1 .. Size /\ i + 1 \in 1 .. n /\ i + 1 # 1
    BY <1>2, SizeAssumption
  <2> DEFINE a == (q + i - 1) % Size
             b == (r + (i + 1) - 1) % Size
  <2>2. a \in Slots /\ Distance(q, a) = i - 1
    BY <1>1, <2>1, SlotAt
  <2>3. b \in Slots /\ Distance(r, b) = (i + 1) - 1
    BY <2>1, SlotAt
  <2> HIDE DEF a, b
  <2>4. Distance(r, b) # 0 /\ Distance(r, b) - 1 = i - 1
    BY <2>1, <2>3
  <2>5. Distance(q, b) = i - 1
    BY <2>3, <2>4, IndexArithmetic
  <2>6. a = b
    BY <1>1, <2>2, <2>3, <2>5, DistanceInjective
  <2>7. t[i] = recs[a]
    <3>1. t = [k \in 1 .. n - 1 |-> IF k = 1 /\ "idle" = "publish" THEN NoRecord ELSE recs[(q + k - 1) % Size]]
      BY Zenon DEF FromSlot
    <3> HIDE DEF t
    <3> QED
      BY <3>1, Zenon DEF a
  <2>8. s[i + 1] = recs[b]
    <3>1. s = [k \in 1 .. n |-> IF k = 1 /\ "publish" = "publish" THEN front ELSE recs[(r + k - 1) % Size]]
      BY Zenon DEF FromSlot
    <3> HIDE DEF s
    <3> QED
      BY <2>1, <3>1, Zenon DEF b
  <2> QED
    BY <2>6, <2>7, <2>8
<1> HIDE DEF s, t, n
<1>8. /\ Tail(s) \in Seq(Values) /\ Len(Tail(s)) = n - 1
      /\ \A i \in 1 .. n - 1 : Tail(s)[i] = s[i + 1]
  BY <1>3, <1>5, HeadTailProperties
<1>9. t = Tail(s)
  BY <1>4, <1>7, <1>8, SeqEqual
<1>10. Head(s) = front
  BY <1>3, <1>5, <1>6
<1> QED
  BY <1>1, <1>5, <1>9, <1>10 DEF s, t, n, q

\* While the ring exists, its contents lie between the two indices.
LEMMA ContentsBetween ==
  /\ alive => Contents = FromSlot(Distance(readIndex, writeIndex), records, readIndex, rpc, record)
  /\ alive' => Contents' = FromSlot(Distance(readIndex', writeIndex'), records', readIndex', rpc', record')
BY DEF Contents, FromSlot

\* What the refinement needs besides RingInv is inductive relative to it.
LEMMA CarryInvNext == RingInv /\ CarryInv /\ [Next]_vars => CarryInv'
<1> SUFFICES ASSUME RingInv, CarryInv, [Next]_vars PROVE CarryInv'
  OBVIOUS
<1> USE DEF RingInv, TypeOK, CarryInv
<1>1. ASSUME NEW r \in Records, WriteBegin(r) PROVE CarryInv'
  BY <1>1 DEF WriteBegin, rvars
<1>2. CASE WriteCheck
  BY <1>2 DEF WriteCheck, rvars
<1>3. CASE WriteConstruct
  BY <1>3 DEF WriteConstruct, rvars
<1>4. CASE WritePublish
  BY <1>4 DEF WritePublish, rvars
<1>5. CASE ReadBegin \/ ReadCheck \/ ReadMove \/ PopFrontBegin
  BY <1>5 DEF ReadBegin, ReadCheck, ReadMove, PopFrontBegin, wvars
<1>6. CASE ReadDestroy
  BY <1>6 DEF ReadDestroy, wvars
<1>7. CASE ReadPublish
  BY <1>7 DEF ReadPublish, wvars
<1>8. CASE Destructor
  BY <1>8 DEF Destructor, wvars, rvars
<1>9. CASE UNCHANGED vars
  BY <1>9 DEF vars, wvars, rvars
<1> QED
  BY <1>1, <1>2, <1>3, <1>4, <1>5, <1>6, <1>7, <1>8, <1>9 DEF Next, Producer, Consumer

\* Slots outside the contents may change: only those between the indices count, and
\* of the first one the copy, once the consumer is about to publish.
LEMMA FromSlotKept ==
  ASSUME NEW recs \in [Slots -> Values], NEW recs2 \in [Slots -> Values],
         NEW r \in Slots, NEW w \in Slots, NEW pc, NEW front, NEW pc2, NEW front2,
         \A s \in Slots : s # w /\ s # r => recs2[s] = recs[s],
         r # w => (IF pc2 = "publish" THEN front2 ELSE recs2[r]) = (IF pc = "publish" THEN front ELSE recs[r])
  PROVE  FromSlot(Distance(r, w), recs2, r, pc2, front2) = FromSlot(Distance(r, w), recs, r, pc, front)
<1> DEFINE n == Distance(r, w)
<1>1. n \in Slots /\ (n # 0 => r # w)
  BY IndexArithmetic
<1>2. n \in Nat /\ n < Size /\ Size \in Nat
  BY <1>1, SizeAssumption DEF Slots
<1> HIDE DEF n
<1>3. ASSUME NEW i \in 1 .. n
      PROVE  (IF i = 1 /\ pc2 = "publish" THEN front2 ELSE recs2[(r + i - 1) % Size])
               = (IF i = 1 /\ pc = "publish" THEN front ELSE recs[(r + i - 1) % Size])
  <2> DEFINE a == (r + i - 1) % Size
  <2>1. i \in 1 .. Size /\ i - 1 < n /\ i - 1 \in Nat /\ (i = 1 <=> i - 1 = 0) /\ n # 0
    BY <1>2
  <2>2. a \in Slots /\ Distance(r, a) = i - 1
    BY <2>1, SlotAt
  <2> HIDE DEF a
  <2>3. a # w
    BY <1>2, <2>1, <2>2 DEF n
  <2>4. a = r <=> i = 1
    BY <2>1, <2>2, IndexArithmetic
  <2>5. CASE i = 1
    BY <1>1, <2>1, <2>4, <2>5 DEF a
  <2>6. CASE i # 1
    BY <2>2, <2>3, <2>4, <2>6 DEF a
  <2> QED
    BY <2>5, <2>6
<1> QED
  BY <1>3, Zenon DEF FromSlot, n

\* The steps of the producer: an offer, its refusal when the ring is full, its
\* acceptance when writeIndex_ is stored, or nothing a user of the ring sees.
LEMMA ProducerRefines ==
  ASSUME RingInv, CarryInv, Producer
  PROVE  [Fifo!Next]_(Fifo!vars)
<1> DEFINE n == Distance(readIndex, writeIndex)
<1>1. /\ records \in [Slots -> Values] /\ readIndex \in Slots /\ writeIndex \in Slots
      /\ record \in Values /\ arg \in Values
  BY DEF RingInv, TypeOK, Values
<1>2. alive /\ alive' = alive
  BY DEF RingInv, Producer, WriteBegin, WriteCheck, WriteConstruct, WritePublish
<1>3. /\ Contents = FromSlot(n, records, readIndex, rpc, record)
      /\ Contents' = FromSlot(Distance(readIndex', writeIndex'), records', readIndex', rpc', record')
  BY <1>2, ContentsBetween
<1>4. n \in Slots /\ n \in 0 .. Size /\ n \in Nat /\ Size \in Nat
  <2>1. n \in Slots
    BY <1>1, IndexArithmetic
  <2> HIDE DEF n
  <2> QED
    BY <2>1, SizeAssumption DEF Slots
<1>5. Len(Contents) = n
  <2> HIDE DEF n
  <2> QED
    BY <1>1, <1>3, <1>4, FromSlotSeq
<1>6. ASSUME NEW r \in Records, WriteBegin(r) PROVE [Fifo!Next]_(Fifo!vars)
  <2>1. Contents' = Contents
    BY <1>3, <1>6 DEF WriteBegin, rvars
  <2>2. arg = NoRecord /\ arg' = r /\ out' = out
    BY <1>6 DEF WriteBegin, CarryInv, rvars
  <2>3. Fifo!Offer(r)
    BY <2>1, <2>2 DEF Fifo!Offer
  <2> QED
    BY <2>3 DEF Fifo!Next
<1>7. CASE WriteCheck
  <2>1. Contents' = Contents
    BY <1>3, <1>7 DEF WriteCheck, rvars
  <2>2. out' = out /\ arg # NoRecord /\ currentWrite = writeIndex
    BY <1>7 DEF WriteCheck, RingInv, rvars
  <2>3. CASE NextIndex(writeIndex) # readIndex
    BY <1>7, <2>1, <2>2, <2>3 DEF WriteCheck, Fifo!vars
  <2>4. CASE NextIndex(writeIndex) = readIndex
    <3>1. n = Size - 1
      BY <1>1, <2>4, SizeAssumption DEF NextIndex, Distance, Slots
    <3>2. arg' = NoRecord
      BY <1>7, <2>2, <2>4 DEF WriteCheck
    <3>3. Fifo!Refuse
      BY <1>5, <2>1, <2>2, <3>1, <3>2 DEF Fifo!Refuse
    <3> QED
      BY <3>3 DEF Fifo!Next
  <2> QED
    BY <2>3, <2>4
<1>8. CASE WriteConstruct
  <2>1. /\ records' = [records EXCEPT ![writeIndex] = arg]
        /\ UNCHANGED <<readIndex, writeIndex, arg, rpc, record, out>>
    BY <1>8 DEF WriteConstruct, RingInv, rvars
  <2>2. /\ records' \in [Slots -> Values]
        /\ \A s \in Slots : s # writeIndex => records'[s] = records[s]
    BY <1>1, <2>1
  <2>3. FromSlot(n, records', readIndex, rpc, record) = FromSlot(n, records, readIndex, rpc, record)
    BY <1>1, <2>2, FromSlotKept
  <2>4. Contents' = Contents
    BY <1>3, <2>1, <2>3
  <2> QED
    BY <2>1, <2>4 DEF Fifo!vars
<1>9. CASE WritePublish
  <2>1. /\ writeIndex' = NextIndex(writeIndex) /\ arg' = NoRecord
        /\ UNCHANGED <<records, readIndex, rpc, record, out>>
    BY <1>9 DEF WritePublish, RingInv, rvars
  <2>2. /\ NextIndex(writeIndex) # readIndex /\ arg # NoRecord /\ records[writeIndex] = arg
        /\ rpc = "publish" => readIndex # writeIndex
    BY <1>9 DEF WritePublish, RingInv, CarryInv
  <2>3. Contents' = Append(Contents, arg)
    <3>1. FromSlot(Distance(readIndex, NextIndex(writeIndex)), records, readIndex, rpc, record)
            = Append(FromSlot(n, records, readIndex, rpc, record), records[writeIndex])
      BY <1>1, <2>2, FromSlotAppend
    <3> QED
      BY <1>3, <2>1, <2>2, <3>1
  <2>4. n < Size - 1
    <3>1. Distance(readIndex, NextIndex(writeIndex)) = n + 1 /\ NextIndex(writeIndex) \in Slots
      BY <1>1, <2>2, IndexArithmetic
    <3>2. n + 1 \in Slots
      BY <1>1, <3>1, IndexArithmetic
    <3> HIDE DEF n
    <3> QED
      BY <1>4, <3>2 DEF Slots
  <2>5. Fifo!Accept
    BY <1>5, <2>1, <2>2, <2>3, <2>4 DEF Fifo!Accept
  <2> QED
    BY <2>5 DEF Fifo!Next
<1> QED
  BY <1>6, <1>7, <1>8, <1>9 DEF Producer

\* The steps of the consumer: the oldest record is taken or dropped when readIndex_ is
\* stored, and nothing is seen before.
LEMMA ConsumerRefines ==
  ASSUME RingInv, CarryInv, Consumer
  PROVE  [Fifo!Next]_(Fifo!vars)
<1> DEFINE n == Distance(readIndex, writeIndex)
<1>1. /\ records \in [Slots -> Values] /\ readIndex \in Slots /\ writeIndex \in Slots
      /\ record \in Values
  BY DEF RingInv, TypeOK, Values
<1>2. alive /\ alive' = alive /\ arg' = arg /\ writeIndex' = writeIndex
  BY DEF RingInv, Consumer, ReadBegin, ReadCheck, ReadMove, PopFrontBegin, ReadDestroy, ReadPublish, wvars
<1>3. /\ Contents = FromSlot(n, records, readIndex, rpc, record)
      /\ Contents' = FromSlot(Distance(readIndex', writeIndex'), records', readIndex', rpc', record')
  BY <1>2, ContentsBetween
<1>4. CASE ReadBegin \/ ReadCheck \/ ReadMove \/ PopFrontBegin
  <2>1. UNCHANGED <<records, readIndex, out>> /\ rpc # "publish" /\ rpc' # "publish"
    BY <1>4 DEF ReadBegin, ReadCheck, ReadMove, PopFrontBegin
  <2>2. FromSlot(n, records, readIndex, rpc', record') = FromSlot(n, records, readIndex, rpc, record)
    BY <1>1, <2>1, FromSlotKept
  <2>3. Contents' = Contents
    BY <1>2, <1>3, <2>1, <2>2
  <2> QED
    BY <1>2, <2>1, <2>3 DEF Fifo!vars
<1>5. CASE ReadDestroy
  <2>1. /\ records' = [records EXCEPT ![readIndex] = NoRecord]
        /\ UNCHANGED <<readIndex, record, out>> /\ rpc = "destroy" /\ rpc' = "publish"
        /\ record = records[readIndex]
    BY <1>5 DEF ReadDestroy, RingInv, CarryInv
  <2>2. /\ records' \in [Slots -> Values]
        /\ \A s \in Slots : s # readIndex => records'[s] = records[s]
    BY <1>1, <2>1 DEF Values
  <2>3. FromSlot(n, records', readIndex, rpc', record) = FromSlot(n, records, readIndex, rpc, record)
    <3>1. (IF rpc' = "publish" THEN record ELSE records'[readIndex])
            = (IF rpc = "publish" THEN record ELSE records[readIndex])
      BY <2>1
    <3>2. \A s \in Slots : s # writeIndex /\ s # readIndex => records'[s] = records[s]
      BY <2>2
    <3>3. records' \in [Slots -> Values]
      BY <2>2
    <3> QED
      BY <1>1, <3>1, <3>2, <3>3, FromSlotKept
  <2>4. Contents' = Contents
    BY <1>2, <1>3, <2>1, <2>3
  <2> QED
    BY <1>2, <2>1, <2>4 DEF Fifo!vars
<1>6. CASE ReadPublish
  <2>1. /\ readIndex' = NextIndex(readIndex) /\ rpc = "publish" /\ rpc' = "idle"
        /\ record' = NoRecord /\ records' = records
        /\ out' = (IF popping THEN out ELSE record) /\ readIndex # writeIndex
    BY <1>6 DEF ReadPublish, RingInv
  <2>2. LET s == FromSlot(n, records, readIndex, "publish", record)
            t == FromSlot(Distance(NextIndex(readIndex), writeIndex), records, NextIndex(readIndex), "idle", NoRecord)
        IN  s # <<>> /\ Head(s) = record /\ t = Tail(s)
    BY <1>1, <2>1, FromSlotTail
  <2>3. Contents # <<>> /\ Head(Contents) = record /\ Contents' = Tail(Contents)
    BY <1>2, <1>3, <2>1, <2>2
  <2>4. CASE popping
    <3>1. Fifo!Drop
      BY <1>2, <2>1, <2>3, <2>4 DEF Fifo!Drop
    <3> QED
      BY <3>1 DEF Fifo!Next
  <2>5. CASE ~popping
    <3>1. Fifo!Take
      BY <1>2, <2>1, <2>3, <2>5 DEF Fifo!Take
    <3> QED
      BY <3>1 DEF Fifo!Next
  <2> QED
    BY <2>4, <2>5
<1> QED
  BY <1>4, <1>5, <1>6 DEF Consumer

\* The ring implements a bounded FIFO of Size - 1 records, for every size: records come
\* out once and in order, and write() fails only when the ring is full.
THEOREM ImplementsFifo == Spec => ImplementsBoundedFifo
<1>1. Init => Fifo!Init /\ CarryInv
  <2> SUFFICES ASSUME Init PROVE Fifo!Init /\ CarryInv
    OBVIOUS
  <2>1. Distance(readIndex, writeIndex) = 0
    BY SizeAssumption DEF Init, Distance
  <2>2. Contents = <<>>
    BY <2>1 DEF Contents
  <2> QED
    BY <2>2 DEF Init, Fifo!Init, CarryInv
<1>2. RingInv /\ CarryInv /\ [Next]_vars => [Fifo!Next]_(Fifo!vars)
  <2> SUFFICES ASSUME RingInv, CarryInv, [Next]_vars PROVE [Fifo!Next]_(Fifo!vars)
    OBVIOUS
  <2>1. CASE Destructor
    <3>1. ~alive' /\ arg = NoRecord /\ arg' = arg /\ out' = out
      BY <2>1 DEF Destructor, CarryInv, wvars, rvars
    <3>2. Contents' = <<>>
      BY <3>1 DEF Contents
    <3>3. Fifo!Discard
      BY <3>1, <3>2 DEF Fifo!Discard
    <3> QED
      BY <3>3 DEF Fifo!Next
  <2>2. CASE UNCHANGED vars
    BY <2>2 DEF vars, wvars, rvars, Contents, Fifo!vars
  <2> QED
    BY <2>1, <2>2, ProducerRefines, ConsumerRefines DEF Next
<1> QED
  BY <1>1, <1>2, RingInvariant, CarryInvNext, PTL DEF Spec, ImplementsBoundedFifo, Fifo!Spec
================================================================================
