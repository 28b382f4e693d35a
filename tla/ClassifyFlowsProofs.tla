-------------------------- MODULE ClassifyFlowsProofs ---------------------------
(***************************************************************************)
(* Proofs about ConnKey, for every set of addresses, ports and protocols,  *)
(* every word size and every growth of the map; and about ClassifyFlows,   *)
(* for frames of any size with any number of tags.                         *)
(***************************************************************************)
EXTENDS ClassifyFlows, TLAPS

(* The map: ConnKey. *)

\* ConnKeyEqual is an equivalence relation, as an unordered_map requires of its
\* equality: a chain of matches in either direction is again a match.
THEOREM EqualIsEquivalence ==
  ASSUME NEW k1 \in ConnKeys, NEW k2 \in ConnKeys, NEW k3 \in ConnKeys
  PROVE  /\ ConnKeyEqual(k1, k1)
         /\ ConnKeyEqual(k1, k2) => ConnKeyEqual(k2, k1)
         /\ ConnKeyEqual(k1, k2) /\ ConnKeyEqual(k2, k3) => ConnKeyEqual(k1, k3)
BY DEF ConnKeyEqual, forward_lookup, reverse_lookup

\* Equal keys have equal hashes, as an unordered_map requires, although the sum
\* of the five fields wraps.
THEOREM EqualKeysHashEqual ==
  ASSUME NEW k1 \in ConnKeys, NEW k2 \in ConnKeys, ConnKeyEqual(k1, k2)
  PROVE  ConnKeyHasher(k1) = ConnKeyHasher(k2)
<1>1. /\ k1.srcaddr \in Nat /\ k1.dstaddr \in Nat /\ k1.srcport \in Nat
      /\ k1.dstport \in Nat /\ k1.ipproto \in Nat
      /\ k2.srcaddr \in Nat /\ k2.dstaddr \in Nat /\ k2.srcport \in Nat
      /\ k2.dstport \in Nat /\ k2.ipproto \in Nat
  BY KeyAssumption DEF ConnKeys
<1>2. k1.srcaddr + k1.dstaddr + k1.srcport + k1.dstport + k1.ipproto
      = k2.srcaddr + k2.dstaddr + k2.srcport + k2.dstport + k2.ipproto
  BY <1>1 DEF ConnKeyEqual, forward_lookup, reverse_lookup
<1> QED
  BY <1>2 DEF ConnKeyHasher

\* In any map, find() sees every stored key that is equal to the one it is given:
\* searching a single bucket misses none.
LEMMA FindComplete ==
  ASSUME keys \subseteq ConnKeys, NEW e \in keys, NEW k \in ConnKeys,
         ConnKeyEqual(e, k)
  PROVE  e \in Find(k)
BY EqualKeysHashEqual DEF Find

\* The map only ever holds keys, in a bucket count it was given.
THEOREM TypeCorrect == Spec => []TypeOK
<1>1. Init => TypeOK
  BY DEF Init, TypeOK
<1>2. TypeOK /\ [Next]_vars => TypeOK'
  BY DEF TypeOK, Next, vars, Packet, Erase, Rehash
<1> QED
  BY <1>1, <1>2, PTL DEF Spec

\* The two directions of a connection never get two entries.
THEOREM OneEntryPerFlowHolds == Spec => []OneEntryPerFlow
<1>1. Init => OneEntryPerFlow
  BY DEF Init, OneEntryPerFlow
<1>2. TypeOK /\ OneEntryPerFlow /\ [Next]_vars => OneEntryPerFlow'
  <2> SUFFICES ASSUME TypeOK, OneEntryPerFlow, [Next]_vars PROVE OneEntryPerFlow'
    OBVIOUS
  <2>1. ASSUME NEW k \in ConnKeys, Packet(k) PROVE OneEntryPerFlow'
    <3>1. \A e \in keys : ~ConnKeyEqual(e, k) /\ ~ConnKeyEqual(k, e)
      BY <2>1, FindComplete, EqualIsEquivalence DEF Packet, TypeOK
    <3> QED
      BY <2>1, <3>1 DEF Packet, OneEntryPerFlow
  <2>2. ASSUME NEW k \in ConnKeys, Erase(k) PROVE OneEntryPerFlow'
    BY <2>2 DEF Erase, OneEntryPerFlow
  <2>3. ASSUME NEW n \in Buckets, Rehash(n) PROVE OneEntryPerFlow'
    BY <2>3 DEF Rehash, OneEntryPerFlow
  <2>4. CASE UNCHANGED vars
    BY <2>4 DEF vars, OneEntryPerFlow
  <2> QED
    BY <2>1, <2>2, <2>3, <2>4 DEF Next
<1> QED
  BY <1>1, <1>2, TypeCorrect, PTL DEF Spec

\* A packet of a stored flow finds that flow and no other, whichever way it goes
\* and however often the map was rehashed.
THEOREM FindsItsFlowHolds == Spec => []FindsItsFlow
<1>1. TypeOK /\ OneEntryPerFlow => FindsItsFlow
  <2> SUFFICES ASSUME TypeOK, OneEntryPerFlow,
                      NEW e \in keys, NEW k \in ConnKeys, ConnKeyEqual(e, k)
               PROVE  Find(k) = {e}
    BY DEF FindsItsFlow
  <2>1. e \in Find(k)
    BY FindComplete DEF TypeOK
  <2>2. ASSUME NEW x \in Find(k) PROVE x = e
    <3>1. x \in keys /\ ConnKeyEqual(x, k)
      BY <2>2 DEF Find
    <3>2. ConnKeyEqual(x, e)
      BY <3>1, EqualIsEquivalence DEF TypeOK
    <3> QED
      BY <3>1, <3>2 DEF OneEntryPerFlow
  <2> QED
    BY <2>1, <2>2
<1> QED
  BY <1>1, TypeCorrect, OneEntryPerFlowHolds, PTL

\* A packet finds only flows between the same two end points, with the same
\* protocol.
LEMMA FoundMatches == TypeOK => FindsNoOther
BY DEF TypeOK, FindsNoOther, Find, ConnKeyEqual, forward_lookup, reverse_lookup, ConnKeys

\* The test on the source address alone tells the directions apart.
LEMMA DirectionRight == TypeOK => DirectionMatches
BY DEF TypeOK, DirectionMatches, Direction, ConnKeyEqual, forward_lookup, reverse_lookup,
       ConnKeys

--------------------------------------------------------------------------------
(* From the frame to the map: ClassifyFlows. *)

\* The types of the parser's state; the length is an unsigned word.
FrameTypeInv ==
  /\ frame \in Frames \cup {NoFrame}
  /\ ptr \in Nat
  /\ len \in 0 .. Word - 1
  /\ key \in ConnKeys
  /\ pc \in {"idle", "ether", "ip", "transport", "insert", "throw", "undefined"}

\* What pointer and length stand for at each header.  At a VLAN tag the length is
\* only right while the pointer is inside the frame; behind the IP header it
\* belongs to the datagram, whose lengths nobody compares with its headers'.
AtHeader ==
  /\ pc = "ether" => /\ \E j \in 0 .. frame.tags : ptr = 12 + 4 * j
                     /\ ptr <= frame.size => len = frame.size - ptr
  /\ pc = "ip" => ptr = IpStart /\ ptr + len = frame.size
  /\ pc = "transport" =>
       /\ ptr = IpStart + 4 * frame.ihl
       /\ DatagramEnd <= frame.size
       /\ key.ipproto = frame.key.ipproto
       /\ ptr <= DatagramEnd => len = DatagramEnd - ptr
       /\ DatagramEnd < ptr => len = Word - (ptr - DatagramEnd)

\* The inductive invariant of classifyFlows().
ClassifyInv == TypeOK /\ FrameTypeInv /\ AtHeader /\ PayloadMatches /\ ReadsInside

\* Unsigned subtraction: exact if the result is not negative, else it wraps once.
LEMMA MinusValue ==
  ASSUME NEW a \in 0 .. Word - 1, NEW b \in 0 .. Word
  PROVE  /\ Minus(a, b) \in 0 .. Word - 1
         /\ b <= a => Minus(a, b) = a - b
         /\ a < b => Minus(a, b) = a - b + Word
<1>1. Word \in Nat \ {0}
  BY KeyAssumption
<1>2. CASE b <= a
  <2>1. a + Word - b = (a - b) + 1 * Word /\ a - b \in 0 .. Word - 1
    BY <1>1, <1>2
  <2>2. (a + Word - b) % Word = a - b
    BY <1>1, <2>1
  <2> QED
    BY <1>1, <1>2, <2>1, <2>2 DEF Minus
<1>3. CASE a < b
  <2>1. a + Word - b \in 0 .. Word - 1
    BY <1>1, <1>3
  <2>2. (a + Word - b) % Word = a + Word - b
    BY <1>1, <2>1
  <2> QED
    BY <1>1, <1>3, <2>1, <2>2 DEF Minus
<1> QED
  BY <1>1, <1>2, <1>3

\* Subtracting a second header of t bytes at p from the rest m of a datagram that
\* ends at e leaves its rest, or wraps once.
LEMMA SecondHeader ==
  ASSUME NEW e \in Nat, NEW p \in Nat, p - e <= 60, NEW t \in 0 .. 60,
         NEW m \in 0 .. Word - 1, NEW n \in 0 .. Word - 1,
         p <= e => m = e - p,
         e < p => m = Word - (p - e),
         t <= m => n = m - t,
         m < t => n = m - t + Word
  PROVE  /\ p + t <= e => p + t + n = e
         /\ e < p + t => n = Word - (p + t - e)
<1>1. Word \in Nat /\ Word >= 120
  BY KeyAssumption, FrameAssumption
<1>2. CASE p <= e
  BY <1>1, <1>2
<1>3. CASE e < p
  BY <1>1, <1>3
<1> QED
  BY <1>2, <1>3

\* The fields of a frame that is being handled, and of its absence.
LEMMA FrameFields ==
  ASSUME NEW f \in Frames \cup {NoFrame}
  PROVE  /\ f.size \in Nat /\ f.tags \in Nat /\ f.ip \in BOOLEAN
         /\ f.ihl \in 0 .. 15 /\ f.doff \in 0 .. 15 /\ f.tot_len \in Nat
         /\ f.key \in ConnKeys
         /\ f.size < Word /\ f.tot_len < Word
<1>1. NoKey \in ConnKeys
  BY FrameAssumption DEF NoKey, ConnKeys
<1>2. CASE f = NoFrame
  BY <1>1, <1>2, KeyAssumption DEF NoFrame
<1>3. CASE f \in Frames
  BY <1>3, FrameAssumption DEF FrameType
<1> QED
  BY <1>2, <1>3

\* Before the first frame.
LEMMA ClassifyInvInit == ClassifyInit => ClassifyInv
<1>1. NoKey \in ConnKeys /\ Word \in Nat \ {0}
  BY FrameAssumption, KeyAssumption DEF NoKey, ConnKeys
<1> QED
  BY <1>1 DEF ClassifyInit, Init, ClassifyInv, TypeOK, FrameTypeInv, AtHeader, PayloadMatches,
              ReadsInside

\* Every step from one header to the next keeps pointer and length right.
LEMMA ClassifyInvNext == ClassifyInv /\ [ClassifyNext]_allvars => ClassifyInv'
<1> SUFFICES ASSUME ClassifyInv, [ClassifyNext]_allvars PROVE ClassifyInv'
  OBVIOUS
<1> USE DEF ClassifyInv
<1>w. Word \in Nat \ {0} /\ Word >= 120 /\ NoKey \in ConnKeys
  BY FrameAssumption, KeyAssumption DEF NoKey, ConnKeys
<1>f. /\ frame.size \in Nat /\ frame.tags \in Nat
      /\ frame.ihl \in 0 .. 15 /\ frame.doff \in 0 .. 15 /\ frame.tot_len \in Nat
      /\ frame.key \in ConnKeys
      /\ frame.size < Word /\ frame.tot_len < Word
  BY FrameFields DEF FrameTypeInv
<1>k. key.ipproto \in Nat /\ frame.key.ipproto \in Nat
  BY <1>f, KeyAssumption DEF FrameTypeInv, ConnKeys
<1>r. ASSUME Return, TypeOK' PROVE ClassifyInv'
  BY <1>r, <1>w DEF Return, FrameTypeInv, AtHeader, PayloadMatches, ReadsInside
<1>v. ASSUME UNCHANGED vars PROVE TypeOK'
  BY <1>v DEF vars, TypeOK
<1>1. ASSUME NEW f \in Frames, ReadFrame(f) PROVE ClassifyInv'
  <2>1. f.size \in 0 .. Word - 1 /\ f.tags \in Nat /\ 12 \in 0 .. Word
    BY FrameFields, <1>w
  <2>2. Minus(f.size, 12) \in 0 .. Word - 1 /\ (12 <= f.size => Minus(f.size, 12) = f.size - 12)
    BY <2>1, <1>w, MinusValue
  <2> QED
    BY <1>1, <1>v, <1>w, <2>1, <2>2
       DEF ReadFrame, FrameTypeInv, AtHeader, PayloadMatches, ReadsInside
<1>2. ASSUME StripVlan PROVE ClassifyInv'
  <2>1. PICK j \in 0 .. frame.tags : ptr = 12 + 4 * j
    BY <1>2 DEF StripVlan, AtHeader
  <2>2. ptr \in Nat /\ len = frame.size - ptr /\ len \in 0 .. Word - 1 /\ 4 \in 0 .. Word
    BY <1>2, <1>f, <1>w, <2>1 DEF StripVlan, Inside, AtHeader, FrameTypeInv
  <2>3. Minus(len, 4) \in 0 .. Word - 1 /\ (4 <= len => Minus(len, 4) = len - 4)
    BY <2>2, <1>w, MinusValue
  <2>4. j + 1 \in 0 .. frame.tags /\ ptr' = 12 + 4 * (j + 1)
    BY <1>2, <1>f, <2>1 DEF StripVlan
  <2> QED
    BY <1>2, <1>v, <1>f, <2>2, <2>3, <2>4
       DEF StripVlan, FrameTypeInv, AtHeader, PayloadMatches, ReadsInside
<1>3. ASSUME EtherType PROVE ClassifyInv'
  <2>1. CASE Return
    BY <1>3, <2>1, <1>r, <1>v DEF EtherType
  <2>2. CASE pc' = "ip" /\ ptr' = ptr + 2 /\ len' = Minus(len, 2) /\ UNCHANGED <<frame, key>>
    <3>1. PICK j \in 0 .. frame.tags : ptr = 12 + 4 * j
      BY <1>3 DEF EtherType, AtHeader
    <3>2. ptr = 12 + 4 * frame.tags /\ len = frame.size - ptr /\ len >= 2 /\ len \in 0 .. Word - 1
      BY <1>3, <1>f, <3>1 DEF EtherType, Inside, AtHeader, FrameTypeInv
    <3>3. Minus(len, 2) = len - 2 /\ Minus(len, 2) \in 0 .. Word - 1
      BY <3>2, <1>w, MinusValue
    <3> QED
      BY <1>3, <2>2, <1>v, <1>f, <3>2, <3>3
         DEF EtherType, FrameTypeInv, AtHeader, PayloadMatches, ReadsInside, IpStart
  <2> QED
    BY <1>3, <2>1, <2>2 DEF EtherType
<1>4. ASSUME IgnoreIp PROVE ClassifyInv'
  BY <1>4, <1>r, <1>v DEF IgnoreIp
<1>5. ASSUME IpHeader PROVE ClassifyInv'
  <2> DEFINE h == 4 * frame.ihl
  <2>1. h \in 0 .. 60 /\ frame.tot_len \in 0 .. Word - 1 /\ h \in 0 .. Word
    BY <1>f, <1>w
  <2>2. /\ len' \in 0 .. Word - 1
        /\ h <= frame.tot_len => len' = frame.tot_len - h
        /\ frame.tot_len < h => len' = frame.tot_len - h + Word
    BY <1>5, <2>1, MinusValue DEF IpHeader
  <2>3. ptr = IpStart /\ IpStart \in Nat /\ DatagramEnd = IpStart + frame.tot_len
        /\ DatagramEnd <= frame.size
    BY <1>5, <1>f DEF IpHeader, Sane, AtHeader, IpStart, DatagramEnd, FrameTypeInv
  <2>4. UNCHANGED <<IpStart, DatagramEnd>> /\ ptr' = IpStart + h
    BY <1>5, <2>3 DEF IpHeader, IpStart, DatagramEnd
  <2>5. key' \in ConnKeys /\ key'.ipproto = frame.key.ipproto
    BY <1>5, <1>f, <1>w DEF IpHeader, ConnKeys, NoKey
  <2> HIDE DEF h
  <2>6. /\ ptr' \in Nat
        /\ ptr' <= DatagramEnd => len' = DatagramEnd - ptr'
        /\ DatagramEnd < ptr' => len' = Word - (ptr' - DatagramEnd)
    BY <2>1, <2>2, <2>3, <2>4, <1>f, <1>w
  <2> QED
    BY <1>5, <1>v, <2>2, <2>3, <2>4, <2>5, <2>6
       DEF IpHeader, FrameTypeInv, AtHeader, PayloadMatches, ReadsInside, h
<1>6. ASSUME PopulateKey PROVE ClassifyInv'
  <2>1. key.ipproto = frame.key.ipproto /\ ptr = IpStart + 4 * frame.ihl
    BY <1>6 DEF PopulateKey, AtHeader
  <2>2. TransportLen \in 0 .. 60 /\ TransportLen \in 0 .. Word
    BY <1>f, <1>w, <1>k DEF TransportLen, TCP, UDP
  <2>3. HeadersEnd = ptr + TransportLen /\ UNCHANGED <<HeadersEnd, DatagramEnd>>
    BY <1>6, <2>1 DEF PopulateKey, HeadersEnd, TransportLen, IpStart, DatagramEnd
  <2>4. /\ len \in 0 .. Word - 1 /\ ptr \in Nat /\ DatagramEnd \in Nat
        /\ DatagramEnd <= frame.size
        /\ ptr <= DatagramEnd => len = DatagramEnd - ptr
        /\ DatagramEnd < ptr => len = Word - (ptr - DatagramEnd)
        /\ ptr - DatagramEnd <= 60
    BY <1>6, <1>f DEF PopulateKey, AtHeader, FrameTypeInv, DatagramEnd, IpStart
  <2>5. /\ len' \in 0 .. Word - 1
        /\ TransportLen <= len => len' = len - TransportLen
        /\ len < TransportLen => len' = len - TransportLen + Word
    BY <1>6, <2>2, <2>4, MinusValue DEF PopulateKey
  <2>6. key' \in ConnKeys
    BY <1>6, <1>f DEF PopulateKey, FrameTypeInv, ConnKeys
  <2>7. /\ ptr' = ptr + TransportLen /\ ptr' \in Nat /\ pc' = "insert" /\ UNCHANGED frame /\ TypeOK'
    BY <1>6, <1>v, <2>2, <2>4 DEF PopulateKey
  <2>8. /\ ptr + TransportLen <= DatagramEnd => ptr + TransportLen + len' = DatagramEnd
        /\ DatagramEnd < ptr + TransportLen => len' = Word - (ptr + TransportLen - DatagramEnd)
    BY <2>2, <2>4, <2>5, SecondHeader
  <2>9. PayloadMatches'
    <3>1. ptr' = HeadersEnd /\ HeadersEnd' = HeadersEnd /\ DatagramEnd' = DatagramEnd
      BY <2>3, <2>7
    <3>2. /\ HeadersEnd \in Nat /\ ptr \in Nat /\ TransportLen \in Nat /\ DatagramEnd \in Nat
          /\ len' \in Nat /\ ptr' \in Nat
      BY <2>2, <2>3, <2>4, <2>5, <2>7, <1>w
    <3>3. HeadersEnd <= DatagramEnd => ptr' + len' = DatagramEnd
      BY <2>3, <2>8, <3>1, <3>2
    <3>4. DatagramEnd < HeadersEnd => len' = Word - (HeadersEnd - DatagramEnd)
      BY <2>3, <2>8, <3>2, <1>w
    <3>5. CASE HeadersEnd <= DatagramEnd
      BY <2>4, <2>7, <3>1, <3>2, <3>3, <3>5 DEF PayloadMatches
    <3>6. CASE DatagramEnd < HeadersEnd
      BY <2>4, <2>7, <3>1, <3>2, <3>4, <3>6 DEF PayloadMatches
    <3> QED
      BY <3>2, <3>5, <3>6
  <2> QED
    BY <2>5, <2>6, <2>7, <2>9 DEF FrameTypeInv, AtHeader, ReadsInside
<1>7. ASSUME AppendWrapped PROVE ClassifyInv'
  <2>1. DatagramEnd < HeadersEnd
    <3>1. HeadersEnd \in Nat /\ DatagramEnd \in Nat
      BY <1>f, <1>k DEF HeadersEnd, DatagramEnd, IpStart, TCP, UDP
    <3> QED
      BY <1>7, <1>f, <3>1 DEF AppendWrapped, Inside, PayloadMatches, FrameTypeInv
  <2>2. (DatagramEnd < HeadersEnd)'
    BY <1>7, <2>1 DEF AppendWrapped, DatagramEnd, HeadersEnd, IpStart
  <2> QED
    BY <1>7, <1>v, <2>2 DEF AppendWrapped, FrameTypeInv, AtHeader, PayloadMatches, ReadsInside
<1>8. ASSUME Insert PROVE ClassifyInv'
  <2>1. TypeOK'
    BY <1>8, <1>v DEF Insert, Packet, TypeOK, FrameTypeInv, vars
  <2> QED
    BY <1>8, <2>1, <1>r DEF Insert
<1>9. ASSUME ReadOutside PROVE ClassifyInv'
  <2>1. \/ frame.size < IpStart + 20
        \/ frame.size < IpStart + 4 * frame.ihl + MinTransport
    <3>1. CASE pc = "ether" /\ ~Inside(2)
      BY <3>1, <1>f DEF Inside, AtHeader, FrameTypeInv, IpStart
    <3>2. CASE pc = "ip" /\ (~Inside(4) \/ ~Inside(20))
      BY <3>2, <1>f DEF Inside, AtHeader, FrameTypeInv, IpStart
    <3>3. CASE pc = "transport" /\ ~Inside(TransportRead)
      <4>1. key.ipproto = frame.key.ipproto /\ ptr = IpStart + 4 * frame.ihl /\ ptr \in Nat
        BY <3>3 DEF AtHeader, FrameTypeInv
      <4>2. TransportRead \in Nat /\ MinTransport \in Nat /\ TransportRead <= MinTransport
        BY <4>1, <1>k DEF TransportRead, MinTransport, TCP, UDP
      <4> QED
        BY <3>3, <4>1, <4>2, <1>f DEF Inside
    <3> QED
      BY <1>9, <3>1, <3>2, <3>3 DEF ReadOutside
  <2>2. UNCHANGED <<frame, IpStart, MinTransport>>
    BY <1>9 DEF ReadOutside, IpStart, MinTransport
  <2> QED
    BY <1>9, <1>v, <2>1, <2>2 DEF ReadOutside, FrameTypeInv, AtHeader, PayloadMatches, ReadsInside
<1>10. ASSUME \/ \E k \in keys : Erase(k)
              \/ \E n \in Buckets : Rehash(n),
              UNCHANGED framevars
       PROVE  ClassifyInv'
  <2>1. TypeOK'
    BY <1>10 DEF Erase, Rehash, TypeOK
  <2> QED
    BY <1>10, <2>1 DEF framevars, FrameTypeInv, AtHeader, PayloadMatches, ReadsInside,
                       IpStart, HeadersEnd, DatagramEnd, MinTransport
<1>11. CASE UNCHANGED allvars
  BY <1>11, <1>v DEF allvars, framevars, FrameTypeInv, AtHeader, PayloadMatches, ReadsInside,
                     IpStart, HeadersEnd, DatagramEnd, MinTransport
<1> QED
  BY <1>1, <1>2, <1>3, <1>4, <1>5, <1>6, <1>7, <1>8, <1>9, <1>10, <1>11 DEF ClassifyNext

\* The inductive invariant of classifyFlows(): what pointer and length stand for at
\* each header, for frames of any size with any number of tags.
THEOREM ClassifyInvariant == ClassifySpec => []ClassifyInv
BY ClassifyInvInit, ClassifyInvNext, PTL DEF ClassifySpec

\* What goes to the flow table is exactly the payload of the datagram, or a length
\* that wrapped once if the headers do not fit into it.
THEOREM PayloadMatchesHolds == ClassifySpec => []PayloadMatches
<1>1. ClassifyInv => PayloadMatches
  BY DEF ClassifyInv
<1> QED
  BY <1>1, ClassifyInvariant, PTL

\* Only frames too short for their headers are read behind their end, and only
\* datagrams too short for their headers raise an exception.
THEOREM ReadsInsideHolds == ClassifySpec => []ReadsInside
<1>1. ClassifyInv => ReadsInside
  BY DEF ClassifyInv
<1> QED
  BY <1>1, ClassifyInvariant, PTL

\* To the table, handling frames is what ConnKey allows: populateFlowTable() looks
\* up and inserts complete keys, and nothing else changes the map.
THEOREM ImplementsConnKey == ClassifySpec => Spec
<1>1. ClassifyInit => Init
  BY DEF ClassifyInit
<1>2. ClassifyInv /\ [ClassifyNext]_allvars => [Next]_vars
  BY DEF ClassifyInv, TypeOK, FrameTypeInv, ClassifyNext, allvars, Next, vars,
         ReadFrame, StripVlan, EtherType, IgnoreIp, IpHeader, PopulateKey,
         AppendWrapped, Insert, ReadOutside
<1> QED
  BY <1>1, <1>2, ClassifyInvariant, PTL DEF ClassifySpec, Spec

\* A packet of a stored flow finds that flow and no other, for the keys that the
\* frames' headers give.
THEOREM FrameFindsItsFlow == ClassifySpec => []FindsItsFlow
BY ImplementsConnKey, FindsItsFlowHolds, PTL

\* A packet that matches no stored flow in either direction finds none, whatever
\* collisions the buckets have.
THEOREM FindsNoOtherHolds == ClassifySpec => []FindsNoOther
BY ImplementsConnKey, TypeCorrect, FoundMatches, PTL

\* navl is told the right direction of every packet between two addresses.
THEOREM DirectionMatchesHolds == ClassifySpec => []DirectionMatches
BY ImplementsConnKey, TypeCorrect, DirectionRight, PTL
================================================================================
