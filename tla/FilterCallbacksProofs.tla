-------------------------- MODULE FilterCallbacksProofs -------------------------
(***************************************************************************)
(* Proofs about the callbacks of a filter: CopyPacket() for packets of any *)
(* length in any number of fragments, then the callbacks for every set of  *)
(* frames, filter states and word size.                                    *)
(***************************************************************************)
EXTENDS FilterCallbacks, TLAPS

(* CopyPacket(). *)


\* A side of the copy: ndx fragments were fetched, and data and len are what is left
\* of the last one.
Side(p, ndx, data, len) ==
  /\ IsPkt(p)
  /\ ndx \in 0 .. p.n
  /\ data \in Nat /\ len \in Nat
  /\ data + len = p.at[ndx]

\* The inductive invariant: both sides are at the same offset of the frame, and just
\* the bytes before it are copied.
CopyInv ==
  /\ Side(src, sNdx, sData, sLen)
  /\ Side(dst, dNdx, dData, dLen)
  /\ sData = dData
  /\ sLen = 0 \/ dLen = 0
  /\ out = [i \in 0 .. sData - 1 |-> i]
  /\ copyLen \in Nat
  /\ status \in {"idle", "copy", "ok", "error"}
  /\ status \in {"copy", "ok"} => copyLen + sData >= DVFilter_GetPktLen(src)
  /\ status = "ok" => copyLen = 0

\* Fragments follow one another, and the last ends with the packet.
LEMMA FragOrder ==
  ASSUME NEW p, IsPkt(p), NEW k \in 0 .. p.n
  PROVE  p.at[k] \in Nat /\ p.at[k] <= DVFilter_GetPktLen(p)
<1>1. p.n \in 0 .. p.n /\ p.at \in [0 .. p.n -> Nat]
  BY DEF IsPkt
<1>2. p.at[k] \in Nat /\ p.at[p.n] \in Nat
  BY <1>1
<1>3. k < p.n => p.at[k] < p.at[p.n]
  BY <1>1 DEF IsPkt
<1>4. k < p.n \/ k = p.n
  BY DEF IsPkt
<1> QED
  BY <1>2, <1>3, <1>4 DEF DVFilter_GetPktLen

\* Fetching the next fragment leaves a side where it is, with something to move.
LEMMA Fetched ==
  ASSUME NEW p, NEW ndx, NEW data, NEW len, Side(p, ndx, data, len),
         len # 0 \/ HasFrag(p, ndx)
  PROVE  /\ Side(p, Cur(p, ndx, data, len).ndx, data, Cur(p, ndx, data, len).len)
         /\ Cur(p, ndx, data, len).data = data
         /\ Cur(p, ndx, data, len).len > 0
<1>1. CASE len # 0
  BY <1>1 DEF Cur, Side
<1>2. CASE len = 0
  <2>1. ndx \in 0 .. p.n /\ ndx + 1 \in 0 .. p.n /\ p.at \in [0 .. p.n -> Nat]
    BY <1>2 DEF Side, HasFrag, IsPkt
  <2>2. p.at[ndx] \in Nat /\ p.at[ndx + 1] \in Nat /\ p.at[ndx] < p.at[ndx + 1]
    BY <2>1 DEF Side, IsPkt
  <2>3. data = p.at[ndx]
    BY <1>2, <2>2 DEF Side
  <2> QED
    BY <1>2, <2>1, <2>2, <2>3 DEF Cur, Side, FragAddress, FragLength
<1> QED
  BY <1>1, <1>2

\* The memory after a turn is that of a longer copy.
LEMMA MemcpyExtends ==
  ASSUME NEW d \in Nat, NEW m \in Nat, out = [i \in 0 .. d - 1 |-> i]
  PROVE  Memcpy(d, d, m) = [i \in 0 .. (d + m) - 1 |-> i]
<1>1. DOMAIN out \cup d .. (d + m - 1) = 0 .. (d + m) - 1
  OBVIOUS
<1>2. \A i \in 0 .. (d + m) - 1 :
        (IF i \in d .. (d + m - 1) THEN d + (i - d) ELSE out[i]) = i
  OBVIOUS
<1> QED
  BY <1>1, <1>2 DEF Memcpy

\* Before a copy starts, both sides stand at byte 0 and nothing is written.
LEMMA CopyInvReset ==
  ASSUME NEW s, NEW d, IsPkt(s), IsPkt(d)
  PROVE  /\ Side(s, 0, 0, 0) /\ Side(d, 0, 0, 0)
         /\ [i \in {} |-> 0] = [i \in 0 .. 0 - 1 |-> i]
         /\ DVFilter_GetPktLen(s) \in Nat
<1>1. 0 .. 0 - 1 = {}
  OBVIOUS
<1>2. [i \in {} |-> 0] = [i \in 0 .. 0 - 1 |-> i]
  BY <1>1
<1>3. DVFilter_GetPktLen(s) \in Nat
  BY DEF IsPkt, DVFilter_GetPktLen
<1> QED
  BY <1>2, <1>3 DEF Side, IsPkt

\* The placeholder of an idle copier has the shape of a packet.
LEMMA NoPktIsPkt == IsPkt(NoPkt)
BY DEF IsPkt, NoPkt

\* Every step of CopyPacket() and its caller preserves the invariant.
LEMMA CopyInvNext == CopyInv /\ [CopyNext]_copyVars => CopyInv'
<1> SUFFICES ASSUME CopyInv, [CopyNext]_copyVars PROVE CopyInv'
  OBVIOUS
<1>1. ASSUME NEW d \in Packets, NEW s \in Packets, NEW len \in CopyLens, CopyPacket(d, s, len)
      PROVE CopyInv'
  <2>1. IsPkt(s) /\ IsPkt(d) /\ len \in Nat
    BY CopyAssumption
  <2>2. Side(s, 0, 0, 0) /\ Side(d, 0, 0, 0) /\ [i \in {} |-> 0] = [i \in 0 .. 0 - 1 |-> i]
    BY <2>1, CopyInvReset
  <2>3. DVFilter_GetPktLen(s) \in Nat
    BY <2>1, CopyInvReset
  <2>4. copyLen' \in Nat /\ (status' = "copy" => copyLen' + sData' >= DVFilter_GetPktLen(src)')
    BY <1>1, <2>1, <2>3 DEF CopyPacket, Refused, DVFilter_GetPktLen
  <2> QED
    BY <1>1, <2>2, <2>4 DEF CopyInv, CopyPacket
<1>2. CASE CopyCycle
  <2> DEFINE m == MoveLen
  <2>1. /\ Side(src, CurSrc.ndx, sData, CurSrc.len) /\ CurSrc.data = sData /\ CurSrc.len > 0
        /\ Side(dst, CurDst.ndx, dData, CurDst.len) /\ CurDst.data = dData /\ CurDst.len > 0
    BY <1>2, Fetched DEF CopyInv, CopyCycle, OutOfFrags, CurSrc, CurDst
  <2>2. CurSrc.len \in Nat /\ CurDst.len \in Nat
    BY <2>1 DEF Side
  <2>3. /\ m \in Nat /\ m > 0
        /\ CurSrc.len - m \in Nat /\ CurDst.len - m \in Nat
        /\ CurSrc.len - m = 0 \/ CurDst.len - m = 0
    BY <2>1, <2>2 DEF MoveLen
  <2>4. /\ Side(src, CurSrc.ndx, sData + m, CurSrc.len - m)
        /\ Side(dst, CurDst.ndx, dData + m, CurDst.len - m)
    <3>1. ASSUME NEW p, NEW n, NEW a, NEW l, Side(p, n, a, l), l - m \in Nat
          PROVE Side(p, n, a + m, l - m)
      BY <3>1, <2>3 DEF Side
    <3> HIDE DEF m
    <3> QED
      BY <3>1, <2>1, <2>3
  <2>5. out' = [i \in 0 .. (sData + m) - 1 |-> i]
    <3>1. out' = Memcpy(sData, sData, m)
      BY <1>2, <2>1 DEF CopyCycle, CopyInv
    <3>2. sData \in Nat
      BY DEF CopyInv, Side
    <3>3. out = [i \in 0 .. sData - 1 |-> i]
      BY DEF CopyInv
    <3> HIDE DEF m
    <3> QED
      BY <3>1, <3>2, <3>3, <2>3, MemcpyExtends
  <2>6. copyLen' \in Nat /\ copyLen' + sData' >= DVFilter_GetPktLen(src)
    <3>1. DVFilter_GetPktLen(src) \in Nat
      BY CopyInvReset DEF CopyInv, Side
    <3>2. sData \in Nat /\ copyLen \in Nat /\ copyLen + sData >= DVFilter_GetPktLen(src)
      BY <1>2 DEF CopyInv, CopyCycle, Side
    <3>3. CurSrc.ndx \in 0 .. src.n
      BY <2>1 DEF Side
    <3>4. src.at[CurSrc.ndx] <= DVFilter_GetPktLen(src) /\ src.at[CurSrc.ndx] \in Nat
      BY <3>3, FragOrder DEF CopyInv, Side
    <3>5. sData + m <= DVFilter_GetPktLen(src)
      <4>1. (sData + m) + (CurSrc.len - m) = src.at[CurSrc.ndx]
        BY <2>4 DEF Side
      <4> HIDE DEF m
      <4> QED
        BY <4>1, <3>1, <3>2, <3>4, <2>3, <2>2
    <3>6. copyLen' = copyLen - m /\ sData' = sData + m
      BY <1>2, <2>1 DEF CopyCycle
    <3> HIDE DEF m
    <3> QED
      BY <3>1, <3>2, <3>5, <3>6, <2>3
  <2>7. /\ src' = src /\ dst' = dst
        /\ sNdx' = CurSrc.ndx /\ sLen' = CurSrc.len - m /\ sData' = sData + m
        /\ dNdx' = CurDst.ndx /\ dLen' = CurDst.len - m /\ dData' = dData + m
        /\ status' = "copy"
    <3>1. sLen' = CurSrc.len - m /\ dLen' = CurDst.len - m
      BY <1>2 DEF CopyCycle
    <3>2. status' = "copy"
      BY <1>2, <2>3, <3>1 DEF CopyCycle
    <3> QED
      BY <1>2, <2>1, <3>1, <3>2 DEF CopyCycle
  <2>8. DVFilter_GetPktLen(src)' = DVFilter_GetPktLen(src)
    BY <2>7 DEF DVFilter_GetPktLen
  <2> HIDE DEF m
  <2> QED
    BY <2>3, <2>4, <2>5, <2>6, <2>7, <2>8 DEF CopyInv
<1>3. CASE CopyReturn
  BY <1>3 DEF CopyInv, CopyReturn, loopVars, Side, DVFilter_GetPktLen
<1>4. CASE CopyForget
  <2>1. Side(NoPkt, 0, 0, 0) /\ [i \in {} |-> 0] = [i \in 0 .. 0 - 1 |-> i]
    BY NoPktIsPkt, CopyInvReset
  <2> QED
    BY <1>4, <2>1 DEF CopyInv, CopyForget
<1>5. CASE UNCHANGED copyVars
  BY <1>5 DEF CopyInv, copyVars, loopVars, Side, DVFilter_GetPktLen
<1> QED
  BY <1>1, <1>2, <1>3, <1>4, <1>5 DEF CopyNext

\* The invariant holds in every state.
THEOREM CopyInvariant == CopySpec => []CopyInv
<1>1. CopyInit => CopyInv
  <2>1. Side(NoPkt, 0, 0, 0) /\ [i \in {} |-> 0] = [i \in 0 .. 0 - 1 |-> i]
    BY NoPktIsPkt, CopyInvReset
  <2> QED
    BY <2>1 DEF CopyInit, CopyInv
<1> QED
  BY <1>1, CopyInvNext, PTL DEF CopySpec

\* CopyPacket() never writes a byte to another offset, behind the destination or
\* behind a fragment, for all packets.
THEOREM WritesInPlaceHolds == CopySpec => []WritesInPlace
<1>1. CopyInv => WritesInPlace
  <2> SUFFICES ASSUME CopyInv PROVE WritesInPlace
    OBVIOUS
  <2>1. dData \in Nat /\ dLen \in Nat /\ sLen \in Nat /\ dNdx \in 0 .. dst.n /\ IsPkt(dst)
        /\ dData + dLen = dst.at[dNdx] /\ sData = dData
    BY DEF CopyInv, Side
  <2>2. dst.at[dNdx] \in Nat /\ dst.at[dNdx] <= DVFilter_GetPktLen(dst)
    BY <2>1, FragOrder
  <2>3. DVFilter_GetPktLen(dst) \in Nat
    BY <2>1, CopyInvReset
  <2>4. DOMAIN out = 0 .. sData - 1 /\ \A i \in 0 .. sData - 1 : out[i] = i
    BY DEF CopyInv
  <2> QED
    BY <2>1, <2>2, <2>3, <2>4 DEF WritesInPlace
<1> QED
  BY <1>1, CopyInvariant, PTL

\* A copy that succeeds is complete, and the loop's assertions hold, for all packets.
THEOREM CopyCompleteHolds == CopySpec => []CopyComplete
<1>1. CopyInv => CopyComplete
  <2> SUFFICES ASSUME CopyInv PROVE CopyComplete
    OBVIOUS
  <2>1. sData \in Nat /\ sLen \in Nat /\ sNdx \in 0 .. src.n /\ IsPkt(src)
        /\ sData + sLen = src.at[sNdx]
    BY DEF CopyInv, Side
  <2>2. src.at[sNdx] \in Nat /\ src.at[sNdx] <= DVFilter_GetPktLen(src)
    BY <2>1, FragOrder
  <2>3. DVFilter_GetPktLen(src) \in Nat
    BY <2>1, CopyInvReset
  <2>4. DOMAIN out = 0 .. sData - 1
    BY DEF CopyInv
  <2>5. status = "ok" => sData >= DVFilter_GetPktLen(src)
    BY <2>1, <2>3 DEF CopyInv
  <2>6. status # "assert"
    BY DEF CopyInv
  <2> QED
    BY <2>1, <2>2, <2>3, <2>4, <2>5, <2>6 DEF CopyComplete
<1> QED
  BY <1>1, CopyInvariant, PTL

\* As ProcessPacket() calls it, for two packets of the same length, CopyPacket() has
\* copied what copyLen lacks, and is never short of fragments.
CopyExact ==
  /\ CopyInv
  /\ status \in {"idle", "copy", "ok"}
  /\ status \in {"copy", "ok"} =>
       /\ copyLen + sData = DVFilter_GetPktLen(src)
       /\ DVFilter_GetPktLen(dst) = DVFilter_GetPktLen(src)

\* A copy that is not finished has fragments left on both sides.
LEMMA NotOutOfFrags ==
  ASSUME CopyExact, status = "copy", copyLen > 0
  PROVE  ~OutOfFrags
<1>1. /\ copyLen \in Nat /\ sData \in Nat /\ sData = dData
      /\ copyLen + sData = DVFilter_GetPktLen(src)
      /\ DVFilter_GetPktLen(dst) = DVFilter_GetPktLen(src)
  BY DEF CopyExact, CopyInv, Side
<1>2. ASSUME NEW p, NEW ndx, NEW len, Side(p, ndx, sData, len), len = 0, ~HasFrag(p, ndx)
      PROVE  DVFilter_GetPktLen(p) = sData
  <2>1. ndx = p.n
    BY <1>2 DEF Side, HasFrag, IsPkt
  <2> QED
    BY <1>1, <1>2, <2>1 DEF Side, DVFilter_GetPktLen
<1>3. CASE sLen = 0 /\ ~HasFrag(src, sNdx)
  BY <1>1, <1>2, <1>3 DEF CopyExact, CopyInv
<1>4. CASE dLen = 0 /\ ~HasFrag(dst, dNdx)
  BY <1>1, <1>2, <1>4 DEF CopyExact, CopyInv
<1> QED
  BY <1>3, <1>4 DEF OutOfFrags

\* A turn of the loop and its end keep the two in step.
LEMMA CopyExactSteps ==
  ASSUME CopyExact, CopyCycle \/ CopyReturn
  PROVE  CopyExact'
<1>1. CopyInv'
  BY CopyInvNext DEF CopyExact, CopyNext
<1>2. CASE CopyCycle
  <2>1. status' = "copy" /\ src' = src /\ dst' = dst
    <3>1. status' \in {"copy", "assert"} /\ src' = src /\ dst' = dst
      BY <1>2 DEF CopyCycle
    <3> QED
      BY <1>1, <3>1 DEF CopyInv
  <2>2. /\ Side(src, CurSrc.ndx, sData, CurSrc.len) /\ CurSrc.data = sData
        /\ Side(dst, CurDst.ndx, dData, CurDst.len)
    BY <1>2, Fetched DEF CopyExact, CopyInv, CopyCycle, OutOfFrags, CurSrc, CurDst
  <2>3. CurSrc.len \in Nat /\ CurDst.len \in Nat /\ MoveLen \in Nat
    BY <2>2 DEF Side, MoveLen
  <2>4. copyLen \in Nat /\ sData \in Nat /\ copyLen + sData = DVFilter_GetPktLen(src)
    BY <1>2 DEF CopyExact, CopyInv, Side, CopyCycle
  <2>5. copyLen' = copyLen - MoveLen /\ sData' = sData + MoveLen
    BY <1>2, <2>2 DEF CopyCycle
  <2>6. copyLen' + sData' = DVFilter_GetPktLen(src)
    BY <2>3, <2>4, <2>5
  <2>7. DVFilter_GetPktLen(dst) = DVFilter_GetPktLen(src)
    BY <1>2 DEF CopyExact, CopyCycle
  <2> QED
    BY <1>1, <2>1, <2>6, <2>7 DEF CopyExact, DVFilter_GetPktLen
<1>3. CASE CopyReturn
  <2>1. status' = "ok"
    BY <1>3, NotOutOfFrags DEF CopyReturn
  <2>2. status = "copy" /\ UNCHANGED <<src, dst, copyLen, sData>>
    BY <1>3 DEF CopyReturn, loopVars
  <2> QED
    BY <1>1, <2>1, <2>2 DEF CopyExact, DVFilter_GetPktLen
<1> QED
  BY <1>2, <1>3

\* ProcessPacket() begins a copy between packets of one length.
LEMMA CopyExactBegins ==
  ASSUME CopyExact, NEW d \in Packets, NEW s \in Packets,
         DVFilter_GetPktLen(d) = DVFilter_GetPktLen(s), DVFilter_GetPktLen(s) \in CopyLens,
         CopyPacket(d, s, DVFilter_GetPktLen(s))
  PROVE  CopyExact'
<1>1. CopyInv'
  BY CopyInvNext DEF CopyExact, CopyNext
<1>2. DVFilter_GetPktLen(s) \in Nat
  BY CopyAssumption, CopyInvReset
<1>3. ~Refused(d, s, DVFilter_GetPktLen(s))
  BY <1>2 DEF Refused
<1>4. /\ status' = "copy" /\ src' = s /\ dst' = d /\ sData' = 0
      /\ copyLen' = DVFilter_GetPktLen(s)
  BY <1>2, <1>3 DEF CopyPacket
<1>5. copyLen' + sData' = DVFilter_GetPktLen(s)
  BY <1>2, <1>4
<1> QED
  BY <1>1, <1>4, <1>5 DEF CopyExact, DVFilter_GetPktLen

--------------------------------------------------------------------------------
(* Frames and references into them. *)

\* What a frame is made of.
LEMMA FrameFacts ==
  ASSUME NEW f \in Frames
  PROVE  /\ f.pkt \in Packets /\ IsPkt(f.pkt) /\ DVFilter_GetPktLen(f.pkt) \in Nat
         /\ DVFilter_GetPktLen(f.pkt) \in CopyLens
         /\ f.framing \in Framings
         /\ f.etherType \in {ETH_TYPE_IPV4, ETH_TYPE_IPV6, ETH_TYPE_ARP}
         /\ f.tci \in Nat /\ f.tci < 65536 /\ f.ihl \in Nat /\ f.protocol \in Nat
         /\ f.source \in 0 .. Word16 - 1 /\ f.dest \in 0 .. Word16 - 1
         /\ f.check \in 0 .. Word16 - 1 /\ f.rest \in Nat
         /\ f.mustCsum \in BOOLEAN
<1>1. f \in FrameType
  BY FilterAssumption
<1>2. f.pkt \in Packets
  BY <1>1 DEF FrameType
<1>3. IsPkt(f.pkt) /\ DVFilter_GetPktLen(f.pkt) \in Nat /\ DVFilter_GetPktLen(f.pkt) \in CopyLens
  BY <1>2, CopyAssumption, CopyInvReset, FilterAssumption
<1> QED
  BY <1>1, <1>2, <1>3, FilterAssumption DEF FrameType

\* Where a frame's headers start, as its framing and ihl place them.
LEMMA StartFacts ==
  ASSUME NEW f \in Frames
  PROVE  /\ IpStart(f) \in {14, 18, 22, 26}
         /\ TransportStart(f) \in Nat /\ TransportStart(f) >= IpStart(f)
<1>1. IpStart(f) \in {14, 18, 22, 26}
  BY FrameFacts DEF IpStart, Framings
<1>2. f.ihl \in Nat
  BY FrameFacts
<1> QED
  BY <1>1, <1>2 DEF TransportStart, IPv6Hdr_Size

\* The words of a header that tell its framing are swapped back right.
LEMMA Swapped ==
  /\ ntohs(ETH_TYPE_IPV4) = ETH_TYPE_IPV4_NBO /\ ntohs(ETH_TYPE_IPV4_NBO) = ETH_TYPE_IPV4
  /\ ntohs(ETH_TYPE_IPV6) = ETH_TYPE_IPV6_NBO /\ ntohs(ETH_TYPE_IPV6_NBO) = ETH_TYPE_IPV6
  /\ ntohs(ETH_TYPE_ARP) = ETH_TYPE_ARP_NBO /\ ntohs(ETH_TYPE_ARP_NBO) = ETH_TYPE_ARP
  /\ ntohs(ntohs(ETH_TYPE_802_1PQ)) = ETH_TYPE_802_1PQ
  /\ ntohs(ntohs(46)) = 46
BY DEF ntohs, ETH_TYPE_IPV4, ETH_TYPE_IPV4_NBO, ETH_TYPE_IPV6, ETH_TYPE_IPV6_NBO,
       ETH_TYPE_ARP, ETH_TYPE_ARP_NBO, ETH_TYPE_802_1PQ

\* EthHeaderType() finds the framing of every frame, and EthEncapsulatedPktType()
\* its type and where its packet starts.
LEMMA HeaderRead ==
  ASSUME NEW f \in Frames
  PROVE  /\ EthHeaderType(EthHeader(f)) = f.framing
         /\ EthEncapsulatedPktType(EthHeader(f)) =
              [typeNBO |-> ntohs(f.etherType), offset |-> IpStart(f)]
<1> DEFINE eh == EthHeader(f)
<1>1. f.framing \in Framings /\ f.etherType \in {ETH_TYPE_IPV4, ETH_TYPE_IPV6, ETH_TYPE_ARP}
  BY FrameFacts
<1>2. ntohs(ntohs(f.etherType)) = f.etherType
  BY <1>1, Swapped
<1>3. f.etherType \in Nat /\ f.etherType > 1500 /\ f.etherType # ETH_TYPE_802_1PQ
  BY <1>1 DEF ETH_TYPE_IPV4, ETH_TYPE_IPV6, ETH_TYPE_ARP, ETH_TYPE_802_1PQ
<1>4. ETH_TYPE_802_1PQ > 1500
  BY DEF ETH_TYPE_802_1PQ
<1>5. CASE f.framing = "DIX"
  <2>1. IpStart(f) = 14 /\ eh[12] = ntohs(f.etherType)
    BY <1>5 DEF EthHeader, IpStart, Tagged
  <2>2. ntohs(eh[12]) = f.etherType
    BY <1>2, <2>1
  <2> HIDE DEF eh
  <2>3. EthHeaderType(eh) = "DIX"
    BY <1>3, <2>2 DEF EthHeaderType
  <2> QED
    BY <1>5, <2>1, <2>3 DEF EthEncapsulatedPktType, eh
<1>6. CASE f.framing = "802_1PQ"
  <2>1. IpStart(f) = 18 /\ eh[12] = ntohs(ETH_TYPE_802_1PQ) /\ eh[16] = ntohs(f.etherType)
    BY <1>6 DEF EthHeader, IpStart, Tagged
  <2>2. ntohs(eh[12]) = ETH_TYPE_802_1PQ /\ ntohs(eh[16]) = f.etherType
    BY <1>2, <2>1, Swapped
  <2>3. EthHeaderType(eh) = "802_1PQ"
    <3> HIDE DEF eh
    <3> QED
      BY <1>3, <1>4, <2>2 DEF EthHeaderType, ETH_TYPE_802_1PQ
  <2> HIDE DEF eh
  <2>4. EthEncapsulatedPktType(eh) = [typeNBO |-> eh[16], offset |-> 18]
    BY <2>3 DEF EthEncapsulatedPktType
  <2> QED
    BY <1>6, <2>1, <2>3, <2>4 DEF eh
<1>7. CASE f.framing = "802_3"
  <2>1. IpStart(f) = 22 /\ eh[12] = ntohs(46) /\ eh[20] = ntohs(f.etherType)
    BY <1>7 DEF EthHeader, IpStart, Tagged
  <2>2. ntohs(eh[12]) = 46
    BY <2>1, Swapped
  <2>3. EthHeaderType(eh) = "802_3"
    <3> HIDE DEF eh
    <3> QED
      BY <2>2 DEF EthHeaderType, ETH_TYPE_802_1PQ
  <2> HIDE DEF eh
  <2>4. EthEncapsulatedPktType(eh) = [typeNBO |-> eh[20], offset |-> 22]
    BY <2>3 DEF EthEncapsulatedPktType
  <2> QED
    BY <1>7, <2>1, <2>3, <2>4 DEF eh
<1>8. CASE f.framing = "802_1PQ_802_3"
  <2>1. /\ IpStart(f) = 26 /\ eh[12] = ntohs(ETH_TYPE_802_1PQ) /\ eh[16] = ntohs(46)
        /\ eh[24] = ntohs(f.etherType)
    BY <1>8 DEF EthHeader, IpStart, Tagged
  <2>2. ntohs(eh[12]) = ETH_TYPE_802_1PQ /\ ntohs(eh[16]) = 46
    BY <2>1, Swapped
  <2>3. EthHeaderType(eh) = "802_1PQ_802_3"
    <3> HIDE DEF eh
    <3> QED
      BY <1>4, <2>2 DEF EthHeaderType, ETH_TYPE_802_1PQ
  <2> HIDE DEF eh
  <2>4. EthEncapsulatedPktType(eh) = [typeNBO |-> eh[24], offset |-> 26]
    BY <2>3 DEF EthEncapsulatedPktType
  <2> QED
    BY <1>8, <2>1, <2>3, <2>4 DEF eh
<1> QED
  BY <1>1, <1>5, <1>6, <1>7, <1>8 DEF Framings

\* What is left of the fragment that holds an offset.
LEMMA LeftInFragment ==
  ASSUME NEW p, IsPkt(p), NEW offset \in Nat, LengthLeft(p, offset) # 0
  PROVE  \E k \in 1 .. p.n : /\ p.at[k - 1] \in Nat /\ p.at[k] \in Nat
                             /\ p.at[k - 1] <= offset /\ offset < p.at[k]
                             /\ LengthLeft(p, offset) = p.at[k] - offset
<1> DEFINE In(k) == p.at[k - 1] <= offset /\ offset < p.at[k]
<1>1. \E k \in 1 .. p.n : In(k)
  BY DEF LengthLeft
<1>2. PICK k \in 1 .. p.n : k = CHOOSE j \in 1 .. p.n : In(j)
  BY <1>1
<1>3. In(k)
  BY <1>1, <1>2
<1>4. LengthLeft(p, offset) = p.at[k] - offset
  BY <1>1, <1>2 DEF LengthLeft
<1>5. p.at[k - 1] \in Nat /\ p.at[k] \in Nat
  BY DEF IsPkt
<1> QED
  BY <1>3, <1>4, <1>5

\* Bytes that are referenced directly lie inside the packet.
LEMMA LeftInside ==
  ASSUME NEW p, IsPkt(p), NEW offset \in Nat
  PROVE  /\ LengthLeft(p, offset) \in Nat
         /\ LengthLeft(p, offset) # 0 => offset + LengthLeft(p, offset) <= DVFilter_GetPktLen(p)
<1>1. CASE LengthLeft(p, offset) = 0
  BY <1>1
<1>2. CASE LengthLeft(p, offset) # 0
  <2>1. PICK k \in 1 .. p.n : /\ p.at[k - 1] \in Nat /\ p.at[k] \in Nat
                              /\ p.at[k - 1] <= offset /\ offset < p.at[k]
                              /\ LengthLeft(p, offset) = p.at[k] - offset
    BY <1>2, LeftInFragment
  <2>2. p.n \in Nat /\ k \in 0 .. p.n
    BY DEF IsPkt
  <2>3. p.at[k] <= DVFilter_GetPktLen(p) /\ DVFilter_GetPktLen(p) \in Nat
    BY <2>2, FragOrder, CopyInvReset
  <2> QED
    BY <2>1, <2>3
<1> QED
  BY <1>1, <1>2

\* The first fragment is the one that holds the offsets below its length.
LEMMA LeftOfFirst ==
  ASSUME NEW p, IsPkt(p), p.n >= 1, NEW offset \in Nat, offset < FragLength(p, 0)
  PROVE  LengthLeft(p, offset) = FragLength(p, 0) - offset
<1>1. p.n \in Nat /\ p.at \in [0 .. p.n -> Nat] /\ p.at[0] = 0 /\ 1 \in 0 .. p.n /\ 0 \in 0 .. p.n
  BY DEF IsPkt
<1>2. p.at[1] \in Nat /\ FragLength(p, 0) = p.at[1]
  BY <1>1 DEF FragLength
<1> DEFINE In(k) == p.at[k - 1] <= offset /\ offset < p.at[k]
<1>3. 1 \in 1 .. p.n /\ In(1)
  BY <1>1, <1>2
<1>4. ASSUME NEW k \in 1 .. p.n, In(k) PROVE k = 1
  <2>1. k - 1 \in 0 .. p.n /\ p.at[k - 1] \in Nat
    BY <1>1
  <2>2. k # 1 /\ k # 2 => 1 < k - 1
    OBVIOUS
  <2>3. k # 1 => p.at[1] <= p.at[k - 1]
    BY <1>1, <1>2, <2>1, <2>2 DEF IsPkt
  <2> QED
    BY <1>2, <1>4, <2>1, <2>3
<1>5. (CHOOSE k \in 1 .. p.n : In(k)) = 1
  BY <1>3, <1>4
<1>6. LengthLeft(p, offset) = p.at[1] - offset
  BY <1>3, <1>5 DEF LengthLeft
<1> QED
  BY <1>2, <1>6

\* The references ParsePacket() and PerformNAPT() ask for, one after the other.
EthRef(f) == PktDirectRef(f.pkt, 0, Eth_Header_Size, NoDirect)

\* The bytes ParsePacket() asks for at the start of the IP header.
IpSize(f) == IF f.etherType = ETH_TYPE_IPV6 THEN IPv6Hdr_Size ELSE IPHdr_Size

\* The reference to the IP header, sought from the region of the Ethernet header.
IpRef(f) == PktDirectRef(f.pkt, IpStart(f), IpSize(f), EthRef(f).direct)

\* The reference to the transport header, sought from the region of the IP header.
TransportRef(f, size) == PktDirectRef(f.pkt, TransportStart(f), size, IpRef(f).direct)

\* The Ethernet header is referenced at the start of the packet, and the region
\* that is kept is the whole first fragment.
LEMMA EthReferenced ==
  ASSUME NEW f \in Frames, EthRef(f).ref # NULL
  PROVE  /\ EthRef(f).ref = 0
         /\ EthRef(f).direct = [offset |-> 0, len |-> FragLength(f.pkt, 0)]
         /\ f.pkt.n >= 1 /\ FragLength(f.pkt, 0) \in Nat
         /\ FragLength(f.pkt, 0) >= 26 /\ FragLength(f.pkt, 0) <= DVFilter_GetPktLen(f.pkt)
<1> DEFINE p == f.pkt
<1>1. IsPkt(p) /\ DVFilter_GetPktLen(p) \in Nat
  BY FrameFacts
<1>2. DirectRange(p, 0, Eth_Header_Size)
  BY DEF EthRef, PktDirectRef, NoDirect
<1>3. EthRef(f) = [ref |-> 0, direct |-> [offset |-> 0, len |-> LengthLeft(p, 0)]]
  BY <1>2 DEF EthRef, PktDirectRef, NoDirect
<1>4. LengthLeft(p, 0) \in Nat /\ LengthLeft(p, 0) >= 26
  BY <1>1, <1>2, LeftInside DEF DirectRange, Eth_Header_Size
<1>5. PICK k \in 1 .. p.n : p.at[k - 1] <= 0
  BY <1>1, <1>4, LeftInFragment
<1>6. p.n \in Nat /\ p.n >= 1
  BY <1>1, <1>5 DEF IsPkt
<1>7. 0 \in 0 .. p.n /\ 1 \in 0 .. p.n /\ p.at[0] = 0
  BY <1>1, <1>6 DEF IsPkt
<1>8. p.at[1] \in Nat /\ 0 < p.at[1] /\ p.at[1] <= DVFilter_GetPktLen(p)
  BY <1>1, <1>7, FragOrder DEF IsPkt
<1>9. FragLength(p, 0) = p.at[1]
  BY <1>7, <1>8 DEF FragLength
<1>10. LengthLeft(p, 0) = FragLength(p, 0)
  BY <1>1, <1>6, <1>8, <1>9, LeftOfFirst
<1> QED
  BY <1>3, <1>4, <1>6, <1>8, <1>9, <1>10

\* The IP header is referenced where it is.  The region kept is that of the Ethernet
\* header, or what the IP header fills to its last byte, or one that starts the
\* second fragment.
LEMMA IpReferenced ==
  ASSUME NEW f \in Frames, EthRef(f).ref # NULL, IpRef(f).ref # NULL
  PROVE  /\ IpRef(f).ref = IpStart(f)
         /\ IpStart(f) + IpSize(f) <= DVFilter_GetPktLen(f.pkt)
         /\ \/ IpRef(f).direct = EthRef(f).direct
            \/ IpRef(f).direct = [offset |-> IpStart(f), len |-> IpSize(f)]
            \/ RegionInside(f)
<1> DEFINE p == f.pkt
           o == IpStart(f)
           s == IpSize(f)
           l == FragLength(p, 0)
<1>1. /\ EthRef(f).direct = [offset |-> 0, len |-> l]
      /\ p.n >= 1 /\ l \in Nat /\ l >= 26 /\ l <= DVFilter_GetPktLen(p)
  BY EthReferenced
<1>2. IsPkt(p) /\ DVFilter_GetPktLen(p) \in Nat
  BY FrameFacts
<1>3. o \in {14, 18, 22, 26}
  BY StartFacts
<1>4. s \in {20, 40}
  BY DEF IpSize, IPHdr_Size, IPv6Hdr_Size
<1>5. EthRef(f).direct.offset = 0 /\ EthRef(f).direct.len = l
  BY <1>1
<1>6. CASE o + s < l
  <2>1. IpRef(f) = [ref |-> 0 + o, direct |-> EthRef(f).direct]
    <3> HIDE DEF o, s, l
    <3> QED
      BY <1>1, <1>3, <1>4, <1>5, <1>6 DEF IpRef, PktDirectRef, o, s
  <2>2. o + s <= DVFilter_GetPktLen(p) /\ 0 + o = o
    <3> HIDE DEF o, s, l, p
    <3> QED
      BY <1>1, <1>2, <1>3, <1>4, <1>6
  <2> QED
    BY <2>1, <2>2
<1>7. CASE ~(o + s < l)
  <2>1. IpRef(f) = IF DirectRange(p, o, s)
                     THEN [ref |-> o, direct |-> [offset |-> o, len |-> LengthLeft(p, o)]]
                     ELSE [ref |-> NULL, direct |-> EthRef(f).direct]
    <3>1. ~(o + s < 0 + l)
      <4> HIDE DEF o, s, l
      <4> QED
        BY <1>1, <1>3, <1>4, <1>7
    <3> QED
      BY <1>5, <3>1 DEF IpRef, PktDirectRef
  <2>2. DirectRange(p, o, s)
    BY <2>1
  <2>3. IpRef(f).ref = o /\ IpRef(f).direct = [offset |-> o, len |-> LengthLeft(p, o)]
    BY <2>1, <2>2
  <2>4. LengthLeft(p, o) \in Nat /\ o + LengthLeft(p, o) <= DVFilter_GetPktLen(p) /\ LengthLeft(p, o) >= s
    <3>1. o \in Nat
      BY <1>3
    <3> QED
      BY <1>2, <2>2, <3>1, LeftInside DEF DirectRange
  <2>5. CASE o < l
    <3>1. LengthLeft(p, o) = l - o
      BY <1>1, <1>2, <1>3, <2>5, LeftOfFirst
    <3> HIDE DEF o, s, l, p
    <3>2. LengthLeft(p, o) = s /\ o + s <= DVFilter_GetPktLen(p)
      BY <1>1, <1>2, <1>3, <1>4, <1>7, <2>4, <3>1
    <3> QED
      BY <2>3, <3>2 DEF o, s, p
  <2>6. CASE ~(o < l)
    <3>1. l = o
      <4> HIDE DEF o, l
      <4> QED
        BY <1>1, <1>3, <2>6
    <3>2. o + s <= DVFilter_GetPktLen(p)
      <4> HIDE DEF o, s, p, l
      <4> QED
        BY <1>2, <1>3, <1>4, <2>4
    <3> QED
      BY <2>3, <3>1, <3>2 DEF RegionInside
  <2> QED
    BY <2>5, <2>6
<1> QED
  BY <1>6, <1>7

\* The transport header is referenced where it is, unless the IP header starts the
\* second fragment: the region an IP header fills is too short to serve again.
LEMMA TransportReferenced ==
  ASSUME NEW f \in Frames, NEW size \in {UDPHdr_Size, TCPHdr_Size},
         EthRef(f).ref # NULL, IpRef(f).ref # NULL, TransportRef(f, size).ref # NULL,
         ~RegionInside(f), size = TCPHdr_Size \/ f.ihl >= 5
  PROVE  /\ TransportRef(f, size).ref = TransportStart(f)
         /\ TransportStart(f) + size <= DVFilter_GetPktLen(f.pkt)
<1> DEFINE p == f.pkt
           o == TransportStart(f)
           d == IpRef(f).direct
           l == FragLength(p, 0)
<1>1. /\ EthRef(f).direct = [offset |-> 0, len |-> l]
      /\ l \in Nat /\ l <= DVFilter_GetPktLen(p)
  BY EthReferenced
<1>2. IsPkt(p) /\ DVFilter_GetPktLen(p) \in Nat
  BY FrameFacts
<1>3. o \in Nat /\ size \in {8, 20} /\ IpStart(f) \in {14, 18, 22, 26}
  BY StartFacts DEF UDPHdr_Size, TCPHdr_Size
<1>4. d = [offset |-> 0, len |-> l] \/ d = [offset |-> IpStart(f), len |-> IpSize(f)]
  BY <1>1, IpReferenced
<1>5. CASE d.len > 0 /\ o >= d.offset /\ o + size < d.offset + d.len
  <2>1. TransportRef(f, size).ref = d.offset + o
    BY <1>5 DEF TransportRef, PktDirectRef
  <2>2. CASE d = [offset |-> 0, len |-> l]
    <3>1. d.offset = 0 /\ d.len = l
      BY <2>2
    <3> HIDE DEF o, d, l, p
    <3>2. d.offset + o = o /\ o + size <= DVFilter_GetPktLen(p)
      BY <1>1, <1>2, <1>3, <1>5, <3>1
    <3> QED
      BY <2>1, <3>2 DEF o, p
  <2>3. CASE d = [offset |-> IpStart(f), len |-> IpSize(f)]
    <3>1. d.offset = IpStart(f) /\ d.len = IpSize(f)
      BY <2>3
    <3>2. o + size < IpStart(f) + IpSize(f)
      BY <1>5, <3>1
    <3>3. f.ihl \in Nat
      BY FrameFacts
    <3>4. CASE f.etherType = ETH_TYPE_IPV6
      <4>1. o = IpStart(f) + 40 /\ IpSize(f) = 40
        BY <3>4 DEF TransportStart, IpSize, IPv6Hdr_Size
      <4> HIDE DEF o
      <4> QED
        BY <1>3, <3>2, <4>1
    <3>5. CASE f.etherType # ETH_TYPE_IPV6
      <4>1. o = IpStart(f) + 4 * f.ihl /\ IpSize(f) = 20
        BY <3>5 DEF TransportStart, IpSize, IPHdr_Size
      <4>2. size = 20 \/ f.ihl >= 5
        BY DEF TCPHdr_Size
      <4> HIDE DEF o
      <4> QED
        BY <1>3, <3>2, <3>3, <4>1, <4>2
    <3> QED
      BY <3>4, <3>5
  <2> QED
    BY <1>4, <2>2, <2>3
<1>6. CASE ~(d.len > 0 /\ o >= d.offset /\ o + size < d.offset + d.len)
  <2>1. TransportRef(f, size) = IF DirectRange(p, o, size)
                     THEN [ref |-> o, direct |-> [offset |-> o, len |-> LengthLeft(p, o)]]
                     ELSE [ref |-> NULL, direct |-> d]
    BY <1>6 DEF TransportRef, PktDirectRef
  <2>2. DirectRange(p, o, size)
    BY <2>1
  <2>3. LengthLeft(p, o) \in Nat /\ LengthLeft(p, o) >= size /\ o + LengthLeft(p, o) <= DVFilter_GetPktLen(p)
    BY <1>2, <1>3, <2>2, LeftInside DEF DirectRange
  <2>4. o + size <= DVFilter_GetPktLen(p)
    <3> HIDE DEF o, p
    <3> QED
      BY <1>2, <1>3, <2>3
  <2> QED
    BY <2>1, <2>2, <2>4
<1> QED
  BY <1>5, <1>6

\* All headers of a frame that fit into its first fragment are referenced.
LEMMA OneFragmentReferenced ==
  ASSUME NEW f \in Frames, NEW size \in {UDPHdr_Size, TCPHdr_Size}, InOneFragment(f)
  PROVE  EthRef(f).ref = 0 /\ IpRef(f).ref = IpStart(f) /\ TransportRef(f, size).ref = TransportStart(f)
<1> DEFINE p == f.pkt
           l == FragLength(p, 0)
           i == IpStart(f)
           t == TransportStart(f)
<1>1. IsPkt(p) /\ f.ihl \in Nat
  BY FrameFacts
<1>2. i \in {14, 18, 22, 26} /\ t \in Nat /\ t >= i /\ size \in {8, 20} /\ IpSize(f) \in {20, 40}
  BY StartFacts DEF UDPHdr_Size, TCPHdr_Size, IpSize, IPHdr_Size, IPv6Hdr_Size
<1>3. p.n >= 1 /\ t + 20 < l
  BY DEF InOneFragment, TCPHdr_Size
<1>4. l \in Nat
  <2>1. p.at[0] = 0 /\ p.at[1] \in Nat
    BY <1>1, <1>3 DEF IsPkt
  <2> QED
    BY <2>1 DEF FragLength
<1>5. i + IpSize(f) <= t + 20
  <2>1. CASE f.etherType = ETH_TYPE_IPV6
    BY <1>2, <2>1 DEF TransportStart, IpSize, IPv6Hdr_Size
  <2>2. CASE f.etherType # ETH_TYPE_IPV6
    BY <1>1, <1>2, <2>2 DEF TransportStart, IpSize, IPHdr_Size
  <2> QED
    BY <2>1, <2>2
<1> HIDE DEF p, l, i, t
<1>6. 0 < l /\ l - 0 = l /\ l >= 26 /\ i + IpSize(f) < l /\ t + size < l
  BY <1>2, <1>3, <1>4, <1>5
<1>7. LengthLeft(p, 0) = l
  <2>1. LengthLeft(p, 0) = l - 0
    BY <1>1, <1>3, <1>6, LeftOfFirst DEF l
  <2> QED
    BY <1>6, <2>1
<1>8. DirectRange(p, 0, Eth_Header_Size)
  BY <1>4, <1>6, <1>7 DEF DirectRange, Eth_Header_Size
<1>9. EthRef(f) = [ref |-> 0, direct |-> [offset |-> 0, len |-> l]]
  BY <1>7, <1>8 DEF EthRef, PktDirectRef, NoDirect, p
<1>10. EthRef(f).direct.offset = 0 /\ EthRef(f).direct.len = l
  BY <1>9
<1>11. l > 0 /\ i >= 0 /\ i + IpSize(f) < 0 + l /\ 0 + i = i /\ t >= 0 /\ t + size < 0 + l /\ 0 + t = t
  BY <1>2, <1>4, <1>6
<1>12. IpRef(f) = [ref |-> i, direct |-> EthRef(f).direct]
  BY <1>10, <1>11 DEF IpRef, PktDirectRef, i
<1>13. TransportRef(f, size).ref = t
  BY <1>10, <1>11, <1>12 DEF TransportRef, PktDirectRef, t
<1> QED
  BY <1>9, <1>12, <1>13 DEF i, t

--------------------------------------------------------------------------------
(* ParsePacket() and PerformNAPT(). *)

\* The frame carries IPv4 or IPv6.
IsIp(f) == f.etherType \in {ETH_TYPE_IPV4, ETH_TYPE_IPV6}

\* What ParsePacket() has found when it has read the Ethernet header.
LinkInfo(f) ==
  [NoInfo EXCEPT !.ethtype = ntohs(f.etherType),
     !.vlanID = IF f.framing = "802_1PQ" THEN EthVlanTagGetVlanID(EthHeader(f)[14]) ELSE 0,
     !.priority = IF f.framing = "802_1PQ" THEN EthVlanTagPriority(EthHeader(f)[14]) ELSE 0]

\* The bytes asked for at the start of the transport header.
TransportSize(f) == IF f.protocol = IPPROTO_UDP THEN UDPHdr_Size ELSE TCPHdr_Size

\* The transport header is one the filter reads, and can be referenced.
HasTransport(f) ==
  f.protocol \in {IPPROTO_UDP, IPPROTO_TCP} /\ TransportRef(f, TransportSize(f)).ref # NULL

\* The type of a frame is compared in network byte order.
LEMMA TypeRead ==
  ASSUME NEW f \in Frames
  PROVE  /\ ntohs(f.etherType) \in {ETH_TYPE_IPV4_NBO, ETH_TYPE_IPV6_NBO} <=> IsIp(f)
         /\ ntohs(f.etherType) = ETH_TYPE_IPV6_NBO <=> f.etherType = ETH_TYPE_IPV6
<1>1. f.etherType \in {ETH_TYPE_IPV4, ETH_TYPE_IPV6, ETH_TYPE_ARP}
  BY FrameFacts
<1> QED
  BY <1>1, Swapped DEF IsIp, ETH_TYPE_IPV4, ETH_TYPE_IPV4_NBO, ETH_TYPE_IPV6, ETH_TYPE_IPV6_NBO,
                       ETH_TYPE_ARP, ETH_TYPE_ARP_NBO

\* How ParsePacket() can end: without the Ethernet header, without an IP header, or
\* with the protocol of the frame and the ports it found.
LEMMA ParsePacketEnds ==
  ASSUME NEW f \in Frames, NEW info \in ParsePacket(f)
  PROVE  \/ info = NoInfo /\ EthRef(f).ref = NULL
         \/ info = LinkInfo(f) /\ EthRef(f).ref # NULL /\ (~IsIp(f) \/ IpRef(f).ref = NULL)
         \/ /\ EthRef(f).ref # NULL /\ IsIp(f) /\ IpRef(f).ref # NULL
            /\ IF HasTransport(f)
                 THEN \E ports \in PortsAt(f, TransportRef(f, TransportSize(f)).ref) :
                        info = [LinkInfo(f) EXCEPT !.protocol = f.protocol,
                                                   !.srcPort = ports[1], !.dstPort = ports[2]]
                 ELSE info = [LinkInfo(f) EXCEPT !.protocol = f.protocol]
<1> DEFINE eth  == PktDirectRef(f.pkt, 0, Eth_Header_Size, NoDirect)
           eh   == EthHeader(f)
           enc  == EthEncapsulatedPktType(eh)
           link == [NoInfo EXCEPT !.ethtype = enc.typeNBO,
                      !.vlanID = IF EthHeaderType(eh) = "802_1PQ" THEN EthVlanTagGetVlanID(eh[14]) ELSE 0,
                      !.priority = IF EthHeaderType(eh) = "802_1PQ" THEN EthVlanTagPriority(eh[14]) ELSE 0]
           v6   == enc.typeNBO = ETH_TYPE_IPV6_NBO
           ip   == PktDirectRef(f.pkt, enc.offset, IF v6 THEN IPv6Hdr_Size ELSE IPHdr_Size, eth.direct)
           next == enc.offset + (IF v6 THEN IPv6Hdr_Size ELSE 4 * f.ihl)
           Transport(p) == PktDirectRef(f.pkt, next, IF p = IPPROTO_UDP THEN UDPHdr_Size ELSE TCPHdr_Size,
                                        ip.direct)
           Infos(p) == IF p \in {IPPROTO_UDP, IPPROTO_TCP} /\ Transport(p).ref # NULL
                         THEN {[link EXCEPT !.protocol = p, !.srcPort = ports[1], !.dstPort = ports[2]] :
                                 ports \in PortsAt(f, Transport(p).ref)}
                         ELSE {[link EXCEPT !.protocol = p]}
<1>1. ParsePacket(f) = IF eth.ref = NULL THEN {NoInfo}
                       ELSE IF enc.typeNBO \notin {ETH_TYPE_IPV4_NBO, ETH_TYPE_IPV6_NBO} \/ ip.ref = NULL
                         THEN {link}
                       ELSE UNION {Infos(p) : p \in ProtocolAt(f, ip.ref)}
  BY DEF ParsePacket
<1>2. enc.typeNBO = ntohs(f.etherType) /\ enc.offset = IpStart(f) /\ EthHeaderType(eh) = f.framing
  BY HeaderRead
<1>3. eth = EthRef(f) /\ link = LinkInfo(f)
  BY <1>2 DEF EthRef, LinkInfo
<1>4. v6 <=> f.etherType = ETH_TYPE_IPV6
  BY <1>2, TypeRead
<1>5. ip = IpRef(f) /\ next = TransportStart(f)
  BY <1>2, <1>3, <1>4 DEF IpRef, IpSize, TransportStart
<1>6. Transport(f.protocol) = TransportRef(f, TransportSize(f))
  BY <1>5 DEF TransportRef, TransportSize
<1>7. IpRef(f).ref # NULL /\ EthRef(f).ref # NULL => ProtocolAt(f, ip.ref) = {f.protocol}
  BY <1>5, IpReferenced DEF ProtocolAt
<1>8. enc.typeNBO \in {ETH_TYPE_IPV4_NBO, ETH_TYPE_IPV6_NBO} <=> IsIp(f)
  BY <1>2, TypeRead
<1>9. Infos(f.protocol) =
        IF HasTransport(f)
          THEN {[LinkInfo(f) EXCEPT !.protocol = f.protocol, !.srcPort = ports[1], !.dstPort = ports[2]] :
                  ports \in PortsAt(f, TransportRef(f, TransportSize(f)).ref)}
          ELSE {[LinkInfo(f) EXCEPT !.protocol = f.protocol]}
  <2> HIDE DEF eth, enc, link, ip, Transport
  <2> QED
    BY <1>3, <1>6, Zenon DEF HasTransport
<1> HIDE DEF eth, enc, link, ip, Infos
<1>10. CASE EthRef(f).ref = NULL
  BY <1>1, <1>3, <1>10
<1>11. CASE EthRef(f).ref # NULL /\ (~IsIp(f) \/ IpRef(f).ref = NULL)
  BY <1>1, <1>3, <1>5, <1>8, <1>11
<1>12. CASE EthRef(f).ref # NULL /\ IsIp(f) /\ IpRef(f).ref # NULL
  <2>1. info \in Infos(f.protocol)
    BY <1>1, <1>3, <1>5, <1>7, <1>8, <1>12
  <2>2. CASE HasTransport(f)
    BY <1>9, <1>12, <2>1, <2>2
  <2>3. CASE ~HasTransport(f)
    BY <1>9, <1>12, <2>1, <2>3
  <2> QED
    BY <2>2, <2>3
<1> QED
  BY <1>10, <1>11, <1>12

\* A packet that matched was parsed up to its protocol, and a TCP packet up to its
\* ports: a match needs them.
LEMMA MatchReferenced ==
  ASSUME NEW f \in Frames, NEW info \in ParsePacket(f), NEW s, FilterPacket(info, s)
  PROVE  /\ EthRef(f).ref # NULL /\ IsIp(f) /\ IpRef(f).ref # NULL
         /\ info.protocol = f.protocol
         /\ f.protocol = IPPROTO_TCP => TransportRef(f, TCPHdr_Size).ref # NULL
<1>1. NoInfo.protocol = 0 /\ LinkInfo(f).protocol = 0
  BY DEF LinkInfo, NoInfo
<1>2. info.protocol # 0
  BY DEF FilterPacket, IPPROTO_ICMP, IPPROTO_ICMPV6, IPPROTO_UDP, IPPROTO_TCP
<1>3. /\ EthRef(f).ref # NULL /\ IsIp(f) /\ IpRef(f).ref # NULL
      /\ IF HasTransport(f)
           THEN \E ports \in PortsAt(f, TransportRef(f, TransportSize(f)).ref) :
                  info = [LinkInfo(f) EXCEPT !.protocol = f.protocol,
                                             !.srcPort = ports[1], !.dstPort = ports[2]]
           ELSE info = [LinkInfo(f) EXCEPT !.protocol = f.protocol]
  BY <1>1, <1>2, ParsePacketEnds
<1>4. info.protocol = f.protocol
  BY <1>3 DEF LinkInfo, NoInfo
<1>5. ASSUME f.protocol = IPPROTO_TCP PROVE HasTransport(f)
  <2> SUFFICES ASSUME ~HasTransport(f) PROVE FALSE
    OBVIOUS
  <2>1. info.srcPort = 0 /\ info.dstPort = 0
    BY <1>3 DEF LinkInfo, NoInfo
  <2> QED
    BY <1>4, <1>5, <2>1 DEF FilterPacket, IPPROTO_ICMP, IPPROTO_ICMPV6, IPPROTO_UDP, IPPROTO_TCP
<1>6. f.protocol = IPPROTO_TCP => TransportSize(f) = TCPHdr_Size
  BY DEF TransportSize, IPPROTO_TCP, IPPROTO_UDP
<1> QED
  BY <1>3, <1>4, <1>5, <1>6 DEF HasTransport

\* What PerformNAPT() does to a packet that was parsed up to its protocol.
LEMMA PerformNAPTEnds ==
  ASSUME NEW f \in Frames, NEW newport, NEW d, NEW r \in PerformNAPT(f, newport, d),
         EthRef(f).ref # NULL, IsIp(f), IpRef(f).ref # NULL
  PROVE  LET ref == TransportRef(f, TCPHdr_Size).ref
         IN  r = IF \/ FrameLen(f) < IpStart(f) + IpSize(f)
                    \/ f.protocol # IPPROTO_TCP
                    \/ FrameLen(f) < TransportStart(f) + TCPHdr_Size
                   THEN Unchanged(f)
                 ELSE IF ref = NULL THEN [Unchanged(f) EXCEPT !.assert = TRUE]
                 ELSE IF ref # TransportStart(f) THEN [Unchanged(f) EXCEPT !.tcp = NULL]
                 ELSE [Unchanged(f) EXCEPT !.tcp = Rewrite(f, newport, d)]
<1> DEFINE eth  == PktDirectRef(f.pkt, 0, Eth_Header_Size, NoDirect)
           enc  == EthEncapsulatedPktType(EthHeader(f))
           size == IF enc.typeNBO = ETH_TYPE_IPV6_NBO THEN IPv6Hdr_Size ELSE IPHdr_Size
           ip   == PktDirectRef(f.pkt, enc.offset, size, eth.direct)
           next == enc.offset + (IF enc.typeNBO = ETH_TYPE_IPV6_NBO THEN IPv6Hdr_Size ELSE 4 * f.ihl)
           tcp  == PktDirectRef(f.pkt, next, TCPHdr_Size, ip.direct)
           Result(p) ==
             IF p # IPPROTO_TCP \/ FrameLen(f) < next + TCPHdr_Size THEN Unchanged(f)
             ELSE IF tcp.ref = NULL THEN [Unchanged(f) EXCEPT !.assert = TRUE]
             ELSE IF tcp.ref # TransportStart(f) THEN [Unchanged(f) EXCEPT !.tcp = NULL]
             ELSE [Unchanged(f) EXCEPT !.tcp = Rewrite(f, newport, d)]
<1>1. PerformNAPT(f, newport, d) =
        IF \/ eth.ref = NULL
           \/ enc.typeNBO \notin {ETH_TYPE_IPV4_NBO, ETH_TYPE_IPV6_NBO}
           \/ ip.ref = NULL
           \/ FrameLen(f) < enc.offset + size
          THEN {Unchanged(f)}
        ELSE {Result(p) : p \in ProtocolAt(f, ip.ref)}
  BY DEF PerformNAPT
<1>2. enc.typeNBO = ntohs(f.etherType) /\ enc.offset = IpStart(f)
  BY HeaderRead
<1>3. eth = EthRef(f)
  BY DEF EthRef
<1>4. enc.typeNBO = ETH_TYPE_IPV6_NBO <=> f.etherType = ETH_TYPE_IPV6
  BY <1>2, TypeRead
<1>5. size = IpSize(f) /\ next = TransportStart(f)
  BY <1>2, <1>4 DEF IpSize, TransportStart
<1>6. ip = IpRef(f)
  BY <1>2, <1>3, <1>5 DEF IpRef
<1>7. tcp = TransportRef(f, TCPHdr_Size)
  BY <1>5, <1>6 DEF TransportRef
<1>8. enc.typeNBO \in {ETH_TYPE_IPV4_NBO, ETH_TYPE_IPV6_NBO}
  BY <1>2, TypeRead
<1>9. ProtocolAt(f, ip.ref) = {f.protocol}
  BY <1>6, IpReferenced DEF ProtocolAt
<1> HIDE DEF eth, enc, size, ip, next, tcp
<1>10. CASE FrameLen(f) < IpStart(f) + IpSize(f)
  <2>1. r = Unchanged(f)
    BY <1>1, <1>2, <1>5, <1>10
  <2> QED
    BY <1>10, <2>1
<1>11. CASE ~(FrameLen(f) < IpStart(f) + IpSize(f))
  <2>1. r = Result(f.protocol)
    <3> HIDE DEF Result
    <3> QED
      BY <1>1, <1>2, <1>3, <1>5, <1>6, <1>8, <1>9, <1>11, Zenon
  <2> QED
    BY <1>5, <1>7, <1>11, <2>1
<1> QED
  BY <1>10, <1>11

\* No result of PerformNAPT() for a packet that matched fails an assertion, and each
\* leaves the header as it is or rewrites it, unless the IP header starts the second
\* fragment.
LEMMA NaptResult ==
  ASSUME NEW f \in Frames, NEW info \in ParsePacket(f), NEW s, FilterPacket(info, s),
         NEW newport, NEW d, NEW r \in PerformNAPT(f, newport, d)
  PROVE  /\ r.assert = FALSE
         /\ \/ r.tcp = Tcp(f)
            \/ r.tcp = Rewrite(f, newport, d)
            \/ r.tcp = NULL /\ RegionInside(f)
<1>1. /\ EthRef(f).ref # NULL /\ IsIp(f) /\ IpRef(f).ref # NULL
      /\ f.protocol = IPPROTO_TCP => TransportRef(f, TCPHdr_Size).ref # NULL
  BY MatchReferenced
<1> DEFINE short == \/ FrameLen(f) < IpStart(f) + IpSize(f)
                    \/ f.protocol # IPPROTO_TCP
                    \/ FrameLen(f) < TransportStart(f) + TCPHdr_Size
           ref == TransportRef(f, TCPHdr_Size).ref
<1>2. r = IF short THEN Unchanged(f)
          ELSE IF ref = NULL THEN [Unchanged(f) EXCEPT !.assert = TRUE]
          ELSE IF ref # TransportStart(f) THEN [Unchanged(f) EXCEPT !.tcp = NULL]
          ELSE [Unchanged(f) EXCEPT !.tcp = Rewrite(f, newport, d)]
  BY <1>1, PerformNAPTEnds
<1>3. ~short => ref # NULL
  BY <1>1
<1>4. ref # NULL /\ ref # TransportStart(f) => RegionInside(f)
  BY <1>1, TransportReferenced
<1>5. Unchanged(f) = [tcp |-> Tcp(f), assert |-> FALSE]
  BY DEF Unchanged
<1> HIDE DEF short, ref
<1>6. \/ r = Unchanged(f)
      \/ r = [Unchanged(f) EXCEPT !.tcp = NULL] /\ RegionInside(f)
      \/ r = [Unchanged(f) EXCEPT !.tcp = Rewrite(f, newport, d)]
  BY <1>2, <1>3, <1>4
<1> QED
  BY <1>5, <1>6

\* The bit fields of a tag, read from the swapped word.
LEMMA TagRead ==
  ASSUME NEW tci \in Nat, tci < 65536
  PROVE  /\ EthVlanTagGetVlanID(ntohs(tci)) = tci % 4096
         /\ EthVlanTagPriority(ntohs(tci)) = tci \div 8192
<1> DEFINE h == tci \div 256
           l == tci % 256
<1>1. h \in Nat /\ l \in Nat /\ l < 256 /\ h < 256 /\ tci = 256 * h + l
  OBVIOUS
<1>2. ntohs(tci) = 256 * l + h
  BY DEF ntohs
<1> HIDE DEF h, l
<1>3. /\ (256 * l + h) % 16 = h % 16 /\ (256 * l + h) \div 256 = l
      /\ (256 * l + h) \div 32 = 8 * l + h \div 32
  BY <1>1
<1>4. tci % 4096 = (h % 16) * 256 + l
  BY <1>1
<1>5. tci \div 8192 = h \div 32 /\ (8 * l + h \div 32) % 8 = h \div 32
  BY <1>1
<1> QED
  BY <1>2, <1>3, <1>4, <1>5 DEF EthVlanTagGetVlanID, EthVlanTagPriority

\* What ParsePacket() looks for in a frame: all of it but the tag of a tagged 802.3 frame.
ReadInfo(f) ==
  [ethtype |-> ntohs(f.etherType),
   protocol |-> IF f.etherType = ETH_TYPE_ARP THEN 0 ELSE f.protocol,
   srcPort |-> IF f.etherType # ETH_TYPE_ARP /\ f.protocol \in {IPPROTO_TCP, IPPROTO_UDP}
                 THEN f.source ELSE 0,
   dstPort |-> IF f.etherType # ETH_TYPE_ARP /\ f.protocol \in {IPPROTO_TCP, IPPROTO_UDP}
                 THEN f.dest ELSE 0,
   vlanID |-> IF f.framing = "802_1PQ" THEN f.tci % 4096 ELSE 0,
   priority |-> IF f.framing = "802_1PQ" THEN f.tci \div 8192 ELSE 0]

\* What ParsePacket() reads from the Ethernet header is what it looks for.
LEMMA LinkRead ==
  ASSUME NEW f \in Frames
  PROVE  LinkInfo(f) = [ethtype |-> ReadInfo(f).ethtype, protocol |-> 0,
                        srcPort |-> 0, dstPort |-> 0,
                        vlanID |-> ReadInfo(f).vlanID, priority |-> ReadInfo(f).priority]
<1>1. f.tci \in Nat /\ f.tci < 65536
  BY FrameFacts
<1>2. f.framing = "802_1PQ" => EthHeader(f)[14] = ntohs(f.tci)
  BY DEF EthHeader, IpStart, Tagged
<1>3. f.framing = "802_1PQ" =>
        /\ EthVlanTagGetVlanID(EthHeader(f)[14]) = f.tci % 4096
        /\ EthVlanTagPriority(EthHeader(f)[14]) = f.tci \div 8192
  BY <1>1, <1>2, TagRead
<1> DEFINE e == ntohs(f.etherType)
           v == IF f.framing = "802_1PQ" THEN EthVlanTagGetVlanID(EthHeader(f)[14]) ELSE 0
           pr == IF f.framing = "802_1PQ" THEN EthVlanTagPriority(EthHeader(f)[14]) ELSE 0
<1>4. ReadInfo(f).ethtype = e /\ ReadInfo(f).vlanID = v /\ ReadInfo(f).priority = pr
  <2>1. CASE f.framing = "802_1PQ"
    <3>1. v = f.tci % 4096 /\ pr = f.tci \div 8192
      BY <1>3, <2>1
    <3> HIDE DEF v, pr
    <3> QED
      BY <2>1, <3>1 DEF ReadInfo
  <2>2. CASE f.framing # "802_1PQ"
    BY <2>2 DEF ReadInfo
  <2> QED
    BY <2>1, <2>2
<1>5. LinkInfo(f) = [NoInfo EXCEPT !.ethtype = e, !.vlanID = v, !.priority = pr]
  BY Zenon DEF LinkInfo
<1> HIDE DEF e, v, pr
<1>6. LinkInfo(f) = [ethtype |-> e, protocol |-> 0, srcPort |-> 0, dstPort |-> 0,
                     vlanID |-> v, priority |-> pr]
  BY <1>5 DEF NoInfo
<1> QED
  BY <1>4, <1>6

\* A frame that is an IP packet is none of ARP.
LEMMA IpFrames ==
  ASSUME NEW f \in Frames
  PROVE  IsIp(f) <=> f.etherType # ETH_TYPE_ARP
BY FrameFacts DEF IsIp, ETH_TYPE_IPV4, ETH_TYPE_IPV6, ETH_TYPE_ARP

\* What ParsePacket() has read of a frame is what it looks for, as far as it gets.
ReadRight(f, info) ==
  /\ InOneFragment(f) => info = ReadInfo(f)
  /\ ~RegionInside(f) /\ f.ihl >= 5 =>
       \A k \in DOMAIN NoInfo : info[k] \in {NoInfo[k], ReadInfo(f)[k]}

\* What ParsePacket() finds is right, as far as it gets.
LEMMA ParsePacketReads ==
  ASSUME NEW f \in Frames, NEW info \in ParsePacket(f), info # NoInfo
  PROVE  ReadRight(f, info)
<1> DEFINE R == ReadInfo(f)
           L == LinkInfo(f)
           ref == TransportRef(f, TransportSize(f)).ref
<1>1. L = [ethtype |-> R.ethtype, protocol |-> 0, srcPort |-> 0, dstPort |-> 0,
           vlanID |-> R.vlanID, priority |-> R.priority]
  BY LinkRead
<1>2. TransportSize(f) \in {UDPHdr_Size, TCPHdr_Size}
  BY DEF TransportSize
<1>3. DOMAIN NoInfo = {"ethtype", "protocol", "srcPort", "dstPort", "vlanID", "priority"}
      /\ NoInfo.ethtype = 0 /\ NoInfo.protocol = 0 /\ NoInfo.srcPort = 0 /\ NoInfo.dstPort = 0
      /\ NoInfo.vlanID = 0 /\ NoInfo.priority = 0
  BY DEF NoInfo
<1>4. R = [ethtype |-> R.ethtype, protocol |-> R.protocol, srcPort |-> R.srcPort,
           dstPort |-> R.dstPort, vlanID |-> R.vlanID, priority |-> R.priority]
  BY DEF ReadInfo
<1>5. InOneFragment(f) => EthRef(f).ref # NULL /\ IpRef(f).ref # NULL /\ ref # NULL /\ ref = TransportStart(f)
  <2> SUFFICES ASSUME InOneFragment(f)
               PROVE  EthRef(f).ref # NULL /\ IpRef(f).ref # NULL /\ ref # NULL /\ ref = TransportStart(f)
    OBVIOUS
  <2>1. EthRef(f).ref = 0 /\ IpRef(f).ref = IpStart(f) /\ ref = TransportStart(f)
    BY <1>2, OneFragmentReferenced
  <2>2. 0 \in Nat /\ IpStart(f) \in Nat /\ TransportStart(f) \in Nat
    BY StartFacts
  <2>3. NULL \notin Nat
    BY FilterAssumption
  <2> QED
    BY <2>1, <2>2, <2>3
<1>6. CASE info = L /\ EthRef(f).ref # NULL /\ (~IsIp(f) \/ IpRef(f).ref = NULL)
  <2>1. InOneFragment(f) => R.protocol = 0 /\ R.srcPort = 0 /\ R.dstPort = 0
    BY <1>5, <1>6, IpFrames DEF ReadInfo
  <2>2. InOneFragment(f) => info = R
    <3> HIDE DEF R, L
    <3> QED
      BY <1>1, <1>4, <1>6, <2>1
  <2>3. \A k \in DOMAIN NoInfo : info[k] \in {NoInfo[k], R[k]}
    <3> HIDE DEF R, L
    <3> QED
      BY <1>1, <1>3, <1>6
  <2> QED
    BY <2>2, <2>3 DEF ReadRight
<1>7. CASE IsIp(f) /\ EthRef(f).ref # NULL /\ IpRef(f).ref # NULL /\ ~HasTransport(f)
           /\ info = [L EXCEPT !.protocol = f.protocol]
  <2>1. R.protocol = f.protocol
    BY <1>7, IpFrames DEF ReadInfo
  <2>2. InOneFragment(f) => R.srcPort = 0 /\ R.dstPort = 0
    BY <1>5, <1>7 DEF HasTransport, ReadInfo
  <2> HIDE DEF L, R
  <2>3. InOneFragment(f) => info = R
    BY <1>1, <1>4, <1>7, <2>1, <2>2
  <2>4. \A k \in DOMAIN NoInfo : info[k] \in {NoInfo[k], R[k]}
    BY <1>1, <1>3, <1>7, <2>1
  <2> QED
    BY <2>3, <2>4 DEF ReadRight, R
<1>8. CASE IsIp(f) /\ EthRef(f).ref # NULL /\ IpRef(f).ref # NULL /\ HasTransport(f)
           /\ \E ports \in PortsAt(f, ref) :
                info = [L EXCEPT !.protocol = f.protocol, !.srcPort = ports[1], !.dstPort = ports[2]]
  <2>1. R.protocol = f.protocol /\ R.srcPort = f.source /\ R.dstPort = f.dest
    BY <1>8, IpFrames DEF HasTransport, ReadInfo
  <2>2. InOneFragment(f) \/ (~RegionInside(f) /\ f.ihl >= 5) => ref = TransportStart(f)
    BY <1>2, <1>5, <1>8, TransportReferenced DEF HasTransport
  <2>3. PICK ports \in PortsAt(f, ref) :
          info = [L EXCEPT !.protocol = f.protocol, !.srcPort = ports[1], !.dstPort = ports[2]]
    BY <1>8
  <2>4. ref = TransportStart(f) => ports[1] = f.source /\ ports[2] = f.dest
    BY DEF PortsAt
  <2> HIDE DEF L, R, ref
  <2>5. info = [ethtype |-> R.ethtype, protocol |-> R.protocol, srcPort |-> ports[1],
                dstPort |-> ports[2], vlanID |-> R.vlanID, priority |-> R.priority]
    BY <1>1, <2>1, <2>3
  <2>6. ref = TransportStart(f) => info = R
    BY <1>4, <2>1, <2>4, <2>5, Zenon
  <2> QED
    BY <2>2, <2>6 DEF ReadRight, R
<1> QED
  BY <1>6, <1>7, <1>8, ParsePacketEnds

\* It looks for what the frame is about, but for a tag it does not look at.
LEMMA ReadIsReference ==
  ASSUME NEW f \in Frames
  PROVE  /\ DOMAIN NoInfo = {"ethtype", "protocol", "srcPort", "dstPort", "vlanID", "priority"}
         /\ \A k \in DOMAIN NoInfo : NoInfo[k] = 0
         /\ \A k \in DOMAIN NoInfo :
              ReadInfo(f)[k] = IF TagUnread(f, k) THEN 0 ELSE ReferenceInfo(f)[k]
<1>1. DOMAIN NoInfo = {"ethtype", "protocol", "srcPort", "dstPort", "vlanID", "priority"}
  BY DEF NoInfo
<1>2. \A k \in DOMAIN NoInfo : NoInfo[k] = 0
  BY <1>1 DEF NoInfo
<1>3. ASSUME NEW k \in {"ethtype", "protocol", "srcPort", "dstPort"}
      PROVE  ReadInfo(f)[k] = ReferenceInfo(f)[k] /\ ~TagUnread(f, k)
  BY DEF ReadInfo, ReferenceInfo, TagUnread
<1>4. ASSUME NEW k \in {"vlanID", "priority"}
      PROVE  ReadInfo(f)[k] = IF TagUnread(f, k) THEN 0 ELSE ReferenceInfo(f)[k]
  <2>1. f.framing \in Framings
    BY FrameFacts
  <2>2. CASE f.framing = "802_1PQ"
    BY <2>2 DEF ReadInfo, ReferenceInfo, TagUnread, Tagged
  <2>3. CASE f.framing = "802_1PQ_802_3"
    BY <2>3 DEF ReadInfo, TagUnread
  <2>4. CASE f.framing \in {"DIX", "802_3"}
    BY <2>4 DEF ReadInfo, ReferenceInfo, TagUnread, Tagged
  <2> QED
    BY <2>1, <2>2, <2>3, <2>4 DEF Framings
<1> QED
  BY <1>1, <1>2, <1>3, <1>4

\* ParsedRight for a single call.
ParsedRightOf(f, info) ==
  /\ InOneFragment(f) =>
       \A k \in DOMAIN NoInfo : info[k] = IF TagUnread(f, k) THEN 0 ELSE ReferenceInfo(f)[k]
  /\ ~RegionInside(f) /\ f.ihl >= 5 =>
       \A k \in DOMAIN NoInfo : info[k] \in {NoInfo[k], ReferenceInfo(f)[k]}

\* What ParsePacket() finds is right, as far as it gets.
LEMMA ParsePacketRight ==
  ASSUME NEW f \in Frames, NEW info \in ParsePacket(f), info # NoInfo
  PROVE  ParsedRightOf(f, info)
<1>1. ReadRight(f, info)
  BY ParsePacketReads
<1> QED
  BY <1>1, ReadIsReference DEF ReadRight, ParsedRightOf

\* Two folds bring a sum of three words into one word, and take a multiple of the
\* largest word away.
LEMMA FoldedTwice ==
  ASSUME NEW x \in Nat, x <= 3 * (Word16 - 1)
  PROVE  \E j \in 0 .. 2 : /\ Fold(Fold(x)) % Word16 = x - j * (Word16 - 1)
                           /\ x - j * (Word16 - 1) \in 0 .. Word16 - 1
<1> DEFINE W == Word16
           q == x \div W
           r == x % W
<1>1. W \in Nat /\ W >= 2
  BY FilterAssumption
<1>2. q \in Nat /\ r \in Nat /\ r < W /\ x = W * q + r
  BY <1>1
<1>3. Fold(x) = r + q
  BY DEF Fold
<1> HIDE DEF q, r, W
<1>4. q <= 2
  <2> SUFFICES ASSUME q >= 3 PROVE FALSE
    BY <1>2
  <2>1. W * q >= W * 3
    BY <1>1, <1>2
  <2> QED
    BY <1>1, <1>2, <2>1 DEF W
<1>5. ASSUME NEW y \in Nat, y < W
      PROVE  Fold(y) = y /\ y % W = y
  <2>1. y % W = y /\ y \div W = 0
    BY <1>1, <1>5
  <2> QED
    BY <2>1 DEF Fold, W
<1>6. Fold(W) = 1 /\ 1 % W = 1
  <2>1. W % W = 0 /\ W \div W = 1 /\ 1 % W = 1
    BY <1>1
  <2> QED
    BY <2>1 DEF Fold, W
<1>7. CASE q = 0
  <2>1. Fold(x) = x /\ x < W
    BY <1>1, <1>2, <1>3, <1>7
  <2>2. Fold(Fold(x)) % W = x
    BY <1>5, <2>1
  <2>3. x - 0 * (W - 1) = x /\ x \in 0 .. W - 1
    BY <1>1, <2>1
  <2> QED
    BY <2>2, <2>3 DEF W
<1>8. CASE q = 1
  <2>1. x = W + r /\ Fold(x) = r + 1
    BY <1>1, <1>2, <1>3, <1>8
  <2>2. CASE r + 1 < W
    <3>1. Fold(Fold(x)) % W = r + 1
      BY <1>2, <1>5, <2>1, <2>2
    <3>2. x - 1 * (W - 1) = r + 1 /\ r + 1 \in 0 .. W - 1
      BY <1>1, <1>2, <2>1, <2>2
    <3> QED
      BY <3>1, <3>2 DEF W
  <2>3. CASE ~(r + 1 < W)
    <3>1. r + 1 = W
      BY <1>1, <1>2, <2>3
    <3>2. Fold(Fold(x)) % W = 1
      BY <1>6, <2>1, <3>1
    <3>3. x - 2 * (W - 1) = 1 /\ 1 \in 0 .. W - 1
      BY <1>1, <1>2, <2>1, <3>1
    <3> QED
      BY <3>2, <3>3 DEF W
  <2> QED
    BY <2>2, <2>3
<1>9. CASE q = 2
  <2>1. x = 2 * W + r /\ Fold(x) = r + 2
    BY <1>1, <1>2, <1>3, <1>9
  <2>2. x <= 3 * (W - 1)
    BY DEF W
  <2>3. r + 2 < W
    BY <1>1, <1>2, <2>1, <2>2
  <2>4. Fold(Fold(x)) % W = r + 2
    BY <1>2, <1>5, <2>1, <2>3
  <2>5. x - 2 * (W - 1) = r + 2 /\ r + 2 \in 0 .. W - 1
    BY <1>1, <1>2, <2>1, <2>3
  <2> QED
    BY <2>4, <2>5 DEF W
<1> QED
  BY <1>2, <1>4, <1>7, <1>8, <1>9

\* The updated checksum is that of the new port, up to multiples of the largest word.
LEMMA CsumUpdated ==
  ASSUME NEW check \in 0 .. Word16 - 1, NEW old \in 0 .. Word16 - 1, NEW new \in 0 .. Word16 - 1
  PROVE  /\ Csum(check, old, new) \in 0 .. Word16 - 1
         /\ \E j \in 0 .. 2 : Csum(check, old, new) + new = check + old + (j - 1) * (Word16 - 1)
<1> DEFINE V == Word16 - 1
           x == (V - check) + new + (V - old)
<1>1. V \in Nat /\ V >= 1
  BY FilterAssumption
<1>2. x \in Nat /\ x <= 3 * V
  BY <1>1
<1>3. PICK j \in 0 .. 2 : Fold(Fold(x)) % Word16 = x - j * V /\ x - j * V \in 0 .. V
  <2> HIDE DEF x
  <2> QED
    BY <1>2, FoldedTwice
<1>4. Csum(check, old, new) = V - (x - j * V)
  <2>1. Csum(check, old, new) = V - (Fold(Fold(x)) % Word16)
    BY DEF Csum
  <2> QED
    BY <1>3, <2>1
<1>5. check \in Nat /\ old \in Nat /\ new \in Nat
  BY FilterAssumption
<1> HIDE DEF V
<1>6. V - (x - j * V) + new = check + old + (j - 1) * V
  <2>1. CASE j = 0
    BY <1>1, <1>5, <2>1
  <2>2. CASE j = 1
    BY <1>1, <1>5, <2>2
  <2>3. CASE j = 2
    BY <1>1, <1>5, <2>3
  <2> QED
    BY <2>1, <2>2, <2>3
<1>7. V - (x - j * V) \in 0 .. V
  <2> HIDE DEF x
  <2> QED
    BY <1>1, <1>3
<1> QED
  BY <1>4, <1>6, <1>7 DEF V

\* A sum that is a multiple of a positive number stays one when one such number is
\* added or taken away.
LEMMA MultipleMoved ==
  ASSUME NEW v \in Nat \ {0}, NEW k \in Nat, NEW j \in 0 .. 2, NEW sum \in Nat,
         sum = k * v + (j - 1) * v
  PROVE  \E i \in 0 .. sum : sum = i * v
<1>1. ASSUME NEW i \in Nat, sum = i * v
      PROVE  i \in 0 .. sum
  <2>1. i * v >= i
    BY <1>1
  <2> QED
    BY <1>1, <2>1
<1>2. CASE j = 0
  <2>1. k # 0
    BY <1>2
  <2>2. k - 1 \in Nat /\ (k - 1) * v = k * v - v
    BY <2>1
  <2>3. k * v \in Nat /\ sum = k * v - v
    BY <1>2
  <2> QED
    BY <1>1, <2>2, <2>3
<1>3. CASE j = 1
  <2>1. k * v \in Nat /\ sum = k * v
    BY <1>3
  <2> QED
    BY <1>1, <2>1
<1>4. CASE j = 2
  <2>1. k + 1 \in Nat /\ (k + 1) * v = k * v + v
    OBVIOUS
  <2>2. k * v \in Nat /\ sum = k * v + v
    BY <1>4
  <2> QED
    BY <1>1, <2>1, <2>2
<1> QED
  BY <1>2, <1>3, <1>4

\* PerformNAPT() leaves a right checksum right.
LEMMA RewriteValid ==
  ASSUME NEW f \in Frames, ~f.mustCsum, NEW newport \in 0 .. Word16 - 1, NEW d
  PROVE  ChecksumValid(f.rest, Rewrite(f, newport, d))
<1> DEFINE V == Word16 - 1
           t == Rewrite(f, newport, d)
           old == IF d = "FROM_SWITCH" THEN f.dest ELSE f.source
           other == IF d = "FROM_SWITCH" THEN f.source ELSE f.dest
           c == Csum(f.check, old, newport)
<1>1. V \in Nat \ {0}
  BY FilterAssumption
<1>2. f.source \in 0 .. V /\ f.dest \in 0 .. V /\ f.check \in 0 .. V /\ f.rest \in Nat
  BY FrameFacts
<1>3. PICK k \in Nat : f.rest + f.source + f.dest + f.check = k * V
  <2>1. ChecksumValid(f.rest, Tcp(f))
    BY FilterAssumption
  <2>2. Tcp(f).source = f.source /\ Tcp(f).dest = f.dest /\ Tcp(f).check = f.check
    BY DEF Tcp
  <2> QED
    BY <2>1, <2>2 DEF ChecksumValid
<1>4. old \in 0 .. V /\ other \in 0 .. V
  BY <1>2
<1>5. c \in 0 .. V
  BY <1>2, <1>4, CsumUpdated
<1>6. PICK j \in 0 .. 2 : c + newport = f.check + old + (j - 1) * V
  BY <1>2, <1>4, CsumUpdated
<1>7. f.rest + old + other + f.check = k * V
  <2>1. CASE d = "FROM_SWITCH"
    <3>1. old = f.dest /\ other = f.source
      BY <2>1
    <3> HIDE DEF old, other, V
    <3> QED
      BY <1>2, <1>3, <3>1
  <2>2. CASE d # "FROM_SWITCH"
    <3>1. old = f.source /\ other = f.dest
      BY <2>2
    <3> HIDE DEF old, other, V
    <3> QED
      BY <1>3, <3>1
  <2> QED
    BY <2>1, <2>2
<1>8. /\ t.check = c
      /\ \/ t.source = other /\ t.dest = newport
         \/ t.source = newport /\ t.dest = other
  BY DEF Rewrite
<1> DEFINE s == f.rest + other + newport + c
<1> HIDE DEF old, other, c, t, V
<1>9. s = k * V + (j - 1) * V /\ s \in Nat
  <2>1. newport \in Nat /\ old \in Nat /\ other \in Nat /\ c \in Nat /\ f.check \in Nat /\ f.rest \in Nat
    BY <1>1, <1>2, <1>4, <1>5 DEF V
  <2>2. k * V \in Int /\ (j - 1) * V \in Int
    BY <1>1
  <2> QED
    BY <1>6, <1>7, <2>1, <2>2
<1>10. \E i \in 0 .. s : s = i * V
  <2> HIDE DEF s
  <2> QED
    BY <1>1, <1>9, MultipleMoved
<1>11. f.rest + t.source + t.dest + t.check = s
  <2>1. newport \in Nat /\ other \in Nat /\ c \in Nat /\ f.rest \in Nat
    BY <1>1, <1>2, <1>4, <1>5 DEF V
  <2> QED
    BY <1>8, <2>1
<1>12. ChecksumValid(f.rest, t)
  <2> HIDE DEF s
  <2>1. \E i \in 0 .. f.rest + t.source + t.dest + t.check :
          f.rest + t.source + t.dest + t.check = i * V
    BY <1>10, <1>11
  <2> QED
    BY <2>1 DEF ChecksumValid, V
<1> QED
  BY <1>12 DEF t

--------------------------------------------------------------------------------
(* The callbacks. *)

\* ProcessPacket() calls CopyPacket() as CopySpec allows, one call at a time.
THEOREM ImplementsCopySpec == Spec => CopySpec
<1>1. Init => CopyInit
  BY DEF Init
<1>2. [Next]_allVars => [CopyNext]_copyVars
  <2>1. ASSUME NEW f \in Frames, NEW d \in Directions, ProcessPacket(f, d)
        PROVE  [CopyNext]_copyVars
    <3>1. CASE ProcessCopy(f, d)
      <4>1. PICK p \in Packets : CopyPacket(p, f.pkt, DVFilter_GetPktLen(f.pkt))
        BY <3>1 DEF ProcessCopy
      <4>2. f.pkt \in Packets /\ DVFilter_GetPktLen(f.pkt) \in CopyLens
        BY FrameFacts
      <4> QED
        BY <4>1, <4>2 DEF CopyNext
    <3>2. CASE ~ProcessCopy(f, d)
      <4>1. UNCHANGED copyVars
        BY <2>1, <3>2 DEF ProcessPacket, ProcessNull, ProcessCopied, ProcessForward, ProcessNoMemory,
                          ProcessReorderOrDelay, ProcessNAPT, ProcessDrop
      <4> QED
        BY <4>1
    <3> QED
      BY <3>1, <3>2
  <2>2. CASE (CopyCycle \/ CopyReturn) /\ UNCHANGED <<ownVars, call, service>>
    BY <2>2 DEF CopyNext
  <2>3. CASE ProcessReturn
    BY <2>3 DEF ProcessReturn, CopyNext
  <2>4. CASE ProcessCopyDone \/ CreateFilter \/ DestroyFilter
    BY <2>4 DEF ProcessCopyDone, CreateFilter, DestroyFilter
  <2>5. ASSUME NEW r \in 0 .. MaxRand, SaveState(StateLen + r) PROVE [CopyNext]_copyVars
    BY <2>5 DEF SaveState
  <2>6. ASSUME NEW len \in {0, 1}, ProcessFilterIoctlRequest(len) PROVE [CopyNext]_copyVars
    BY <2>6 DEF ProcessFilterIoctlRequest
  <2>7. ASSUME NEW buf \in RestoreRequests, RestoreState(buf) PROVE [CopyNext]_copyVars
    BY <2>7 DEF RestoreState
  <2>8. CASE UNCHANGED allVars
    BY <2>8 DEF allVars
  <2> QED
    BY <2>1, <2>2, <2>3, <2>4, <2>5, <2>6, <2>7, <2>8 DEF Next
<1> QED
  BY <1>1, <1>2, PTL DEF Spec, CopySpec

\* What is known of a packet that ProcessPacket() was called with.
CallOK(c) ==
  /\ c.frame \in Frames
  /\ c.info = NoInfo \/ c.info \in ParsePacket(c.frame)
  /\ IF c.tcp = NULL THEN RegionInside(c.frame)
     ELSE c.frame.mustCsum \/ ChecksumValid(c.frame.rest, c.tcp)

\* The inductive invariant: a call keeps the filter and its state, the copy it waits
\* for succeeds, and a saved state has the length that is restored.
FilterInv ==
  /\ CopyExact
  /\ state \in StateType \cup {NULL}
  /\ buffer \in {NULL} \cup [len : {StateLen}, state : StateType]
  /\ restored # "error"
  /\ service # "assert"
  /\ call # NULL => state # NULL /\ CallOK(call)

\* A packet ProcessPacket() was called with, whatever was done with it.
CallFields(c, f, info, tcp) == c.frame = f /\ c.info = info /\ c.tcp = tcp

\* The fields of a callback's record, whichever way the callback ends.
LEMMA CallHasFields ==
  ASSUME NEW f, NEW info, NEW fate, NEW tcp
  PROVE  /\ CallFields(Call(f, info, fate), f, info, Tcp(f))
         /\ CallFields([Call(f, info, fate) EXCEPT !.tcp = tcp], f, info, tcp)
<1> DEFINE c == [frame |-> f, info |-> info, fate |-> fate, tcp |-> Tcp(f)]
<1>1. Call(f, info, fate) = c
  BY Zenon DEF Call
<1>2. c.frame = f /\ c.info = info /\ c.tcp = Tcp(f)
  OBVIOUS
<1>3. LET e == [c EXCEPT !.tcp = tcp] IN e.frame = f /\ e.info = info /\ e.tcp = tcp
  OBVIOUS
<1> HIDE DEF c
<1> QED
  BY <1>1, <1>2, <1>3 DEF CallFields

\* A new call keeps the invariant if its TCP header is what may be sent.
LEMMA CallBegins ==
  ASSUME FilterInv, CopyExact', state # NULL, UNCHANGED <<state, buffer, restored>>, service' # "assert",
         NEW f \in Frames, NEW info, info = NoInfo \/ info \in ParsePacket(f),
         NEW tcp, IF tcp = NULL THEN RegionInside(f) ELSE f.mustCsum \/ ChecksumValid(f.rest, tcp),
         CallFields(call', f, info, tcp)
  PROVE  FilterInv'
<1>1. CallOK(call')
  BY DEF CallOK, CallFields
<1> QED
  BY <1>1 DEF FilterInv

\* A frame that is not touched has the checksum it came with.
LEMMA TcpValid ==
  ASSUME NEW f \in Frames
  PROVE  f.mustCsum \/ ChecksumValid(f.rest, Tcp(f))
BY FilterAssumption

\* A TCP header, rewritten or not, is one.
LEMMA HeaderType ==
  ASSUME NEW f \in Frames
  PROVE  /\ Tcp(f) # NULL
         /\ \A newport \in 0 .. Word16 - 1, d \in Directions : Rewrite(f, newport, d) # NULL
<1>1. f.source \in 0 .. Word16 - 1 /\ f.dest \in 0 .. Word16 - 1 /\ f.check \in 0 .. Word16 - 1
  BY FrameFacts
<1>2. NULL \notin TcpType
  BY FilterAssumption
<1>3. Tcp(f) \in TcpType
  BY <1>1 DEF Tcp, TcpType
<1>4. ASSUME NEW newport \in 0 .. Word16 - 1, NEW d \in Directions PROVE Rewrite(f, newport, d) \in TcpType
  <2>1. /\ Csum(f.check, f.dest, newport) \in 0 .. Word16 - 1
        /\ Csum(f.check, f.source, newport) \in 0 .. Word16 - 1
    BY <1>1, CsumUpdated
  <2> QED
    BY <1>1, <2>1 DEF Rewrite, TcpType
<1> QED
  BY <1>2, <1>3, <1>4

\* A packet that is not to be translated is sent or freed as it is.
LEMMA CallUntouched ==
  ASSUME FilterInv, state # NULL, UNCHANGED <<ownVars, copyVars>>, service' # "assert",
         NEW f \in Frames, NEW info, info = NoInfo \/ info \in ParsePacket(f),
         NEW fate, call' = Call(f, info, fate)
  PROVE  FilterInv'
<1>1. CallFields(call', f, info, Tcp(f))
  BY CallHasFields
<1>2. CopyExact' /\ UNCHANGED <<state, buffer, restored>>
  BY DEF FilterInv, ownVars, copyVars, loopVars, CopyExact, CopyInv, Side, DVFilter_GetPktLen
<1> QED
  BY <1>1, <1>2, TcpValid, HeaderType, CallBegins

\* Whatever ProcessPacket() does with a packet preserves the invariant.
LEMMA ProcessKeeps ==
  ASSUME FilterInv, NEW f \in Frames, NEW d \in Directions, ProcessPacket(f, d)
  PROVE  FilterInv'
<1>0. CASE ProcessNull(f)
  <2>1. CopyExact' /\ service' # "assert" /\ UNCHANGED <<state, buffer, restored, call>>
    BY <1>0 DEF ProcessNull, FilterInv, ownVars, copyVars, loopVars, CopyExact, CopyInv, Side,
                DVFilter_GetPktLen
  <2> QED
    BY <2>1 DEF FilterInv
<1>1. CASE ProcessCopied(f)
  BY <1>1, CallUntouched DEF ProcessCopied, Idle, FilterInv
<1>2. CASE ProcessForward(f, d)
  <2>1. state # NULL /\ UNCHANGED <<ownVars, copyVars>> /\ service' # "assert"
    BY <1>2 DEF ProcessForward, Idle, FilterInv
  <2>2. PICK info : (info = NoInfo \/ info \in ParsePacket(f)) /\ call' = Call(f, info, "sent")
    BY <1>2 DEF ProcessForward
  <2> QED
    BY <2>1, <2>2, CallUntouched
<1>3. CASE ProcessNoMemory(f, d) \/ ProcessDrop(f, d) \/ ProcessReorderOrDelay(f, d)
  <2>1. state # NULL /\ UNCHANGED <<ownVars, copyVars>> /\ service' # "assert"
    BY <1>3 DEF ProcessNoMemory, ProcessDrop, ProcessReorderOrDelay, Filtering, Idle, FilterInv
  <2>2. PICK info \in ParsePacket(f), fate \in {"freed", "sent"} : call' = Call(f, info, fate)
    BY <1>3 DEF ProcessNoMemory, ProcessDrop, ProcessReorderOrDelay, Matches
  <2> QED
    BY <2>1, <2>2, CallUntouched
<1>4. CASE ProcessCopy(f, d)
  <2>1. PICK info \in ParsePacket(f) : call' = Call(f, info, "held")
    BY <1>4 DEF ProcessCopy, Matches
  <2>2. PICK p \in Packets : /\ DVFilter_GetPktLen(p) = DVFilter_GetPktLen(f.pkt)
                             /\ CopyPacket(p, f.pkt, DVFilter_GetPktLen(f.pkt))
    BY <1>4 DEF ProcessCopy
  <2>3. f.pkt \in Packets /\ DVFilter_GetPktLen(f.pkt) \in CopyLens
    BY FrameFacts
  <2>4. CopyExact'
    BY <2>2, <2>3, CopyExactBegins DEF FilterInv
  <2>5. state # NULL /\ UNCHANGED <<state, buffer, restored>> /\ service' # "assert"
    BY <1>4 DEF ProcessCopy, Filtering, Idle, ownVars
  <2>6. CallFields(call', f, info, Tcp(f))
    BY <2>1, CallHasFields
  <2> QED
    BY <2>4, <2>5, <2>6, TcpValid, HeaderType, CallBegins
<1>5. CASE ProcessNAPT(f, d)
  <2> DEFINE newport == state.dnaptPortNBO
  <2>1. state # NULL /\ UNCHANGED <<ownVars, copyVars>>
    BY <1>5 DEF ProcessNAPT, Filtering, Idle
  <2>2. PICK info \in Matches(f), r \in PerformNAPT(f, newport, d) :
          /\ call' = [Call(f, info, IF r.assert THEN "held" ELSE "sent") EXCEPT !.tcp = r.tcp]
          /\ service' = IF r.assert THEN "assert" ELSE "run"
    BY <1>5 DEF ProcessNAPT
  <2>3. info \in ParsePacket(f) /\ FilterPacket(info, state)
    BY DEF Matches
  <2>4. /\ r.assert = FALSE
        /\ \/ r.tcp = Tcp(f)
           \/ r.tcp = Rewrite(f, newport, d)
           \/ r.tcp = NULL /\ RegionInside(f)
    <3> HIDE DEF newport
    <3> QED
      BY <2>3, NaptResult
  <2>5. CallFields(call', f, info, r.tcp) /\ service' # "assert"
    <3>1. call' = [Call(f, info, "sent") EXCEPT !.tcp = r.tcp] /\ service' = "run"
      BY <2>2, <2>4
    <3> QED
      BY <3>1, CallHasFields
  <2>6. newport \in 0 .. Word16 - 1
    <3>1. state \in StateType
      BY <2>1 DEF FilterInv
    <3> QED
      BY <3>1 DEF StateType
  <2>7. IF r.tcp = NULL THEN RegionInside(f) ELSE f.mustCsum \/ ChecksumValid(f.rest, r.tcp)
    <3> HIDE DEF newport
    <3>1. f.mustCsum \/ ChecksumValid(f.rest, Rewrite(f, newport, d))
      BY <2>6, RewriteValid
    <3> QED
      BY <2>4, <2>6, <3>1, TcpValid, HeaderType
  <2>8. CopyExact' /\ UNCHANGED <<state, buffer, restored>>
    BY <2>1 DEF FilterInv, ownVars, copyVars, loopVars, CopyExact, CopyInv, Side, DVFilter_GetPktLen
  <2> QED
    BY <2>1, <2>3, <2>5, <2>7, <2>8, CallBegins
<1> QED
  BY <1>0, <1>1, <1>2, <1>3, <1>4, <1>5 DEF ProcessPacket

\* Every callback preserves the invariant.
LEMMA FilterInvNext == FilterInv /\ [Next]_allVars => FilterInv'
<1> SUFFICES ASSUME FilterInv, [Next]_allVars PROVE FilterInv'
  OBVIOUS
<1>1. ASSUME NEW f \in Frames, NEW d \in Directions, ProcessPacket(f, d) PROVE FilterInv'
  BY <1>1, ProcessKeeps
<1>2. CASE (CopyCycle \/ CopyReturn) /\ UNCHANGED <<ownVars, call, service>>
  <2>1. CopyExact'
    BY <1>2, CopyExactSteps DEF FilterInv
  <2> QED
    BY <1>2, <2>1 DEF FilterInv, ownVars
<1>3. UNCHANGED copyVars => CopyExact'
  BY DEF FilterInv, copyVars, loopVars, CopyExact, CopyInv, Side, DVFilter_GetPktLen
<1>4. CASE ProcessCopyDone
  <2>1. status = "ok"
    BY <1>4 DEF ProcessCopyDone, FilterInv, CopyExact
  <2>2. /\ call # NULL /\ call' = [call EXCEPT !.fate = "sent"]
        /\ UNCHANGED <<ownVars, service, copyVars>>
    BY <1>4, <2>1 DEF ProcessCopyDone
  <2>3. CallOK(call)
    BY <2>2 DEF FilterInv
  <2>4. CallOK(call')
    BY <2>2, <2>3 DEF CallOK
  <2> QED
    BY <1>3, <2>2, <2>4 DEF FilterInv, ownVars
<1>5. CASE ProcessReturn
  <2>1. CopyExact'
    <3>1. CopyInv' /\ status' = "idle"
      BY <1>5, CopyInvNext DEF ProcessReturn, CopyForget, CopyNext, FilterInv, CopyExact
    <3> QED
      BY <3>1 DEF CopyExact
  <2> QED
    BY <1>5, <2>1 DEF ProcessReturn, FilterInv, ownVars
<1>6. CASE CreateFilter
  <2>1. ZeroState \in StateType
    BY FilterAssumption DEF ZeroState, StateType
  <2> QED
    BY <1>3, <1>6, <2>1 DEF CreateFilter, FilterInv
<1>7. CASE DestroyFilter
  BY <1>3, <1>7 DEF DestroyFilter, Idle, FilterInv
<1>8. ASSUME NEW r \in 0 .. MaxRand, SaveState(StateLen + r) PROVE FilterInv'
  <2>1. state \in StateType /\ call' = NULL
    BY <1>8 DEF SaveState, Idle, FilterInv
  <2>2. buffer' = buffer \/ buffer' = [len |-> StateLen, state |-> state]
    BY <1>8 DEF SaveState
  <2>3. [len |-> StateLen, state |-> state] \in [len : {StateLen}, state : StateType]
    BY <2>1
  <2>4. buffer' \in {NULL} \cup [len : {StateLen}, state : StateType]
    BY <2>2, <2>3 DEF FilterInv
  <2> QED
    BY <1>3, <1>8, <2>1, <2>4 DEF SaveState, FilterInv
<1>9. ASSUME NEW buf \in RestoreRequests, RestoreState(buf) PROVE FilterInv'
  <2>1. \/ buf.len = 0
        \/ buf.len = StateLen /\ buf.state \in StateType
    BY DEF RestoreRequests, FilterInv
  <2>2. StateLen # 0
    BY FilterAssumption
  <2>3. restored' # "error" /\ (state' = state \/ state' \in StateType)
    BY <1>9, <2>1, <2>2 DEF RestoreState
  <2> QED
    BY <1>3, <1>9, <2>3 DEF RestoreState, Idle, FilterInv
<1>10. ASSUME NEW len \in {0, 1}, ProcessFilterIoctlRequest(len) PROVE FilterInv'
  <2>1. service' # "assert"
    BY <1>10 DEF ProcessFilterIoctlRequest
  <2> QED
    BY <1>3, <1>10, <2>1 DEF ProcessFilterIoctlRequest, FilterInv, ownVars
<1>11. CASE UNCHANGED allVars
  BY <1>3, <1>11 DEF allVars, ownVars, FilterInv
<1> QED
  BY <1>1, <1>2, <1>4, <1>5, <1>6, <1>7, <1>8, <1>9, <1>10, <1>11 DEF Next

\* The invariant of the callbacks holds in every state.
THEOREM FilterInvariant == Spec => []FilterInv
<1>1. Init => FilterInv
  <2> SUFFICES ASSUME Init PROVE FilterInv
    OBVIOUS
  <2>1. CopyInv
    <3>1. Side(NoPkt, 0, 0, 0) /\ [i \in {} |-> 0] = [i \in 0 .. 0 - 1 |-> i]
      BY NoPktIsPkt, CopyInvReset
    <3> QED
      BY <3>1 DEF Init, CopyInit, CopyInv
  <2>2. CopyExact
    BY <2>1 DEF CopyExact, Init, CopyInit
  <2>3. buffer \in {NULL} \cup [len : {StateLen}, state : StateType]
    BY FilterAssumption DEF Init
  <2> QED
    BY <2>2, <2>3 DEF Init, FilterInv
<1> QED
  BY <1>1, FilterInvNext, PTL DEF Spec

\* ParsePacket() finds the type, protocol and ports of every frame whose headers are in
\* its first fragment, in each of the four framings, and every tag of the framing
\* 802_1PQ; the tag of a tagged 802.3 frame it leaves at zero.  Of other frames it finds
\* these or less, unless the IP header starts the second fragment or its length field
\* is less than five words.
THEOREM ParsedRightHolds == Spec => []ParsedRight
<1>1. FilterInv => ParsedRight
  <2> SUFFICES ASSUME FilterInv, call # NULL, call.info # NoInfo
               PROVE  ParsedRightOf(call.frame, call.info)
    BY DEF ParsedRight, ParsedRightOf
  <2>1. call.frame \in Frames /\ call.info \in ParsePacket(call.frame)
    BY DEF FilterInv, CallOK
  <2> QED
    BY <2>1, ParsePacketRight
<1> QED
  BY <1>1, FilterInvariant, PTL

\* The incremental update of PerformNAPT() keeps the TCP checksum right, for every
\* word size, ports and checksum: two folds are enough.  Only a packet whose IP header
\* starts the second fragment can have been written to in the wrong place.
THEOREM ChecksumKeptHolds == Spec => []ChecksumKept
<1>1. FilterInv => ChecksumKept
  BY DEF FilterInv, CallOK, ChecksumKept
<1> QED
  BY <1>1, FilterInvariant, PTL

\* CopyPacket() succeeds and PerformNAPT() finds the TCP header whenever ProcessPacket()
\* gets there, for all frames, so that neither of the two assertions fails.
THEOREM PacketAssertsHoldHolds == Spec => []PacketAssertsHold
<1>1. FilterInv => PacketAssertsHold
  BY DEF FilterInv, PacketAssertsHold
<1> QED
  BY <1>1, FilterInvariant, PTL

\* RestoreState() accepts every state that SaveState() saved, whatever length the
\* library was asked for; the request without a buffer is not one of these.
THEOREM SavedStateRestoresHolds == Spec => []SavedStateRestores
<1>1. FilterInv => SavedStateRestores
  BY DEF FilterInv, SavedStateRestores
<1> QED
  BY <1>1, FilterInvariant, PTL

\* What CopyPacket() promises on its own it keeps when ProcessPacket() calls it: no
\* byte is written to another offset or behind the destination.
THEOREM CallbackWritesInPlace == Spec => []WritesInPlace
BY ImplementsCopySpec, WritesInPlaceHolds, PTL

\* A copy that ProcessPacket() sends is complete.
THEOREM CallbackCopyComplete == Spec => []CopyComplete
BY ImplementsCopySpec, CopyCompleteHolds, PTL
================================================================================
