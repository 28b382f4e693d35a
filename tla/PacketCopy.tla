------------------------------- MODULE PacketCopy -------------------------------
(***************************************************************************)
(* CopyPacket() of netx_sample_service.c: the frame of one packet is       *)
(* copied into another, one step per turn of the loop.  The loop walks     *)
(* over the fragments of both packets at once, and neither knows where the *)
(* fragments of the other one end.                                         *)
(*                                                                         *)
(* out is the memory written so far: the offset in the source of the byte  *)
(* that is now at each offset of the destination.                          *)
(***************************************************************************)
EXTENDS PktHandle

CONSTANTS
  Packets,   \* packets CopyPacket() is called with
  CopyLens   \* values of its parameter copyLen

ASSUME CopyAssumption == CopyLens \subseteq Nat /\ \A p \in Packets : IsPkt(p)

VARIABLES
  src, dst,
  copyLen,
  sNdx, sLen, sData,
  dNdx, dLen, dData,
  out,
  status     \* "idle", "copy" in the loop, "ok", "error", or "assert"

loopVars == <<copyLen, sNdx, sLen, sData, dNdx, dLen, dData>>
copyVars == <<src, dst, loopVars, out, status>>

NoPkt == [n |-> 0, at |-> [k \in 0 .. 0 |-> 0]]

CopyInit ==
  /\ src = NoPkt /\ dst = NoPkt
  /\ copyLen = 0
  /\ sNdx = 0 /\ sLen = 0 /\ sData = 0
  /\ dNdx = 0 /\ dLen = 0 /\ dData = 0
  /\ out = [i \in {} |-> 0]
  /\ status = "idle"

\* The tests before the loop; a len of zero means the whole source.
Refused(d, s, len) ==
  \/ len # 0 /\ len < DVFilter_GetPktLen(s)
  \/ DVFilter_GetPktLen(d) < DVFilter_GetPktLen(s)

CopyPacket(d, s, len) ==
  /\ status = "idle"
  /\ src' = s /\ dst' = d
  /\ copyLen' = IF len = 0 THEN DVFilter_GetPktLen(s) ELSE len
  /\ sNdx' = 0 /\ sLen' = 0 /\ sData' = 0
  /\ dNdx' = 0 /\ dLen' = 0 /\ dData' = 0
  /\ out' = [i \in {} |-> 0]
  /\ status' = IF Refused(d, s, len) THEN "error" ELSE "copy"

\* No fragment is left on the side whose current one is used up.
OutOfFrags == \/ sLen = 0 /\ ~HasFrag(src, sNdx)
              \/ dLen = 0 /\ ~HasFrag(dst, dNdx)

\* A current fragment, after the next one was fetched where one was used up.
Cur(p, ndx, data, len) ==
  IF len = 0 THEN [ndx |-> ndx + 1, data |-> FragAddress(p, ndx), len |-> FragLength(p, ndx)]
             ELSE [ndx |-> ndx, data |-> data, len |-> len]
CurSrc == Cur(src, sNdx, sData, sLen)
CurDst == Cur(dst, dNdx, dData, dLen)

\* Mutation: a turn leaves the last byte of both fragments.
MoveLen_Short == (IF CurSrc.len > CurDst.len THEN CurDst.len ELSE CurSrc.len) - 1

MoveLen == IF CurSrc.len > CurDst.len THEN CurDst.len ELSE CurSrc.len

\* memcpy(dst + to, src + from, len)
Memcpy(to, from, len) ==
  [i \in DOMAIN out \cup to .. (to + len - 1) |->
     IF i \in to .. (to + len - 1) THEN from + (i - to) ELSE out[i]]

\* Mutation: the pointer into the source fragment does not advance.
CopyCycle_SourceStays ==
  /\ status = "copy"
  /\ copyLen > 0
  /\ ~OutOfFrags
  /\ out' = Memcpy(CurDst.data, CurSrc.data, MoveLen)
  /\ sNdx' = CurSrc.ndx /\ sLen' = CurSrc.len - MoveLen /\ sData' = CurSrc.data
  /\ dNdx' = CurDst.ndx /\ dLen' = CurDst.len - MoveLen /\ dData' = CurDst.data + MoveLen
  /\ copyLen' = copyLen - MoveLen
  /\ UNCHANGED <<status, src, dst>>

\* One turn of the loop, with "one of the two needs to be consumed each cycle".
CopyCycle ==
  /\ status = "copy"
  /\ copyLen > 0
  /\ ~OutOfFrags
  /\ out' = Memcpy(CurDst.data, CurSrc.data, MoveLen)
  /\ sNdx' = CurSrc.ndx /\ sLen' = CurSrc.len - MoveLen /\ sData' = CurSrc.data + MoveLen
  /\ dNdx' = CurDst.ndx /\ dLen' = CurDst.len - MoveLen /\ dData' = CurDst.data + MoveLen
  /\ copyLen' = copyLen - MoveLen
  /\ status' = IF MoveLen > 0 /\ (sLen' = 0 \/ dLen' = 0) THEN "copy" ELSE "assert"
  /\ UNCHANGED <<src, dst>>

CopyReturn ==
  /\ status = "copy"
  /\ \/ copyLen = 0 /\ status' = "ok"
     \/ copyLen > 0 /\ OutOfFrags /\ status' = "error"
  /\ UNCHANGED <<src, dst, loopVars, out>>

\* The caller returns as well, and its packets and variables are gone.
CopyForget ==
  /\ status \in {"idle", "ok", "error"}
  /\ src' = NoPkt /\ dst' = NoPkt
  /\ copyLen' = 0
  /\ sNdx' = 0 /\ sLen' = 0 /\ sData' = 0
  /\ dNdx' = 0 /\ dLen' = 0 /\ dData' = 0
  /\ out' = [i \in {} |-> 0]
  /\ status' = "idle"

CopyNext ==
  \/ \E d, s \in Packets, len \in CopyLens : CopyPacket(d, s, len)
  \/ CopyCycle
  \/ CopyReturn
  \/ CopyForget

CopySpec == CopyInit /\ [][CopyNext]_copyVars

--------------------------------------------------------------------------------
(* Properties. *)

\* Every byte CopyPacket() has written is the one of the same offset in the source,
\* none lies behind the end of the destination, and no turn has read or written
\* behind the end of a fragment, however the two packets are divided.
WritesInPlace ==
  /\ \A i \in DOMAIN out : out[i] = i /\ i < DVFilter_GetPktLen(dst)
  /\ sLen >= 0 /\ dLen >= 0

\* A copy reported as successful holds the whole frame, and the assertions of the
\* loop (netx_sample_service.c:467 and 477) hold in every turn.
CopyComplete ==
  /\ status = "ok" => DOMAIN out = 0 .. DVFilter_GetPktLen(src) - 1
  /\ status # "assert"
================================================================================
