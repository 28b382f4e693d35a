------------------------------- MODULE PktHandle --------------------------------
(***************************************************************************)
(* Packets of the dvfilter library as netx_sample_service.c sees them: a   *)
(* frame in n fragments, fragment k holding the bytes from at[k] up to     *)
(* at[k + 1] in memory of its own.  A pointer to a byte is the offset of   *)
(* that byte in the frame.                                                 *)
(***************************************************************************)
EXTENDS Naturals

IsPkt(p) ==
  /\ p.n \in Nat
  /\ p.at \in [0 .. p.n -> Nat]
  /\ p.at[0] = 0
  /\ \A j, k \in 0 .. p.n : j < k => p.at[j] < p.at[k]

DVFilter_GetPktLen(p) == p.at[p.n]

\* DVFilter_GetPktFragAddressAndLength() succeeds for the fragments there are.
HasFrag(p, ndx) == ndx < p.n
FragAddress(p, ndx) == p.at[ndx]
FragLength(p, ndx) == p.at[ndx + 1] - p.at[ndx]

\* The bytes that follow offset in its fragment; 0 behind the end.
LengthLeft(p, offset) ==
  IF \E k \in 1 .. p.n : p.at[k - 1] <= offset /\ offset < p.at[k]
    THEN LET k == CHOOSE k \in 1 .. p.n : p.at[k - 1] <= offset /\ offset < p.at[k]
         IN p.at[k] - offset
    ELSE 0

\* DVFilter_GetPktFragDirectRange() does not return NULL.
DirectRange(p, offset, length) ==
  LengthLeft(p, offset) > 0 /\ LengthLeft(p, offset) >= length
================================================================================
