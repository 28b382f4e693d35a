---------------------------- MODULE MCClassifyFlows -----------------------------
(***************************************************************************)
(* Frames for TLC: every combination of header lengths around the limits   *)
(* for one connection, and well-formed frames of every connection.         *)
(***************************************************************************)
EXTENDS ClassifyFlows

Key(a, b, p, q, proto) ==
  [srcaddr |-> a, dstaddr |-> b, srcport |-> p, dstport |-> q, ipproto |-> proto]

\* Frames with tags, padding, options, a truncated tail or lengths that disagree.
HeaderFrames ==
  [size : {16, 46, 62}, tags : {0, 2}, ip : {TRUE}, version : {4},
   ihl : {4, 5, 6}, tot_len : {20, 28, 40}, doff : {3, 5},
   key : {Key(0, 120, 0, 9, p) : p \in Protos}]

OddFrames ==
  [size : {46}, tags : {0}, ip : BOOLEAN, version : {4, 6}, ihl : {5}, tot_len : {28},
   doff : {5}, key : {Key(0, 120, 0, 9, UDP)}]

KeyFrames ==
  [size : {60}, tags : {1}, ip : {TRUE}, version : {4}, ihl : {5}, tot_len : {40},
   doff : {5}, key : {Key(a, b, p, q, proto) : a, b \in Addresses, p, q \in Ports,
                                              proto \in {UDP}}]

MCFrames == HeaderFrames \cup OddFrames \cup KeyFrames
================================================================================
