----------------------------- MODULE MCNetxService ------------------------------
(***************************************************************************)
(* Instances of NetxService for TLC.  Handles, descriptors and blocks are  *)
(* interchangeable: no definition orders them or singles one out.          *)
(***************************************************************************)
EXTENDS NetxService, TLC

Symmetry == Permutations(Handles) \cup Permutations(Fds) \cup Permutations(Blocks)
================================================================================
