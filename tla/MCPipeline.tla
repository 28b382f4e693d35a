------------------------------- MODULE MCPipeline -------------------------------
(***************************************************************************)
(* Values of Pipeline's constants that a TLC configuration cannot write.   *)
(***************************************************************************)
EXTENDS Pipeline

CONSTANTS f1, f2

\* Two flows on different queues (of two), or on the only queue.
MCHash == [f \in Flows |-> IF f = f1 THEN 0 ELSE 1]
================================================================================
