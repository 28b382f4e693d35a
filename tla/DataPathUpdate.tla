----------------------------- MODULE DataPathUpdate -----------------------------
(***************************************************************************)
(* DataPathUpdate.cpp: the thread that takes classification results off    *)
(* updateDPQueue_ until it meets the exit message.                         *)
(***************************************************************************)
EXTENDS Naturals, Sequences

VARIABLES
  updateDPQueue,   \* results and the exit message, oldest first
  dpthread         \* "pop" while the thread runs, "done" once it left its loop

dpvars == <<updateDPQueue, dpthread>>

\* The message FlowTable::stop() sends to end the thread.
ExitMessage == [exit_flag |-> TRUE]

DataPathUpdateInit ==
  /\ updateDPQueue = <<>>
  /\ dpthread = "pop"

\* GetDPIFlowData(): one turn of the loop; the result itself is only dropped.
GetDPIFlowData ==
  /\ dpthread = "pop"
  /\ updateDPQueue # <<>>
  /\ updateDPQueue' = Tail(updateDPQueue)
  /\ dpthread' = IF Head(updateDPQueue).exit_flag THEN "done" ELSE "pop"
================================================================================
