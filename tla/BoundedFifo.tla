------------------------------ MODULE BoundedFifo ------------------------------
(***************************************************************************)
(* What a bounded queue between one producer and one consumer promises:    *)
(* records come out once, in the order they were accepted, and an offer is *)
(* turned down only when the queue holds Capacity records.                 *)
(* ProducerConsumerQueue implements this specification.                    *)
(***************************************************************************)
EXTENDS Naturals, Sequences

CONSTANTS
  Records,    \* the values that travel through the queue
  NoRecord,   \* the absence of a record
  Capacity    \* how many records the queue can hold

VARIABLES
  fifo,   \* the records accepted and not yet removed, oldest first
  arg,    \* the record the producer is offering, or NoRecord
  out     \* the record the consumer was last given, or NoRecord

vars == <<fifo, arg, out>>

Init ==
  /\ fifo = <<>>
  /\ arg = NoRecord
  /\ out = NoRecord

\* The producer calls the queue with a record.
Offer(r) ==
  /\ arg = NoRecord
  /\ arg' = r
  /\ UNCHANGED <<fifo, out>>

\* The queue takes the offered record.
Accept ==
  /\ arg # NoRecord
  /\ Len(fifo) < Capacity
  /\ fifo' = Append(fifo, arg)
  /\ arg' = NoRecord
  /\ UNCHANGED out

\* The queue turns the offered record down: only when it is full.
Refuse ==
  /\ arg # NoRecord
  /\ Len(fifo) = Capacity
  /\ arg' = NoRecord
  /\ UNCHANGED <<fifo, out>>

\* The consumer receives the oldest record.
Take ==
  /\ fifo # <<>>
  /\ out' = Head(fifo)
  /\ fifo' = Tail(fifo)
  /\ UNCHANGED arg

\* The consumer discards the oldest record without receiving it.
Drop ==
  /\ fifo # <<>>
  /\ fifo' = Tail(fifo)
  /\ UNCHANGED <<arg, out>>

\* The queue is destroyed with whatever it still holds.
Discard ==
  /\ arg = NoRecord
  /\ fifo' = <<>>
  /\ UNCHANGED <<arg, out>>

Next ==
  \/ \E r \in Records : Offer(r)
  \/ Accept
  \/ Refuse
  \/ Take
  \/ Drop
  \/ Discard

Spec == Init /\ [][Next]_vars
================================================================================
