------------------------- MODULE ProducerConsumerQueue -------------------------
(***************************************************************************)
(* The lock-free single-producer single-consumer ring of                   *)
(* include/ProducerConsumerQueue.h.  The producer only stores writeIndex_, *)
(* the consumer only stores readIndex_, and each loads the other's index   *)
(* once per call.  Every atomic load or store, and every construction,     *)
(* move or destruction of a record in its slot, is a step of its own, so   *)
(* the two threads interleave between any two of them.                     *)
(*                                                                         *)
(* A slot holds NoRecord when it is raw memory (malloc'ed and not yet      *)
(* constructed, or already destroyed).                                     *)
(***************************************************************************)
EXTENDS Integers, Sequences

CONSTANTS
  Records,    \* values of T
  NoRecord,   \* raw memory / no value
  Size        \* size_: number of slots, one of which is always unused

\* The constructor asserts size >= 2; raw memory is not a record.
ASSUME SizeAssumption == Size \in Nat /\ Size >= 2
ASSUME RecordsAssumption == NoRecord \notin Records

VARIABLES
  alive,          \* the queue object exists (its destructor has not run)
  records,        \* records_: slot contents
  readIndex,      \* readIndex_
  writeIndex,     \* writeIndex_
  wpc,            \* where the producer is inside write()
  currentWrite,   \* write(): its copy of writeIndex_
  arg,            \* write(): the record to store
  rpc,            \* where the consumer is inside read() or popFront()
  currentRead,    \* read(): its copy of readIndex_
  popping,        \* the consumer is inside popFront(), not read()
  record,         \* read(): the reference parameter, once moved into
  out             \* the record the last successful read() returned

wvars == <<wpc, currentWrite, arg>>
rvars == <<rpc, currentRead, popping, record, out>>
vars == <<alive, records, readIndex, writeIndex, wvars, rvars>>

Slots == 0 .. Size - 1

\* nextRecord: the index after i, wrapping at size_.
NextIndex(i) == IF i + 1 = Size THEN 0 ELSE i + 1

\* How many slots a pointer at i passes before it reaches j (sizeGuess).
Distance(i, j) == IF j - i < 0 THEN j - i + Size ELSE j - i

\* Slot s lies between the two indices: a record was published there.
Occupied(s) == Distance(readIndex, s) < Distance(readIndex, writeIndex)

Init ==
  /\ alive = TRUE
  /\ records = [s \in Slots |-> NoRecord]
  /\ readIndex = 0
  /\ writeIndex = 0
  /\ wpc = "idle"
  /\ currentWrite = 0
  /\ arg = NoRecord
  /\ rpc = "idle"
  /\ currentRead = 0
  /\ popping = FALSE
  /\ record = NoRecord
  /\ out = NoRecord

--------------------------------------------------------------------------------
(* The producer: write(). *)

\* Enter write(r) and load writeIndex_ (relaxed: only this thread stores it).
WriteBegin(r) ==
  /\ alive
  /\ wpc = "idle"
  /\ wpc' = "check"
  /\ arg' = r
  /\ currentWrite' = writeIndex
  /\ UNCHANGED <<alive, records, readIndex, writeIndex, rvars>>

\* Mutation: no test for a full queue.
WriteCheck_NeverFull ==
  /\ wpc = "check"
  /\ wpc' = "construct"
  /\ UNCHANGED <<alive, records, readIndex, writeIndex, currentWrite, arg, rvars>>

\* Mutation: the queue counts as full one record too early.
WriteCheck_EarlyFull ==
  /\ wpc = "check"
  /\ IF NextIndex(NextIndex(currentWrite)) # readIndex
       THEN wpc' = "construct" /\ UNCHANGED arg
       ELSE wpc' = "idle" /\ arg' = NoRecord
  /\ UNCHANGED <<alive, records, readIndex, writeIndex, currentWrite, rvars>>

\* Load readIndex_ (acquire): go on if a slot is free, return false if not.
WriteCheck ==
  /\ wpc = "check"
  /\ IF NextIndex(currentWrite) # readIndex
       THEN wpc' = "construct" /\ UNCHANGED arg
       ELSE wpc' = "idle" /\ arg' = NoRecord
  /\ UNCHANGED <<alive, records, readIndex, writeIndex, currentWrite, rvars>>

\* Placement-new the record into its slot.
WriteConstruct ==
  /\ wpc = "construct"
  /\ records' = [records EXCEPT ![currentWrite] = arg]
  /\ wpc' = "publish"
  /\ UNCHANGED <<alive, readIndex, writeIndex, currentWrite, arg, rvars>>

\* Store writeIndex_ (release) and return true.
WritePublish ==
  /\ wpc = "publish"
  /\ writeIndex' = NextIndex(currentWrite)
  /\ wpc' = "idle"
  /\ arg' = NoRecord
  /\ UNCHANGED <<alive, records, readIndex, currentWrite, rvars>>

--------------------------------------------------------------------------------
(* The consumer: read() and popFront(). *)

\* Enter read() and load readIndex_ (relaxed: only this thread stores it).
ReadBegin ==
  /\ alive
  /\ rpc = "idle"
  /\ rpc' = "check"
  /\ popping' = FALSE
  /\ currentRead' = readIndex
  /\ UNCHANGED <<alive, records, readIndex, writeIndex, record, out, wvars>>

\* Load writeIndex_ (acquire): return false if the queue is empty.
ReadCheck ==
  /\ rpc = "check"
  /\ rpc' = IF currentRead = writeIndex THEN "idle" ELSE "move"
  /\ UNCHANGED <<alive, records, readIndex, writeIndex, currentRead, popping,
                 record, out, wvars>>

\* Move the record out of its slot.
ReadMove ==
  /\ rpc = "move"
  /\ record' = records[currentRead]
  /\ rpc' = "destroy"
  /\ UNCHANGED <<alive, records, readIndex, writeIndex, currentRead, popping,
                 out, wvars>>

\* popFront() after a frontPtr() that was not NULL: its assertion holds, and it
\* destroys the front record without moving it.  (record keeps the value that
\* leaves only so that the refinement mapping can refer to it.)
PopFrontBegin ==
  /\ alive
  /\ rpc = "idle"
  /\ readIndex # writeIndex
  /\ rpc' = "destroy"
  /\ popping' = TRUE
  /\ currentRead' = readIndex
  /\ record' = records[readIndex]
  /\ UNCHANGED <<alive, records, readIndex, writeIndex, out, wvars>>

\* Run the destructor of the record in its slot.
ReadDestroy ==
  /\ rpc = "destroy"
  /\ records' = [records EXCEPT ![currentRead] = NoRecord]
  /\ rpc' = "publish"
  /\ UNCHANGED <<alive, readIndex, writeIndex, currentRead, popping, record, out,
                 wvars>>

\* Store readIndex_ (release) and return.
ReadPublish ==
  /\ rpc = "publish"
  /\ readIndex' = NextIndex(currentRead)
  /\ rpc' = "idle"
  /\ out' = IF popping THEN out ELSE record
  /\ record' = NoRecord
  /\ popping' = FALSE
  /\ UNCHANGED <<alive, records, writeIndex, currentRead, wvars>>

--------------------------------------------------------------------------------

\* Mutation: the slots are freed without destroying the records in them.
Destructor_FreeOnly ==
  /\ alive
  /\ wpc = "idle"
  /\ rpc = "idle"
  /\ alive' = FALSE
  /\ UNCHANGED <<records, readIndex, writeIndex, wvars, rvars>>

\* ~ProducerConsumerQueue(), once both threads are out of the queue: destroy
\* every record from readIndex_ up to writeIndex_ and free the slots.
Destructor ==
  /\ alive
  /\ wpc = "idle"
  /\ rpc = "idle"
  /\ alive' = FALSE
  /\ records' = [s \in Slots |-> IF Occupied(s) THEN NoRecord ELSE records[s]]
  /\ UNCHANGED <<readIndex, writeIndex, wvars, rvars>>

Producer ==
  \/ \E r \in Records : WriteBegin(r)
  \/ WriteCheck
  \/ WriteConstruct
  \/ WritePublish

Consumer ==
  \/ ReadBegin
  \/ ReadCheck
  \/ ReadMove
  \/ PopFrontBegin
  \/ ReadDestroy
  \/ ReadPublish

Next == Producer \/ Consumer \/ Destructor

Spec == Init /\ [][Next]_vars

--------------------------------------------------------------------------------
(* Properties. *)

TypeOK ==
  /\ alive \in BOOLEAN
  /\ records \in [Slots -> Records \cup {NoRecord}]
  /\ readIndex \in Slots
  /\ writeIndex \in Slots
  /\ wpc \in {"idle", "check", "construct", "publish"}
  /\ currentWrite \in Slots
  /\ arg \in Records \cup {NoRecord}
  /\ rpc \in {"idle", "check", "move", "destroy", "publish"}
  /\ currentRead \in Slots
  /\ popping \in BOOLEAN
  /\ record \in Records \cup {NoRecord}
  /\ out \in Records \cup {NoRecord}

\* write() never constructs over a record that is still there, and read() and
\* popFront() never move or destroy raw memory: the placement-new at line 53 and
\* the move at line 73 always find the slot in the state they expect, however
\* the two threads interleave.
SlotDiscipline ==
  /\ wpc = "construct" => records[currentWrite] = NoRecord
  /\ rpc \in {"move", "destroy"} => records[currentRead] # NoRecord

\* The two threads never touch the same slot: what write() is constructing is
\* not what read() is moving or destroying.
NoSlotRace ==
  wpc \in {"construct", "publish"} /\ rpc \in {"move", "destroy", "publish"}
    => currentWrite # currentRead

\* The inductive invariant behind the three properties above and below: each
\* thread's copy of its own index is current, the checks of write() and read()
\* stay true until the index is published although the other thread moves in
\* between, and the constructed slots are exactly the ones between the indices.
RingInv ==
  /\ TypeOK
  /\ ~alive => wpc = "idle" /\ rpc = "idle"
  /\ wpc # "idle" => currentWrite = writeIndex /\ arg # NoRecord
  /\ wpc \in {"construct", "publish"} => NextIndex(writeIndex) # readIndex
  /\ rpc # "idle" => currentRead = readIndex
  /\ rpc \in {"move", "destroy", "publish"} => readIndex # writeIndex
  /\ rpc \in {"destroy", "publish"} => record # NoRecord
  /\ \A s \in Slots :
       records[s] # NoRecord <=>
         \/ s = writeIndex /\ wpc = "publish"
         \/ alive /\ Occupied(s) /\ ~(s = readIndex /\ rpc = "publish")

\* The destructor leaves no record behind: every record that was constructed has
\* been destroyed by read(), popFront() or ~ProducerConsumerQueue().
NoRecordLeaked == ~alive => \A s \in Slots : records[s] = NoRecord

--------------------------------------------------------------------------------
(* Refinement: the ring is a bounded FIFO of Size - 1 records. *)

\* The published records, oldest first.  Between its destruction and the store
\* to readIndex_, the oldest one lives in the consumer's record.
Contents ==
  [i \in 1 .. IF alive THEN Distance(readIndex, writeIndex) ELSE 0 |->
     IF i = 1 /\ rpc = "publish"
       THEN record
       ELSE records[(readIndex + i - 1) % Size]]

Fifo == INSTANCE BoundedFifo
          WITH fifo <- Contents, Capacity <- Size - 1

\* The ring delivers every accepted record exactly once and in order, holds up
\* to size_ - 1 of them, and write() fails only when it is full.
ImplementsBoundedFifo == Fifo!Spec
================================================================================
