------------------------------- MODULE FlowTable --------------------------------
(***************************************************************************)
(* FlowTable.cpp: the table of connections, shared by                      *)
(*   - the packet consumer thread, which runs InsertOrUpdateFlows();       *)
(*   - the cleanup thread, which runs cleanupFlows(false);                 *)
(*   - the stopping thread, which runs stop() and cleanupFlows(true);      *)
(*   - the DPI workers (module DPIEngine), which hold raw pointers to      *)
(*     entries and update them in updateFlowTableDPIData().                *)
(* ftbl_mutex orders the first three among themselves only.                *)
(*                                                                         *)
(* An entry is a heap node at an address.  Erasing an entry frees the      *)
(* address: its old contents can still be read through a stale pointer     *)
(* until another insertion reuses the address.  Every insertion gets a     *)
(* fresh generation number, so that a stale pointer can be told apart.     *)
(***************************************************************************)
EXTENDS Navl, DataPathUpdate, Integers, FiniteSets

CONSTANTS
  Flows,      \* connection keys up to ConnKeyEqual
  Addrs,      \* heap addresses of table nodes
  NumQueues,  \* numOfQueues: DPI workers and queues
  Hash,       \* Hash[f]: ConnKeyHasher of flow f
  MaxPkts,    \* bound: packets handed to InsertOrUpdateFlows()
  Payloads,   \* whether packets carry data: a subset of BOOLEAN
  Faults      \* which of the rare events below may happen

\* create:   navl_conn_create() fails       classify: navl_classify() fails
\* error:    a callback reports an error    throw:    a worker's loop throws
\* age:      a flow is silent for 10 s      stop:     the agent is stopped
FaultKinds == {"create", "classify", "error", "throw", "age", "stop"}

\* There is an address for every flow the table can hold.
ASSUME AddrsAssumption ==
  /\ IsFiniteSet(Flows) /\ IsFiniteSet(Addrs)
  /\ Cardinality(Addrs) >= Cardinality(Flows)
  /\ NULL \notin Addrs \cup Flows
ASSUME QueuesAssumption == NumQueues \in Nat \ {0} /\ Hash \in [Flows -> Nat]
ASSUME BoundsAssumption ==
  /\ MaxPkts \in Nat
  /\ Payloads \subseteq BOOLEAN
  /\ Faults \subseteq FaultKinds

Queues == 0 .. NumQueues - 1

VARIABLES
  conn_table,   \* flow -> address of its entry, or NULL
  info,         \* address -> ConnInfo there, or NULL if never allocated
  numQueues,    \* numQueues_
  dpiQueues,    \* dpiEngineQueueList_: queue -> messages, oldest first
  jammed,       \* queues whose mutex_ is held for ever, by clear()
  ftbl_mutex,   \* who holds ftbl_mutex
  running,      \* running_ of the flow table
  pkts,         \* packets handed over so far; also the source of generations
  consumer,     \* InsertOrUpdateFlows(): [pc, flow, data, msg]
  cleaner,      \* where the cleanup thread is
  stopper,      \* where the thread running stop() is
  todo,         \* cleanupFlows(): entries its iterator has still to visit
  it,           \* cleanupFlows(): the entry being destroyed and erased
  exits         \* stop(): number of queues sent the exit message

tablevars == <<conn_table, info>>
enginevars == <<dpiQueues, jammed, numQueues>>
consumervars == <<consumer, pkts>>
cleanupvars == <<cleaner, todo, it>>
stopvars == <<stopper, exits, running>>

\* The contents of an entry, and the messages of packets.
ConnInfos ==
  [key : Flows, queue : Queues, gen : Nat, packetnum : Nat,
   class_state : {INSPECTING, MONITORING, CLASSIFIED, TERMINATED},
   dpi_state : Nat \cup {NULL}, error : BOOLEAN, pkt_ref_cnt : Int, idle : BOOLEAN]

ConnMetadatas ==
  [exit_flag : {FALSE}, info : Addrs, gen : Nat, pktnum : Nat, data : BOOLEAN]

ASSUME NullAssumption == NULL \notin ConnInfos /\ NULL \notin ConnMetadatas

\* ConnInfo(key) as InsertOrUpdateFlows() leaves it in the table.
ConnInfo(f, q, g) ==
  [key |-> f, queue |-> q, gen |-> g, packetnum |-> 0, class_state |-> INSPECTING,
   dpi_state |-> NULL, error |-> FALSE, pkt_ref_cnt |-> 0, idle |-> FALSE]

\* ConnMetadata for a packet of the entry at address a.
ConnMetadata(a, g, n, d) ==
  [exit_flag |-> FALSE, info |-> a, gen |-> g, pktnum |-> n, data |-> d]

IdleConsumer == [pc |-> "idle", flow |-> NULL, data |-> FALSE, msg |-> NULL]

\* Addresses that hold an entry of the table.
LiveAddrs == {conn_table[f] : f \in Flows} \ {NULL}

\* The entry a message or a worker points to is still the one in the table.
LivePointer(a, g) ==
  /\ a \in LiveAddrs
  /\ info[a].gen = g

Finished(state) == state \in {CLASSIFIED, TERMINATED}

FlowTableInit ==
  /\ conn_table = [f \in Flows |-> NULL]
  /\ info = [a \in Addrs |-> NULL]
  /\ numQueues = NumQueues
  /\ dpiQueues = [q \in Queues |-> <<>>]
  /\ jammed = {}
  /\ ftbl_mutex = "free"
  /\ running = TRUE
  /\ pkts = 0
  /\ consumer = IdleConsumer
  /\ cleaner = "wait"
  /\ stopper = "idle"
  /\ todo = {}
  /\ it = NULL
  /\ exits = 0

--------------------------------------------------------------------------------
(* InsertOrUpdateFlows(), on the packet consumer thread. *)

\* A packet of flow f arrives: take ftbl_mutex, return if no queue is left.
InsertBegin(f, d) ==
  /\ consumer.pc = "idle"
  /\ pkts < MaxPkts
  /\ ftbl_mutex = "free"
  /\ pkts' = pkts + 1
  /\ IF numQueues = 0
       THEN UNCHANGED <<consumer, ftbl_mutex>>
       ELSE /\ consumer' = [IdleConsumer EXCEPT !.pc = "lookup", !.flow = f, !.data = d]
            /\ ftbl_mutex' = "consumer"
  /\ UNCHANGED <<tablevars, enginevars, cleanupvars, stopvars>>

\* Not in the table: insert an entry at a free address and address its queue.
\* The hash is taken modulo a numQueues_ that a worker may meanwhile have
\* decremented to zero, which kills the process.
InsertNew ==
  /\ consumer.pc = "lookup"
  /\ conn_table[consumer.flow] = NULL
  /\ IF numQueues = 0
       THEN consumer' = [consumer EXCEPT !.pc = "SIGFPE"] /\ UNCHANGED tablevars
       ELSE \E a \in Addrs \ LiveAddrs :
              /\ conn_table' = [conn_table EXCEPT ![consumer.flow] = a]
              /\ info' = [info EXCEPT ![a] =
                            ConnInfo(consumer.flow, Hash[consumer.flow] % numQueues, pkts)]
              /\ consumer' = [consumer EXCEPT !.pc = "push",
                                !.msg = ConnMetadata(a, pkts, 0, consumer.data)]
  /\ UNCHANGED <<enginevars, ftbl_mutex, pkts, cleanupvars, stopvars>>

\* In the table: count the packet, and go on only if the flow is under
\* inspection and a worker has created its navl connection.
InsertFound ==
  LET a == conn_table[consumer.flow]
      n == info[a].packetnum + 1
  IN  /\ consumer.pc = "lookup"
      /\ a # NULL
      /\ info' = [info EXCEPT ![a].packetnum = n]
      /\ consumer' =
           IF Finished(info[a].class_state) THEN IdleConsumer
           ELSE IF numQueues = 0 THEN [consumer EXCEPT !.pc = "SIGFPE"]
           ELSE IF info[a].class_state = INSPECTING /\ info[a].dpi_state # NULL
             THEN [consumer EXCEPT !.pc = "count",
                     !.msg = ConnMetadata(a, info[a].gen, n, consumer.data)]
             ELSE IdleConsumer
      /\ ftbl_mutex' = IF consumer'.pc = "idle" THEN "free" ELSE "consumer"
      /\ UNCHANGED <<conn_table, enginevars, pkts, cleanupvars, stopvars>>

\* pkt_ref_cnt++ and a new lastpacket_timestamp.
InsertCount ==
  LET i == info[consumer.msg.info]
  IN  /\ consumer.pc = "count"
      /\ info' = [info EXCEPT ![consumer.msg.info] =
                    [i EXCEPT !.pkt_ref_cnt = i.pkt_ref_cnt + 1, !.idle = FALSE]]
      /\ consumer' = [consumer EXCEPT !.pc = "push"]
      /\ UNCHANGED <<conn_table, enginevars, ftbl_mutex, pkts, cleanupvars, stopvars>>

\* Mutation: the queue is hashed anew for every packet.
InsertPush_Rehash ==
  LET q == Hash[consumer.flow] % numQueues
  IN  /\ consumer.pc = "push"
      /\ numQueues > 0
      /\ q \notin jammed
      /\ dpiQueues' = [dpiQueues EXCEPT ![q] = Append(@, consumer.msg)]
      /\ consumer' = IdleConsumer
      /\ ftbl_mutex' = "free"
      /\ UNCHANGED <<tablevars, jammed, numQueues, pkts, cleanupvars, stopvars>>

\* Push the message to the entry's queue and release ftbl_mutex.
InsertPush ==
  LET q == info[consumer.msg.info].queue
  IN  /\ consumer.pc = "push"
      /\ q \notin jammed
      /\ dpiQueues' = [dpiQueues EXCEPT ![q] = Append(@, consumer.msg)]
      /\ consumer' = IdleConsumer
      /\ ftbl_mutex' = "free"
      /\ UNCHANGED <<tablevars, jammed, numQueues, pkts, cleanupvars, stopvars>>

InsertOrUpdateFlows ==
  \/ InsertNew
  \/ InsertFound
  \/ InsertCount
  \/ InsertPush

--------------------------------------------------------------------------------
(* FlowTableCleanup() and cleanupFlows(false), on the cleanup thread. *)

Erase(f) == conn_table' = [conn_table EXCEPT ![f] = NULL]

\* Mutation: the cleanup thread never looks at running_.
CleanupWake_Forever ==
  /\ cleaner = "wait"
  /\ cleaner' = IF LiveAddrs # {} THEN "lock" ELSE "wait"
  /\ UNCHANGED <<tablevars, conns, ftbl_mutex, todo, it>>

\* wait_for() times out or is notified: leave if stopped, else look whether the
\* table holds anything (without a lock).
CleanupWake ==
  /\ cleaner = "wait"
  /\ cleaner' = IF ~running THEN "done" ELSE IF LiveAddrs # {} THEN "lock" ELSE "wait"
  /\ UNCHANGED <<tablevars, conns, ftbl_mutex, todo, it>>

\* Mutation: cleanupFlows() without its lock_guard.
CleanupLock_None ==
  /\ cleaner = "lock"
  /\ cleaner' = "scan"
  /\ todo' = {f \in Flows : conn_table[f] # NULL}
  /\ UNCHANGED <<tablevars, conns, ftbl_mutex, it>>

\* Take ftbl_mutex, read the clock, start at begin().
CleanupLock ==
  /\ cleaner = "lock"
  /\ ftbl_mutex = "free"
  /\ ftbl_mutex' = "cleaner"
  /\ cleaner' = "scan"
  /\ todo' = {f \in Flows : conn_table[f] # NULL}
  /\ UNCHANGED <<tablevars, conns, it>>

\* Visit one entry: erase it if its classification is finished and its packet
\* count is zero, start destroying it if it has been silent for 10 s.
CleanupVisit(f) ==
  LET i == info[conn_table[f]]
  IN  /\ cleaner = "scan"
      /\ f \in todo
      /\ \/ /\ i.pkt_ref_cnt = 0 /\ Finished(i.class_state)
            /\ Erase(f)
            /\ todo' = todo \ {f}
            /\ UNCHANGED <<cleaner, it>>
         \/ /\ i.class_state = INSPECTING /\ i.idle
            /\ cleaner' = "destroy"
            /\ it' = f
            /\ UNCHANGED <<conn_table, todo>>
         \/ /\ ~(i.pkt_ref_cnt = 0 /\ Finished(i.class_state))
            /\ ~(i.class_state = INSPECTING /\ i.idle)
            /\ todo' = todo \ {f}
            /\ UNCHANGED <<conn_table, cleaner, it>>
      /\ UNCHANGED <<info, conns, ftbl_mutex>>

\* navl_conn_destroy() of the silent flow.
CleanupDestroy ==
  /\ cleaner = "destroy"
  /\ navl_conn_destroy(info[conn_table[it]].dpi_state)
  /\ cleaner' = "erase"
  /\ UNCHANGED <<tablevars, ftbl_mutex, todo, it>>

CleanupErase ==
  /\ cleaner = "erase"
  /\ Erase(it)
  /\ todo' = todo \ {it}
  /\ it' = NULL
  /\ cleaner' = "scan"
  /\ UNCHANGED <<info, conns, ftbl_mutex>>

\* end() is reached: the lock_guard releases ftbl_mutex.
CleanupUnlock ==
  /\ cleaner = "scan"
  /\ todo = {}
  /\ ftbl_mutex' = "free"
  /\ cleaner' = "wait"
  /\ UNCHANGED <<tablevars, conns, todo, it>>

FlowTableCleanup ==
  \/ CleanupWake
  \/ CleanupLock
  \/ \E f \in Flows : CleanupVisit(f)
  \/ CleanupDestroy
  \/ CleanupErase
  \/ CleanupUnlock

\* Ten seconds pass without a packet.  cleanupFlows() reads the clock once, when
\* it starts, so the flows do not grow older while it scans.
Age ==
  /\ "age" \in Faults
  /\ cleaner \in {"wait", "lock"}
  /\ \E a \in LiveAddrs : ~info[a].idle
  /\ consumer.pc = "idle"
  /\ info' = [a \in Addrs |->
               IF a \in LiveAddrs THEN [info[a] EXCEPT !.idle = TRUE] ELSE info[a]]
  /\ UNCHANGED conn_table

--------------------------------------------------------------------------------
(* stop() and cleanupFlows(true), on the thread that stops the agent. *)

\* Tell the cleanup thread to leave.
StopCleanup ==
  /\ running' = FALSE
  /\ stopper' = "join_cleanup"
  /\ UNCHANGED exits

\* Mutation: the data path is told to exit before the final cleanup.
FinalLock_ExitFirst ==
  /\ stopper = "join_cleanup"
  /\ cleaner = "done"
  /\ ftbl_mutex = "free"
  /\ ftbl_mutex' = "stopper"
  /\ updateDPQueue' = Append(updateDPQueue, ExitMessage)
  /\ stopper' = "delete"
  /\ UNCHANGED <<conn_table, conns, it, dpiQueues, exits>>

\* Join the cleanup thread, then cleanupFlows(true) takes ftbl_mutex.
FinalLock ==
  /\ stopper = "join_cleanup"
  /\ cleaner = "done"
  /\ ftbl_mutex = "free"
  /\ ftbl_mutex' = "stopper"
  /\ stopper' = "delete"
  /\ UNCHANGED <<conn_table, conns, it, updateDPQueue, dpiQueues, exits>>

\* Destroy the navl connection of an entry, whatever its state.
FinalDestroy(f) ==
  /\ stopper = "delete"
  /\ conn_table[f] # NULL
  /\ navl_conn_destroy(info[conn_table[f]].dpi_state)
  /\ it' = f
  /\ stopper' = "erase"
  /\ UNCHANGED <<conn_table, ftbl_mutex, updateDPQueue, dpiQueues, exits>>

FinalErase ==
  /\ stopper = "erase"
  /\ Erase(it)
  /\ it' = NULL
  /\ stopper' = "delete"
  /\ UNCHANGED <<conns, ftbl_mutex, updateDPQueue, dpiQueues, exits>>

\* Release ftbl_mutex and send the exit message to the data path.
FinalUnlock ==
  /\ stopper = "delete"
  /\ LiveAddrs = {}
  /\ ftbl_mutex' = "free"
  /\ updateDPQueue' = Append(updateDPQueue, ExitMessage)
  /\ stopper' = "exits"
  /\ UNCHANGED <<conn_table, conns, it, dpiQueues, exits>>

\* One turn of the loop that sends the exit message to queues 0 .. numQueues_-1.
SendExit ==
  /\ stopper = "exits"
  /\ exits < numQueues
  /\ exits \notin jammed
  /\ dpiQueues' = [dpiQueues EXCEPT ![exits] = Append(@, ExitMessage)]
  /\ exits' = exits + 1
  /\ UNCHANGED <<conn_table, conns, it, updateDPQueue, ftbl_mutex, stopper>>

SendExitsDone ==
  /\ stopper = "exits"
  /\ exits >= numQueues
  /\ stopper' = "join_engine"
  /\ UNCHANGED <<conn_table, conns, it, updateDPQueue, dpiQueues, ftbl_mutex, exits>>

FlowTableStop ==
  \/ FinalLock
  \/ \E f \in Flows : FinalDestroy(f)
  \/ FinalErase
  \/ FinalUnlock
  \/ SendExit
  \/ SendExitsDone

--------------------------------------------------------------------------------
(* updateFlowTableDPIData(), on a DPI worker thread.  No ftbl_mutex is held. *)

\* find(info->key) in the table: the address of that key's entry, or NULL.
FindInfo(a) == conn_table[info[a].key]

\* Record a classification in the entry found at address a.
UpdateInfo(a, state, error) ==
  LET i == info[a]
      n == IF i.class_state = INSPECTING THEN 0 ELSE i.pkt_ref_cnt - 1
  IN  info' = [info EXCEPT ![a] =
                [i EXCEPT !.pkt_ref_cnt = n, !.error = error, !.class_state = state]]

\* DPIFlowData sent to the data path for the entry at address a.
DPIFlowData(a) == [exit_flag |-> FALSE, key |-> info[a].key, gen |-> info[a].gen]
================================================================================
