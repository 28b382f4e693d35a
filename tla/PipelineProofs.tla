----------------------------- MODULE PipelineProofs -----------------------------
(***************************************************************************)
(* Proofs about Pipeline, for any number of flows, entries, workers and    *)
(* packets, and for every combination of rare events.                      *)
(***************************************************************************)
EXTENDS Pipeline, FiniteSetTheorems, SequenceTheorems, TLAPS

\* The states of a classification.
ClassStates == {INSPECTING, MONITORING, CLASSIFIED, TERMINATED}

\* Where a worker is while it holds a message.
Working == {"examine", "create", "classify", "callback"} \cup InCallback

\* Where a worker is that takes no more messages.
OutOfService == {"clear", "stuck", "done"}

\* The consumer's local state in InsertOrUpdateFlows().
Consumers ==
  [pc : {"idle", "lookup", "count", "push", "SIGFPE", "done"},
   flow : Flows \cup {NULL}, data : BOOLEAN, msg : ConnMetadatas \cup {NULL}]

\* A worker's local state in Dequeue() and the callback.
Workers ==
  [pc : {"pop", "catch"} \cup Working \cup OutOfService, m : ConnMetadatas \cup {NULL},
   state : ClassStates \cup {NULL}, error : BOOLEAN, found : Addrs \cup {NULL}, gen : Nat]

\* A report to the data path.
DPIFlowDatas == [exit_flag : {FALSE}, key : Flows, gen : Nat]

\* What the consumer, the cleanup thread and the stopping thread keep.
TableType ==
  /\ conn_table \in [Flows -> Addrs \cup {NULL}]
  /\ info \in [Addrs -> ConnInfos \cup {NULL}]
  /\ ftbl_mutex \in {"free", "consumer", "cleaner", "stopper"}
  /\ running \in BOOLEAN
  /\ pkts \in Nat
  /\ consumer \in Consumers
  /\ cleaner \in {"wait", "lock", "scan", "destroy", "erase", "done"}
  /\ stopper \in {"idle", "join_cleanup", "delete", "erase", "exits", "join_engine",
                  "join_datapath", "stopped"}
  /\ todo \subseteq Flows
  /\ it \in Flows \cup {NULL}
  /\ exits \in Nat

\* What the workers and the data path thread keep.
EngineType ==
  /\ dpiQueues \in [Queues -> Seq(ConnMetadatas \cup {ExitMessage})]
  /\ jammed \subseteq Queues
  /\ workers \in [Queues -> Workers]
  /\ dpiengine_lock \in Queues \cup {NULL}
  /\ dangled \in BOOLEAN
  /\ conns \in Seq([handle : Queues, destroys : 0 .. MaxDestroys])
  /\ updateDPQueue \in Seq(DPIFlowDatas \cup {ExitMessage})
  /\ dpthread \in {"pop", "done"}

\* Every queue out of service has been taken off numQueues_ at most once.
Retired == {w \in Queues : workers[w].pc \in OutOfService}

\* numQueues_ counts at least the queues whose workers are in service.
QueuesCounted ==
  /\ numQueues \in Int
  /\ numQueues <= NumQueues
  /\ numQueues + Cardinality(Retired) >= NumQueues

\* The entry at address a has been allocated.
Allocated(a) == a \in Addrs /\ info[a] # NULL

\* The table finds an entry under its own key, and every pointer in use points to
\* an entry that was allocated.
TableOK ==
  \A f \in Flows : conn_table[f] # NULL =>
    Allocated(conn_table[f]) /\ info[conn_table[f]].key = f

\* The consumer has a flow while it inserts, and a message once it found the entry.
ConsumerOK ==
  /\ consumer.pc \in {"lookup", "count", "push"} => consumer.flow \in Flows
  /\ consumer.pc \in {"count", "push"} => consumer.msg # NULL /\ Allocated(consumer.msg.info)

\* A worker holds a message exactly while it works on one; in the callback it has
\* a state to store and the entry it found.
WorkersOK ==
  \A w \in Queues :
    /\ workers[w].m # NULL => Allocated(workers[w].m.info)
    /\ workers[w].pc \in Working => workers[w].m # NULL
    /\ workers[w].pc = "pop" => workers[w].m = NULL
    /\ workers[w].pc \in {"callback"} \cup InCallback => workers[w].state \in ClassStates
    /\ workers[w].pc \in InCallback => Allocated(workers[w].found)

\* Queued messages point to entries that were allocated.
QueuesOK ==
  \A q \in Queues : \A i \in DOMAIN dpiQueues[q] :
    dpiQueues[q][i].exit_flag \/ Allocated(dpiQueues[q][i].info)

\* Every pointer in use points to an entry that was allocated.
PointersOK == TableOK /\ ConsumerOK /\ WorkersOK /\ QueuesOK

\* ftbl_mutex is held by the thread that is in its critical section; the table is
\* not touched outside, and `it' and `todo' are entries of the table.
LockInv ==
  /\ ftbl_mutex = "consumer" <=> consumer.pc \in {"lookup", "count", "push", "SIGFPE"}
  /\ ftbl_mutex = "cleaner" <=> cleaner \in {"scan", "destroy", "erase"}
  /\ ftbl_mutex = "stopper" <=> stopper \in {"delete", "erase"}
  /\ it # NULL => cleaner \in {"destroy", "erase"} \/ stopper = "erase"
  /\ cleaner \in {"destroy", "erase"} \/ stopper = "erase" =>
       it \in Flows /\ conn_table[it] # NULL
  /\ \A f \in todo : conn_table[f] # NULL
  /\ cleaner \notin {"scan", "destroy", "erase"} => todo = {}
  /\ stopper # "idle" => consumer.pc = "done" /\ ~running
  /\ stopper \notin {"idle", "join_cleanup"} => cleaner = "done"
  /\ stopper \notin {"idle", "join_cleanup", "delete", "erase"} => LiveAddrs = {}

\* Type correctness, with what makes it inductive.
TypeInv == TableType /\ EngineType /\ QueuesCounted /\ PointersOK /\ LockInv

\* Nothing an entry is known by changes: its key, generation and queue; and its
\* packets are counted only where InsertOrUpdateFlows() found it.
EntriesKept ==
  \A a \in Addrs :
    /\ info'[a] # NULL <=> info[a] # NULL
    /\ info[a] # NULL =>
         /\ info'[a].key = info[a].key /\ info'[a].gen = info[a].gen
         /\ info'[a].queue = info[a].queue
         /\ info'[a].packetnum >= info[a].packetnum
         /\ consumer.pc # "lookup" => info'[a].packetnum = info[a].packetnum

--------------------------------------------------------------------------------
(* Type correctness. *)

\* The initial state is type correct.
LEMMA TypeInit == Init => TypeInv
<1> SUFFICES ASSUME Init PROVE TypeInv
  OBVIOUS
<1> USE AddrsAssumption, QueuesAssumption, NavlAssumption
<1> USE DEF Init, NavlInit, DataPathUpdateInit, FlowTableInit, DPIEngineInit
<1>1. TableType
  BY DEF TableType, Consumers, IdleConsumer
<1>2. EngineType
  <2>1. IdleWorker \in Workers
    BY DEF Workers, IdleWorker, Working, OutOfService, InCallback
  <2> QED
    BY <2>1, EmptySeq DEF EngineType
<1>3. QueuesCounted
  <2>1. Retired = {}
    BY DEF Retired, IdleWorker, OutOfService
  <2>2. Cardinality(Retired) = 0
    BY <2>1, FS_EmptySet
  <2> QED
    BY <2>2 DEF QueuesCounted
<1>4. PointersOK
  BY DEF PointersOK, TableOK, ConsumerOK, WorkersOK, QueuesOK, IdleConsumer, IdleWorker, Working,
         InCallback
<1>5. LockInv
  BY DEF LockInv, IdleConsumer
<1> QED
  BY <1>1, <1>2, <1>3, <1>4, <1>5 DEF TypeInv

\* numQueues_ does not fall below zero.
LEMMA QueuesLeft ==
  ASSUME TypeInv
  PROVE  /\ numQueues \in 0 .. NumQueues
         /\ IsFiniteSet(Retired) /\ Cardinality(Retired) \in Nat
         /\ \A w \in Queues \ Retired : numQueues > 0
<1>1. IsFiniteSet(Queues) /\ Cardinality(Queues) = NumQueues
  <2>1. IsFiniteSet(0 .. NumQueues - 1)
         /\ Cardinality(0 .. NumQueues - 1) = IF 0 > NumQueues - 1 THEN 0 ELSE NumQueues - 1 - 0 + 1
    BY QueuesAssumption, FS_Interval, SMT
  <2> QED
    BY <2>1, QueuesAssumption DEF Queues
<1>2. Retired \in SUBSET Queues
  BY DEF Retired
<1>3. IsFiniteSet(Retired) /\ Cardinality(Retired) <= NumQueues
        /\ (Cardinality(Retired) = NumQueues => Queues = Retired)
  BY <1>1, <1>2, FS_Subset, Zenon
<1>4. Cardinality(Retired) \in Nat
  BY <1>3, FS_CardinalityType
<1>5. numQueues \in 0 .. NumQueues
  BY <1>3, <1>4, QueuesAssumption DEF TypeInv, QueuesCounted
<1>6. ASSUME NEW w \in Queues \ Retired PROVE numQueues > 0
  BY <1>3, <1>4, <1>5, <1>6, QueuesAssumption DEF TypeInv, QueuesCounted
<1> QED
  BY <1>3, <1>4, <1>5, <1>6

\* A step that keeps the entries keeps every pointer valid.
LEMMA PointersKept ==
  ASSUME TypeInv, EntriesKept
  PROVE  /\ UNCHANGED conn_table => TableOK'
         /\ UNCHANGED consumer => ConsumerOK'
         /\ UNCHANGED workers => WorkersOK'
         /\ UNCHANGED dpiQueues => QueuesOK'
<1>1. \A a : Allocated(a) => Allocated(a)'
  BY DEF EntriesKept, Allocated
<1>2. UNCHANGED conn_table => TableOK'
  BY <1>1 DEF TableOK, TypeInv, PointersOK, EntriesKept, Allocated
<1>3. UNCHANGED consumer => ConsumerOK'
  BY <1>1 DEF ConsumerOK, TypeInv, PointersOK
<1>4. UNCHANGED workers => WorkersOK'
  BY <1>1 DEF WorkersOK, TypeInv, PointersOK
<1>5. UNCHANGED dpiQueues => QueuesOK'
  BY <1>1 DEF QueuesOK, TypeInv, PointersOK
<1> QED
  BY <1>2, <1>3, <1>4, <1>5

\* A step that leaves the entries alone keeps them.
LEMMA EntriesSame ==
  ASSUME TypeInv, UNCHANGED info PROVE EntriesKept
BY DEF EntriesKept, TypeInv, TableType, ConnInfos

\* A packet arrives and the consumer takes ftbl_mutex.
LEMMA InsertBeginType ==
  ASSUME TypeInv, NextPacket PROVE TypeInv' /\ EntriesKept
<1> PICK f \in Flows, d \in Payloads : InsertBegin(f, d)
  BY DEF NextPacket
<1>1. /\ UNCHANGED <<conn_table, info, dpiQueues, jammed, numQueues, cleaner, todo, it,
                     stopper, exits, running, workers, dpiengine_lock, dangled, conns,
                     updateDPQueue, dpthread>>
      /\ pkts' = pkts + 1 /\ consumer.pc = "idle" /\ ftbl_mutex = "free"
  BY DEF NextPacket, InsertBegin, tablevars, enginevars, cleanupvars, stopvars, workervars, dpvars
<1>2. \/ UNCHANGED <<consumer, ftbl_mutex>>
      \/ /\ consumer' = [pc |-> "lookup", flow |-> f, data |-> d, msg |-> NULL]
         /\ ftbl_mutex' = "consumer"
  BY DEF InsertBegin, IdleConsumer
<1>3. d \in BOOLEAN
  BY BoundsAssumption
<1>4. TableType' /\ EngineType' /\ QueuesCounted'
  BY <1>1, <1>2, <1>3 DEF TypeInv, TableType, EngineType, QueuesCounted, Retired, Consumers
<1>5. EntriesKept
  BY <1>1, EntriesSame
<1>6. PointersOK'
  BY <1>1, <1>2, <1>5, PointersKept DEF PointersOK, ConsumerOK
<1>7. LockInv'
  BY <1>1, <1>2 DEF TypeInv, TableType, LockInv, LiveAddrs
<1> QED
  BY <1>4, <1>5, <1>6, <1>7 DEF TypeInv

\* What the actions of the consumer leave alone.
LEMMA ConsumerFrame ==
  ASSUME ConsumerStep
  PROVE  UNCHANGED <<dpiengine_lock, jammed, numQueues, pkts, cleaner, todo, it, stopper, exits,
                     running, workers, dangled, conns, updateDPQueue, dpthread>>
BY DEF ConsumerStep, InsertOrUpdateFlows, InsertNew, InsertFound, InsertCount, InsertPush,
       enginevars, cleanupvars, stopvars, workervars, dpvars

\* The consumer adds an entry, or divides by numQueues_ when it is 0.
LEMMA InsertNewType ==
  ASSUME TypeInv, ConsumerStep, InsertNew PROVE TypeInv'
<1> USE DEF TypeInv
<1>0. UNCHANGED <<dpiQueues, ftbl_mutex>> /\ consumer.pc = "lookup"
  BY DEF InsertNew, enginevars
<1>1. CASE numQueues = 0
  <2>1. consumer' = [consumer EXCEPT !.pc = "SIGFPE"] /\ UNCHANGED <<conn_table, info>>
    BY <1>1 DEF InsertNew, tablevars
  <2>2. consumer' \in Consumers /\ consumer'.pc = "SIGFPE"
    BY <2>1 DEF TableType, Consumers
  <2>3. TableType' /\ EngineType' /\ QueuesCounted'
    BY <1>0, <2>1, <2>2, ConsumerFrame DEF TableType, EngineType, QueuesCounted, Retired
  <2>4. PointersOK'
    BY <1>0, <2>1, <2>2, ConsumerFrame, EntriesSame, PointersKept DEF PointersOK, ConsumerOK
  <2>5. LockInv'
    BY <1>0, <2>1, <2>2, ConsumerFrame DEF LockInv, LiveAddrs
  <2> QED
    BY <2>3, <2>4, <2>5
<1>2. CASE numQueues # 0
  <2> DEFINE f == consumer.flow
             q == Hash[f] % numQueues
  <2>1. f \in Flows /\ conn_table[f] = NULL
    BY <1>0 DEF InsertNew, PointersOK, ConsumerOK
  <2>2. q \in Queues
    BY <1>2, <2>1, QueuesAssumption, QueuesLeft DEF Queues
  <2>3. PICK a \in Addrs \ LiveAddrs :
          /\ conn_table' = [conn_table EXCEPT ![f] = a]
          /\ info' = [info EXCEPT ![a] = ConnInfo(f, q, pkts)]
          /\ consumer' = [consumer EXCEPT !.pc = "push", !.msg = ConnMetadata(a, pkts, 0, consumer.data)]
    BY <1>2 DEF InsertNew
  <2> HIDE DEF q
  <2>4. ConnInfo(f, q, pkts) \in ConnInfos /\ ConnInfo(f, q, pkts).key = f
    BY <2>1, <2>2 DEF ConnInfo, ConnInfos, TableType
  <2>5. ConnMetadata(a, pkts, 0, consumer.data) \in ConnMetadatas
         /\ ConnMetadata(a, pkts, 0, consumer.data).info = a
    BY DEF ConnMetadata, ConnMetadatas, TableType, Consumers
  <2>6. /\ consumer' \in Consumers /\ consumer'.pc = "push" /\ consumer'.flow = f
        /\ consumer'.msg \in ConnMetadatas /\ consumer'.msg.info = a
    BY <2>3, <2>5 DEF TableType, Consumers
  <2>7. /\ conn_table' \in [Flows -> Addrs \cup {NULL}]
        /\ info' \in [Addrs -> ConnInfos \cup {NULL}]
        /\ info'[a] \in ConnInfos /\ info'[a].key = f
    BY <2>1, <2>3, <2>4 DEF TableType
  <2>8. TableType' /\ EngineType' /\ QueuesCounted'
    BY <1>0, <2>6, <2>7, ConsumerFrame DEF TableType, EngineType, QueuesCounted, Retired
  <2>9. \A b : Allocated(b) => Allocated(b)'
    BY <2>3, <2>7, NullAssumption DEF Allocated, TableType
  <2>10. TableOK'
    <3> SUFFICES ASSUME NEW g \in Flows, conn_table'[g] # NULL
                 PROVE  (Allocated(conn_table[g]) /\ info[conn_table[g]].key = g)'
      BY DEF TableOK
    <3>1. CASE g = f
      BY <2>1, <2>3, <2>7, <3>1, NullAssumption DEF Allocated, TableType
    <3>2. CASE g # f
      <4>1. conn_table'[g] = conn_table[g] /\ conn_table[g] # a
        BY <2>3, <3>2 DEF TableType, LiveAddrs
      <4> QED
        BY <2>3, <2>9, <4>1 DEF PointersOK, TableOK, Allocated, TableType
    <3> QED
      BY <3>1, <3>2
  <2>11. ConsumerOK'
    BY <2>1, <2>6, <2>7, NullAssumption DEF ConsumerOK, Allocated
  <2>12. WorkersOK' /\ QueuesOK'
    <3>1. WorkersOK /\ QueuesOK /\ UNCHANGED <<workers, dpiQueues>>
      BY <1>0, ConsumerFrame DEF PointersOK
    <3> QED
      BY <2>9, <3>1 DEF WorkersOK, QueuesOK
  <2>13. LockInv'
    <3>1. \A g \in Flows : conn_table[g] # NULL => conn_table'[g] # NULL
      BY <2>3, AddrsAssumption DEF TableType
    <3>2. consumer.pc = "lookup" /\ stopper = "idle" /\ ftbl_mutex = "consumer"
      BY <1>0 DEF LockInv
    <3> QED
      BY <1>0, <2>6, <3>1, <3>2, ConsumerFrame DEF LockInv, TableType
  <2> QED
    BY <2>8, <2>10, <2>11, <2>12, <2>13 DEF PointersOK
<1> QED
  BY <1>1, <1>2

\* The consumer counts the packet in the entry it found.
LEMMA InsertFoundType ==
  ASSUME TypeInv, ConsumerStep, InsertFound PROVE TypeInv' /\ EntriesKept
<1> USE DEF TypeInv
<1> DEFINE f == consumer.flow
           a == conn_table[f]
           n == info[a].packetnum + 1
           msg == ConnMetadata(a, info[a].gen, n, consumer.data)
<1>1. /\ UNCHANGED <<conn_table, dpiQueues>> /\ consumer.pc = "lookup" /\ a # NULL
      /\ info' = [info EXCEPT ![a].packetnum = n]
      /\ ftbl_mutex' = IF consumer'.pc = "idle" THEN "free" ELSE "consumer"
  BY DEF InsertFound, enginevars
<1>2. \/ consumer' = IdleConsumer
      \/ consumer' = [consumer EXCEPT !.pc = "SIGFPE"]
      \/ consumer' = [consumer EXCEPT !.pc = "count", !.msg = msg]
  BY DEF InsertFound
<1>3. f \in Flows /\ a \in Addrs /\ info[a] \in ConnInfos
  BY <1>1, NullAssumption DEF PointersOK, ConsumerOK, TableOK, Allocated, TableType
<1>4. n \in Nat /\ n > info[a].packetnum
  BY <1>3 DEF ConnInfos
<1> HIDE DEF n
<1>5. info' \in [Addrs -> ConnInfos \cup {NULL}] /\ info'[a] \in ConnInfos
  BY <1>1, <1>3, <1>4 DEF TableType, ConnInfos
<1>6. EntriesKept
  BY <1>1, <1>3, <1>4, NullAssumption DEF EntriesKept, TableType, ConnInfos
<1>7. msg \in ConnMetadatas /\ msg.info = a
  BY <1>3, <1>4 DEF ConnMetadata, ConnMetadatas, ConnInfos, TableType, Consumers
<1> HIDE DEF msg
<1>8. /\ consumer' \in Consumers /\ consumer'.pc \in {"idle", "SIGFPE", "count"}
      /\ consumer'.pc = "count" => /\ consumer'.flow = f /\ consumer'.msg = msg
  <2>1. CASE consumer' = IdleConsumer
    BY <2>1 DEF Consumers, IdleConsumer
  <2>2. CASE consumer' = [consumer EXCEPT !.pc = "SIGFPE"]
    BY <2>2 DEF TableType, Consumers
  <2>3. CASE consumer' = [consumer EXCEPT !.pc = "count", !.msg = msg]
    BY <2>3, <1>7 DEF TableType, Consumers
  <2> QED
    BY <1>2, <2>1, <2>2, <2>3
<1>9. TableType' /\ EngineType' /\ QueuesCounted'
  BY <1>1, <1>5, <1>8, ConsumerFrame DEF TableType, EngineType, QueuesCounted, Retired
<1>10. ConsumerOK'
  BY <1>3, <1>5, <1>7, <1>8, NullAssumption DEF ConsumerOK, Allocated
<1>11. LockInv'
  BY <1>1, <1>8, ConsumerFrame DEF LockInv, LiveAddrs
<1>12. TableOK' /\ WorkersOK' /\ QueuesOK'
  BY <1>1, <1>6, ConsumerFrame, PointersKept
<1> QED
  BY <1>6, <1>9, <1>10, <1>11, <1>12 DEF PointersOK

\* The consumer raises pkt_ref_cnt, or lets the packet go.
LEMMA InsertCountType ==
  ASSUME TypeInv, ConsumerStep, InsertCount PROVE TypeInv' /\ EntriesKept
<1> USE DEF TypeInv
<1> DEFINE a == consumer.msg.info
           n == info[a].pkt_ref_cnt + 1
           i == [info[a] EXCEPT !.pkt_ref_cnt = n, !.idle = FALSE]
<1>1. /\ UNCHANGED <<conn_table, dpiQueues, ftbl_mutex>> /\ consumer.pc = "count"
      /\ info' = [info EXCEPT ![a] = i]
      /\ consumer' = [consumer EXCEPT !.pc = "push"]
  BY DEF InsertCount, enginevars
<1>2. a \in Addrs /\ info[a] \in ConnInfos
  BY <1>1, NullAssumption DEF PointersOK, ConsumerOK, Allocated, TableType
<1> HIDE DEF a
<1>11. n \in Int
  BY <1>2 DEF ConnInfos
<1> HIDE DEF n
<1>3. /\ i \in ConnInfos
      /\ i.key = info[a].key /\ i.gen = info[a].gen /\ i.queue = info[a].queue
      /\ i.packetnum = info[a].packetnum
  BY <1>2, <1>11 DEF ConnInfos
<1> HIDE DEF i
<1>10. info' \in [Addrs -> ConnInfos \cup {NULL}]
  BY <1>1, <1>2, <1>3 DEF TableType
<1>4. EntriesKept
  BY <1>1, <1>2, <1>3, NullAssumption DEF EntriesKept, TableType, ConnInfos
<1>5. /\ consumer' \in Consumers /\ consumer'.pc = "push" /\ consumer'.flow = consumer.flow
      /\ consumer'.msg = consumer.msg
  BY <1>1 DEF TableType, Consumers
<1>6. TableType' /\ EngineType' /\ QueuesCounted'
  BY <1>1, <1>10, <1>5, ConsumerFrame DEF TableType, EngineType, QueuesCounted, Retired
<1>7. ConsumerOK'
  BY <1>1, <1>4, <1>5 DEF ConsumerOK, PointersOK, Allocated, EntriesKept
<1>8. LockInv'
  BY <1>1, <1>5, ConsumerFrame DEF LockInv, LiveAddrs
<1>9. TableOK' /\ WorkersOK' /\ QueuesOK'
  BY <1>1, <1>4, ConsumerFrame, PointersKept
<1> QED
  BY <1>4, <1>6, <1>7, <1>8, <1>9 DEF PointersOK

\* The message is appended to the queue of its entry.
LEMMA InsertPushQueue ==
  ASSUME TypeInv, InsertPush, NEW q, q = info[consumer.msg.info].queue
  PROVE  /\ q \in Queues /\ consumer.msg \in ConnMetadatas /\ Allocated(consumer.msg.info)
         /\ dpiQueues' \in [Queues -> Seq(ConnMetadatas \cup {ExitMessage})]
         /\ \A v \in Queues : v # q => dpiQueues'[v] = dpiQueues[v]
         /\ Len(dpiQueues'[q]) = Len(dpiQueues[q]) + 1
         /\ \A i \in 1 .. Len(dpiQueues[q]) : dpiQueues'[q][i] = dpiQueues[q][i]
         /\ dpiQueues'[q][Len(dpiQueues[q]) + 1] = consumer.msg
<1>1. /\ consumer.pc = "push"
      /\ dpiQueues' = [dpiQueues EXCEPT ![q] = Append(dpiQueues[q], consumer.msg)]
  BY DEF InsertPush
<1>2. consumer.msg \in ConnMetadatas /\ Allocated(consumer.msg.info)
  BY <1>1 DEF TypeInv, PointersOK, ConsumerOK, TableType, Consumers
<1>3. q \in Queues
  BY <1>2 DEF Allocated, TypeInv, TableType, ConnInfos
<1>4. dpiQueues \in [Queues -> Seq(ConnMetadatas \cup {ExitMessage})]
  BY DEF TypeInv, EngineType
<1> DEFINE S == ConnMetadatas \cup {ExitMessage}
<1>5. dpiQueues[q] \in Seq(S) /\ consumer.msg \in S
  BY <1>2, <1>3, <1>4
<1> HIDE DEF S
<1>6. /\ Append(dpiQueues[q], consumer.msg) \in Seq(S)
      /\ Len(Append(dpiQueues[q], consumer.msg)) = Len(dpiQueues[q]) + 1
      /\ \A i \in 1 .. Len(dpiQueues[q]) : Append(dpiQueues[q], consumer.msg)[i] = dpiQueues[q][i]
      /\ Append(dpiQueues[q], consumer.msg)[Len(dpiQueues[q]) + 1] = consumer.msg
  <2> DEFINE s == dpiQueues[q]
             m == consumer.msg
  <2>1. s \in Seq(S) /\ m \in S
    BY <1>5
  <2> HIDE DEF s, m
  <2>2. Append(s, m) \in Seq(S) /\ Len(Append(s, m)) = Len(s) + 1
    BY <2>1, AppendProperties
  <2>3. /\ \A i \in 1 .. Len(s) : Append(s, m)[i] = s[i]
        /\ Append(s, m)[Len(s) + 1] = m
    BY <2>1, AppendProperties
  <2> QED
    BY <2>2, <2>3 DEF s, m
<1>7. dpiQueues' \in [Queues -> Seq(S)]
  BY <1>1, <1>3, <1>4, <1>6 DEF S
<1>8. dpiQueues'[q] = Append(dpiQueues[q], consumer.msg)
  BY <1>1, <1>3, <1>4
<1>9. \A v \in Queues : v # q => dpiQueues'[v] = dpiQueues[v]
  BY <1>1, <1>3, <1>4
<1> QED
  BY <1>2, <1>3, <1>6, <1>7, <1>8, <1>9 DEF S

\* The consumer pushes the message to the entry's queue and unlocks.
LEMMA InsertPushType ==
  ASSUME TypeInv, ConsumerStep, InsertPush PROVE TypeInv' /\ EntriesKept
<1> USE DEF TypeInv
<1> DEFINE q == info[consumer.msg.info].queue
<1>1. /\ UNCHANGED <<conn_table, info>> /\ consumer.pc = "push" /\ consumer' = IdleConsumer
      /\ ftbl_mutex' = "free"
  BY DEF InsertPush, tablevars
<1>2. EntriesKept
  BY <1>1, EntriesSame
<1>3. consumer' \in Consumers /\ consumer'.pc = "idle"
  BY <1>1 DEF Consumers, IdleConsumer
<1>4. TableType' /\ EngineType' /\ QueuesCounted'
  BY <1>1, <1>3, ConsumerFrame, InsertPushQueue DEF TableType, EngineType, QueuesCounted, Retired
<1>5. ConsumerOK'
  BY <1>3 DEF ConsumerOK
<1>6. LockInv'
  BY <1>1, <1>3, ConsumerFrame DEF LockInv, LiveAddrs
<1>7. TableOK' /\ WorkersOK'
  BY <1>1, <1>2, ConsumerFrame, PointersKept
<1>8. QueuesOK'
  <2> SUFFICES ASSUME NEW v \in Queues, NEW i \in DOMAIN dpiQueues'[v]
               PROVE  dpiQueues'[v][i].exit_flag \/ Allocated(dpiQueues'[v][i].info)
    BY <1>1 DEF QueuesOK, Allocated
  <2>1. CASE v # q
    BY <2>1, InsertPushQueue DEF PointersOK, QueuesOK
  <2>2. CASE v = q /\ i <= Len(dpiQueues[q])
    <3>1. i \in 1 .. Len(dpiQueues[q]) /\ i \in DOMAIN dpiQueues[q]
      BY <2>2, InsertPushQueue DEF EngineType
    <3>2. dpiQueues'[v][i] = dpiQueues[v][i]
      BY <2>2, <3>1, InsertPushQueue
    <3> QED
      BY <2>2, <3>1, <3>2 DEF PointersOK, QueuesOK
  <2>3. CASE v = q /\ i > Len(dpiQueues[q])
    <3>1. i = Len(dpiQueues[q]) + 1
      BY <2>3, InsertPushQueue DEF EngineType
    <3> QED
      BY <2>3, <3>1, InsertPushQueue
  <2> QED
    BY <2>1, <2>2, <2>3, InsertPushQueue DEF EngineType
<1> QED
  BY <1>2, <1>4, <1>5, <1>6, <1>7, <1>8 DEF PointersOK

\* navl_conn_destroy() destroys no other connection and creates none.
LEMMA DestroyConns ==
  ASSUME TypeInv, NEW c, navl_conn_destroy(c)
  PROVE  /\ conns' \in Seq([handle : Queues, destroys : 0 .. MaxDestroys])
         /\ Len(conns') = Len(conns)
         /\ \A x \in 1 .. Len(conns) :
              /\ conns'[x].handle = conns[x].handle
              /\ x # c => conns'[x] = conns[x]
              /\ x = c /\ conns[x].destroys = 0 => conns'[x].destroys = 1
<1> DEFINE S == [handle : Queues, destroys : 0 .. MaxDestroys]
           Destroyed(x) == IF x = c /\ conns[x].destroys < MaxDestroys
                             THEN [conns[x] EXCEPT !.destroys = @ + 1] ELSE conns[x]
<1>1. conns \in Seq(S) /\ Len(conns) \in Nat /\ DOMAIN conns = 1 .. Len(conns)
  BY LenProperties DEF TypeInv, EngineType
<1>2. \A x \in 1 .. Len(conns) : conns[x] \in S
  BY <1>1, ElementOfSeq
<1>3. \A x \in 1 .. Len(conns) :
        /\ Destroyed(x) \in S /\ Destroyed(x).handle = conns[x].handle
        /\ x # c => Destroyed(x) = conns[x]
        /\ x = c /\ conns[x].destroys = 0 => Destroyed(x).destroys = 1
  BY <1>2 DEF MaxDestroys
<1>4. conns' = [x \in 1 .. Len(conns) |-> Destroyed(x)]
  BY <1>1 DEF navl_conn_destroy
<1> HIDE DEF Destroyed, S
<1>5. conns' \in [1 .. Len(conns) -> S]
  BY <1>3, <1>4
<1>6. conns' \in Seq(S)
  BY <1>1, <1>5, SeqDef
<1>7. Len(conns') = Len(conns)
  BY <1>1, <1>5, <1>6, LenProperties
<1> QED
  BY <1>3, <1>4, <1>6, <1>7 DEF S

\* What the actions of the cleanup thread leave alone.
LEMMA CleanerFrame ==
  ASSUME CleanerStep
  PROVE  UNCHANGED <<info, dpiQueues, jammed, numQueues, consumer, pkts, stopper, exits, running,
                     workers, dpiengine_lock, dangled, updateDPQueue, dpthread>>
BY DEF CleanerStep, FlowTableCleanup, CleanupWake, CleanupLock, CleanupVisit, CleanupDestroy,
       CleanupErase, CleanupUnlock, tablevars, enginevars, consumervars, stopvars, workervars, dpvars

\* The cleanup thread only takes entries out, and none while the consumer is inside.
LEMMA CleanerType ==
  ASSUME TypeInv, CleanerStep
  PROVE  /\ TypeInv' /\ EntriesKept
         /\ \A f \in Flows : conn_table'[f] \in {conn_table[f], NULL}
         /\ ftbl_mutex = "consumer" => UNCHANGED conn_table
<1> USE DEF TypeInv
<1> USE CleanerFrame
<1>1. EntriesKept
  BY EntriesSame
<1>2. ConsumerOK' /\ WorkersOK' /\ QueuesOK'
  BY <1>1, PointersKept
<1> DEFINE Goal ==
             /\ conn_table' \in [Flows -> Addrs \cup {NULL}]
             /\ ftbl_mutex' \in {"free", "consumer", "cleaner", "stopper"}
             /\ cleaner' \in {"wait", "lock", "scan", "destroy", "erase", "done"}
             /\ todo' \subseteq Flows /\ it' \in Flows \cup {NULL}
             /\ conns' \in Seq([handle : Queues, destroys : 0 .. MaxDestroys])
             /\ LockInv'
             /\ \A f \in Flows : conn_table'[f] \in {conn_table[f], NULL}
             /\ ftbl_mutex = "consumer" => UNCHANGED conn_table
<1>3. SUFFICES Goal
  <2>1. TableType' /\ EngineType' /\ QueuesCounted'
    BY <1>3 DEF TableType, EngineType, QueuesCounted, Retired
  <2>2. TableOK'
    BY <1>1, <1>3 DEF TableOK, PointersOK, Allocated, EntriesKept
  <2> QED
    BY <1>1, <1>2, <1>3, <2>1, <2>2 DEF PointersOK
<1>4. CASE CleanupWake
  BY <1>4 DEF CleanupWake, TableType, EngineType, LockInv, LiveAddrs, tablevars
<1>5. CASE CleanupLock
  BY <1>5 DEF CleanupLock, TableType, EngineType, LockInv, LiveAddrs, tablevars
<1>6. ASSUME NEW f \in Flows, CleanupVisit(f) PROVE Goal
  <2>1. cleaner = "scan" /\ f \in todo /\ UNCHANGED <<conns, ftbl_mutex>>
    BY <1>6 DEF CleanupVisit
  <2>2. \/ Erase(f) /\ todo' = todo \ {f} /\ UNCHANGED <<cleaner, it>>
        \/ cleaner' = "destroy" /\ it' = f /\ UNCHANGED <<conn_table, todo>>
        \/ todo' = todo \ {f} /\ UNCHANGED <<conn_table, cleaner, it>>
    BY <1>6 DEF CleanupVisit
  <2>3. it = NULL
    BY <2>1 DEF LockInv
  <2> USE DEF Erase, TableType, EngineType, LockInv
  <2>4. CASE Erase(f) /\ todo' = todo \ {f} /\ UNCHANGED <<cleaner, it>>
    BY <2>1, <2>3, <2>4
  <2>5. CASE cleaner' = "destroy" /\ it' = f /\ UNCHANGED <<conn_table, todo>>
    BY <2>1, <2>3, <2>5
  <2>6. CASE todo' = todo \ {f} /\ UNCHANGED <<conn_table, cleaner, it>>
    BY <2>1, <2>3, <2>6
  <2> QED
    BY <2>2, <2>4, <2>5, <2>6
<1>7. CASE CleanupDestroy
  BY <1>7, DestroyConns DEF CleanupDestroy, TableType, EngineType, LockInv, LiveAddrs, tablevars
<1>8. CASE CleanupErase
  BY <1>8 DEF CleanupErase, Erase, TableType, EngineType, LockInv, LiveAddrs
<1>9. CASE CleanupUnlock
  BY <1>9 DEF CleanupUnlock, TableType, EngineType, LockInv, LiveAddrs, tablevars
<1> QED
  BY <1>4, <1>5, <1>6, <1>7, <1>8, <1>9 DEF CleanerStep, FlowTableCleanup

\* Time passes for the entries of the table.
LEMMA SilenceType ==
  ASSUME TypeInv, Silence PROVE TypeInv' /\ EntriesKept
<1> USE DEF TypeInv
<1> DEFINE Aged(a) == [info[a] EXCEPT !.idle = TRUE]
<1>1. /\ UNCHANGED <<conn_table, dpiQueues, jammed, numQueues, ftbl_mutex, consumer, pkts, cleaner,
                     todo, it, stopper, exits, running, workers, dpiengine_lock, dangled, conns,
                     updateDPQueue, dpthread>>
      /\ info' = [a \in Addrs |-> IF a \in LiveAddrs THEN Aged(a) ELSE info[a]]
  BY DEF Silence, Age, enginevars, consumervars, cleanupvars, stopvars, workervars, dpvars
<1>2. \A a \in LiveAddrs : a \in Addrs /\ info[a] \in ConnInfos
  BY NullAssumption DEF PointersOK, TableOK, Allocated, TableType, LiveAddrs
<1>3. \A a \in LiveAddrs : /\ Aged(a) \in ConnInfos
                           /\ Aged(a).key = info[a].key /\ Aged(a).gen = info[a].gen
                           /\ Aged(a).queue = info[a].queue
                           /\ Aged(a).packetnum = info[a].packetnum
  BY <1>2 DEF ConnInfos
<1> HIDE DEF Aged
<1>4. info' \in [Addrs -> ConnInfos \cup {NULL}]
  BY <1>1, <1>3 DEF TableType
<1>5. EntriesKept
  <2> SUFFICES ASSUME NEW a \in Addrs
               PROVE  /\ info'[a] # NULL <=> info[a] # NULL
                      /\ info[a] # NULL =>
                           /\ info'[a].key = info[a].key /\ info'[a].gen = info[a].gen
                           /\ info'[a].queue = info[a].queue
                           /\ info'[a].packetnum = info[a].packetnum
                           /\ info[a].packetnum \in Nat
    BY DEF EntriesKept
  <2>1. CASE a \in LiveAddrs
    BY <1>1, <1>2, <1>3, <2>1, NullAssumption DEF ConnInfos
  <2>2. CASE a \notin LiveAddrs
    BY <1>1, <2>2 DEF TableType, ConnInfos
  <2> QED
    BY <2>1, <2>2
<1>6. TableType' /\ EngineType' /\ QueuesCounted'
  BY <1>1, <1>4 DEF TableType, EngineType, QueuesCounted, Retired
<1>7. PointersOK'
  BY <1>1, <1>5, PointersKept DEF PointersOK
<1>8. LockInv'
  BY <1>1 DEF LockInv, LiveAddrs
<1> QED
  BY <1>5, <1>6, <1>7, <1>8

\* stop() begins once the consumer is out of the table.
LEMMA StopBeginType ==
  ASSUME TypeInv, StopBegin PROVE TypeInv' /\ EntriesKept
<1> USE DEF TypeInv
<1>1. /\ UNCHANGED <<conn_table, info, dpiQueues, jammed, numQueues, ftbl_mutex, pkts, cleaner,
                     todo, it, exits, workers, dpiengine_lock, dangled, conns, updateDPQueue,
                     dpthread>>
      /\ consumer.pc = "idle" /\ consumer' = [consumer EXCEPT !.pc = "done"]
      /\ stopper' = "join_cleanup" /\ running' = FALSE /\ stopper = "idle"
  BY DEF StopBegin, StopCleanup, tablevars, enginevars, cleanupvars, workervars, dpvars
<1>2. consumer' \in Consumers /\ consumer'.pc = "done"
  BY <1>1 DEF TableType, Consumers
<1>3. EntriesKept
  BY <1>1, EntriesSame
<1>4. TableType' /\ EngineType' /\ QueuesCounted'
  BY <1>1, <1>2 DEF TableType, EngineType, QueuesCounted, Retired
<1>5. TableOK' /\ WorkersOK' /\ QueuesOK' /\ ConsumerOK'
  BY <1>1, <1>2, <1>3, PointersKept DEF ConsumerOK
<1>6. LockInv'
  BY <1>1, <1>2 DEF LockInv, LiveAddrs
<1> QED
  BY <1>3, <1>4, <1>5, <1>6 DEF PointersOK

\* stop() joins the workers and then the data path thread.
LEMMA JoinThreadsType ==
  ASSUME TypeInv, JoinThreads PROVE TypeInv' /\ EntriesKept
<1> USE DEF TypeInv
<1>1. /\ UNCHANGED <<conn_table, info, dpiQueues, jammed, numQueues, ftbl_mutex, consumer, pkts,
                     cleaner, todo, it, exits, running, workers, dpiengine_lock, dangled, conns,
                     updateDPQueue, dpthread>>
      /\ stopper \in {"join_engine", "join_datapath"} /\ stopper' \in {"join_datapath", "stopped"}
  BY DEF JoinThreads, tablevars, enginevars, consumervars, cleanupvars, workervars, dpvars
<1>2. EntriesKept
  BY <1>1, EntriesSame
<1>3. TableType' /\ EngineType' /\ QueuesCounted'
  BY <1>1 DEF TableType, EngineType, QueuesCounted, Retired
<1>4. PointersOK'
  BY <1>1, <1>2, PointersKept DEF PointersOK
<1>5. LockInv'
  BY <1>1 DEF LockInv, LiveAddrs
<1> QED
  BY <1>2, <1>3, <1>4, <1>5

\* The data path thread takes a report or its exit message.
LEMMA DataPathType ==
  ASSUME TypeInv, DataPathStep PROVE TypeInv' /\ EntriesKept
<1> USE DEF TypeInv
<1>1. /\ UNCHANGED <<conn_table, info, dpiQueues, jammed, numQueues, ftbl_mutex, consumer, pkts,
                     cleaner, todo, it, stopper, exits, running, workers, dpiengine_lock, dangled,
                     conns>>
      /\ updateDPQueue # <<>> /\ updateDPQueue' = Tail(updateDPQueue)
      /\ dpthread' \in {"pop", "done"}
  BY DEF DataPathStep, GetDPIFlowData, tablevars, enginevars, consumervars, cleanupvars, stopvars,
         workervars
<1>2. EntriesKept
  BY <1>1, EntriesSame
<1>3. updateDPQueue' \in Seq(DPIFlowDatas \cup {ExitMessage})
  BY <1>1, HeadTailProperties DEF EngineType
<1>4. TableType' /\ EngineType' /\ QueuesCounted'
  BY <1>1, <1>3 DEF TableType, EngineType, QueuesCounted, Retired
<1>5. PointersOK'
  BY <1>1, <1>2, PointersKept DEF PointersOK
<1>6. LockInv'
  BY <1>1 DEF LockInv, LiveAddrs
<1> QED
  BY <1>2, <1>4, <1>5, <1>6

\* What the actions of FlowTable::stop() leave alone.
LEMMA StopperFrame ==
  ASSUME TableStop
  PROVE  UNCHANGED <<info, jammed, numQueues, running, consumer, pkts, cleaner, todo, workers,
                     dpiengine_lock, dangled, dpthread>>
BY DEF TableStop, consumervars, workervars

\* An exit message goes to the end of a queue and leaves the rest as it is.
LEMMA AppendedExit ==
  ASSUME NEW S, NEW s \in Seq(S \cup {ExitMessage})
  PROVE  /\ Append(s, ExitMessage) \in Seq(S \cup {ExitMessage})
         /\ Len(Append(s, ExitMessage)) = Len(s) + 1
         /\ \A i \in 1 .. Len(s) : Append(s, ExitMessage)[i] = s[i]
         /\ Append(s, ExitMessage)[Len(s) + 1] = ExitMessage
<1> ExitMessage \in S \cup {ExitMessage}
  OBVIOUS
<1> QED
  BY AppendProperties

\* FlowTable's part of stop(): empty the table, then send the exit messages.
LEMMA StopperType ==
  ASSUME TypeInv, TableStop
  PROVE  /\ TypeInv' /\ EntriesKept
         /\ \A f \in Flows : conn_table'[f] \in {conn_table[f], NULL}
<1> USE DEF TypeInv
<1> USE StopperFrame
<1>1. EntriesKept
  BY EntriesSame
<1>2. ConsumerOK' /\ WorkersOK'
  BY <1>1, PointersKept
<1> DEFINE Goal ==
             /\ conn_table' \in [Flows -> Addrs \cup {NULL}]
             /\ ftbl_mutex' \in {"free", "consumer", "cleaner", "stopper"}
             /\ stopper' \in {"delete", "erase", "exits", "join_engine"}
             /\ it' \in Flows \cup {NULL} /\ exits' \in Nat
             /\ conns' \in Seq([handle : Queues, destroys : 0 .. MaxDestroys])
             /\ updateDPQueue' \in Seq(DPIFlowDatas \cup {ExitMessage})
             /\ LockInv'
             /\ \A f \in Flows : conn_table'[f] \in {conn_table[f], NULL}
<1>3. SUFFICES Goal /\ QueuesOK' /\ dpiQueues' \in [Queues -> Seq(ConnMetadatas \cup {ExitMessage})]
  <2>1. TableType' /\ EngineType' /\ QueuesCounted'
    BY <1>3 DEF TableType, EngineType, QueuesCounted, Retired
  <2>2. TableOK'
    BY <1>1, <1>3 DEF TableOK, PointersOK, Allocated, EntriesKept
  <2> QED
    BY <1>1, <1>2, <1>3, <2>1, <2>2 DEF PointersOK
<1>4. UNCHANGED dpiQueues =>
        QueuesOK' /\ dpiQueues' \in [Queues -> Seq(ConnMetadatas \cup {ExitMessage})]
  BY <1>1, PointersKept DEF EngineType
<1>11. UNCHANGED conn_table => LiveAddrs' = LiveAddrs
  BY DEF LiveAddrs
<1>5. CASE FinalLock
  <2>1. Goal
    BY <1>5, <1>11 DEF FinalLock, TableType, EngineType, LockInv
  <2> QED
    BY <1>4, <1>5, <2>1 DEF FinalLock
<1>6. ASSUME NEW f \in Flows, FinalDestroy(f)
      PROVE  Goal /\ QueuesOK' /\ dpiQueues' \in [Queues -> Seq(ConnMetadatas \cup {ExitMessage})]
  <2>1. Goal
    BY <1>6, <1>11, DestroyConns DEF FinalDestroy, TableType, EngineType, LockInv
  <2> QED
    BY <1>4, <1>6, <2>1 DEF FinalDestroy
<1>7. CASE FinalErase
  <2>2. /\ stopper = "erase" /\ stopper' = "delete" /\ it' = NULL
        /\ conn_table' = [conn_table EXCEPT ![it] = NULL]
        /\ UNCHANGED <<conns, ftbl_mutex, updateDPQueue, dpiQueues, exits>>
    BY <1>7 DEF FinalErase, Erase
  <2>3. todo = {} /\ cleaner = "done"
    BY <2>2 DEF LockInv
  <2>1. Goal
    BY <2>2, <2>3 DEF TableType, EngineType, LockInv
  <2> QED
    BY <1>4, <1>7, <2>1 DEF FinalErase
<1>8. CASE FinalUnlock
  <2>1. updateDPQueue' \in Seq(DPIFlowDatas \cup {ExitMessage})
    BY <1>8, AppendedExit DEF FinalUnlock, EngineType
  <2>2. Goal
    BY <1>8, <1>11, <2>1 DEF FinalUnlock, TableType, EngineType, LockInv
  <2> QED
    BY <1>4, <1>8, <2>2 DEF FinalUnlock
<1>9. CASE SendExit
  <2>1. exits \in Queues
    <3>1. exits < numQueues /\ exits \in Nat
      BY <1>9 DEF SendExit, TableType
    <3> QED
      BY <3>1, QueuesLeft, QueuesAssumption DEF Queues
  <2>2. /\ dpiQueues' = [dpiQueues EXCEPT ![exits] = Append(dpiQueues[exits], ExitMessage)]
        /\ UNCHANGED <<conn_table, conns, it, updateDPQueue, ftbl_mutex, stopper>>
        /\ exits' = exits + 1 /\ stopper = "exits"
    BY <1>9 DEF SendExit
  <2>3. dpiQueues \in [Queues -> Seq(ConnMetadatas \cup {ExitMessage})]
    BY DEF EngineType
  <2>4. dpiQueues' \in [Queues -> Seq(ConnMetadatas \cup {ExitMessage})]
    BY <2>1, <2>2, <2>3, AppendedExit
  <2>5. Goal
    BY <2>2, <1>11 DEF TableType, EngineType, LockInv
  <2>6. QueuesOK'
    <3> SUFFICES ASSUME NEW v \in Queues, NEW i \in DOMAIN dpiQueues'[v]
                 PROVE  dpiQueues'[v][i].exit_flag \/ Allocated(dpiQueues'[v][i].info)
      BY DEF QueuesOK, Allocated
    <3>1. CASE v # exits
      BY <2>1, <2>2, <2>3, <3>1 DEF PointersOK, QueuesOK
    <3>2. CASE v = exits
      <4>1. dpiQueues'[v] = Append(dpiQueues[v], ExitMessage) /\ dpiQueues[v] \in Seq(ConnMetadatas \cup {ExitMessage})
        BY <2>1, <2>2, <2>3, <3>2
      <4>2. i \in 1 .. Len(dpiQueues[v]) + 1 /\ Len(dpiQueues[v]) \in Nat
        BY <4>1, AppendedExit, LenProperties
      <4>3. CASE i = Len(dpiQueues[v]) + 1
        BY <4>1, <4>3, AppendedExit DEF ExitMessage
      <4>4. CASE i \in 1 .. Len(dpiQueues[v])
        <5>1. dpiQueues'[v][i] = dpiQueues[v][i] /\ i \in DOMAIN dpiQueues[v]
          BY <4>1, <4>4, AppendedExit, LenProperties
        <5> QED
          BY <5>1 DEF PointersOK, QueuesOK
      <4> QED
        BY <4>2, <4>3, <4>4
    <3> QED
      BY <3>1, <3>2
  <2> QED
    BY <2>4, <2>5, <2>6
<1>10. CASE SendExitsDone
  <2>1. Goal
    BY <1>10, <1>11 DEF SendExitsDone, TableType, EngineType, LockInv
  <2> QED
    BY <1>4, <1>10, <2>1 DEF SendExitsDone
<1> QED
  BY <1>5, <1>6, <1>7, <1>8, <1>9, <1>10 DEF TableStop, FlowTableStop

\* What the actions of a worker leave alone.
LEMMA WorkerFrame ==
  ASSUME NEW w \in Queues, WorkerStep(w)
  PROVE  UNCHANGED <<conn_table, ftbl_mutex, consumer, pkts, cleaner, todo, it, stopper, exits,
                     running, dpthread>>
BY DEF WorkerStep, Worker, Dequeue, Examine, CreateConn, Classify, CallbackFind, CallbackUpdate,
       CallbackDestroy, CallbackReport, Throw, CatchDecrement, CatchClear, tablevars, consumervars,
       cleanupvars, stopvars

\* Worker w, and no other, moves.
Moves(w) ==
  /\ workers' \in [Queues -> Workers]
  /\ \A v \in Queues \ {w} : workers'[v] = workers[v]

\* What a step of one worker has to show for the pointers and the count of queues.
LEMMA WorkerMoved ==
  ASSUME TypeInv, EntriesKept, NEW w \in Queues, Moves(w),
         workers'[w].m # NULL => workers'[w].m.info \in Addrs /\ info'[workers'[w].m.info] # NULL,
         workers'[w].pc \in Working => workers'[w].m # NULL,
         workers'[w].pc = "pop" => workers'[w].m = NULL,
         workers'[w].pc \in {"callback"} \cup InCallback => workers'[w].state \in ClassStates,
         workers'[w].pc \in InCallback =>
           workers'[w].found \in Addrs /\ info'[workers'[w].found] # NULL,
         workers[w].pc \notin OutOfService \/ workers'[w].pc \in OutOfService
  PROVE  WorkersOK' /\ (UNCHANGED numQueues => QueuesCounted')
<1>1. /\ workers' \in [Queues -> Workers]
      /\ \A v \in Queues \ {w} : workers'[v] = workers[v]
  BY DEF Moves
<1>2. WorkersOK'
  <2> SUFFICES ASSUME NEW v \in Queues
               PROVE  (/\ workers[v].m # NULL => Allocated(workers[v].m.info)
                       /\ workers[v].pc \in Working => workers[v].m # NULL
                       /\ workers[v].pc = "pop" => workers[v].m = NULL
                       /\ workers[v].pc \in {"callback"} \cup InCallback => workers[v].state \in ClassStates
                       /\ workers[v].pc \in InCallback => Allocated(workers[v].found))'
    BY DEF WorkersOK
  <2>1. CASE v = w
    BY <1>1, <2>1 DEF Allocated
  <2>2. CASE v # w
    BY <1>1, <2>2 DEF Allocated, EntriesKept, TypeInv, PointersOK, WorkersOK
  <2> QED
    BY <2>1, <2>2
<1>3. ASSUME UNCHANGED numQueues PROVE QueuesCounted'
  <2>1. Retired \in SUBSET Retired' /\ Retired' \in SUBSET Queues
    BY <1>1 DEF Retired
  <2>2. IsFiniteSet(Queues)
    BY FS_Interval, QueuesAssumption DEF Queues
  <2>3. IsFiniteSet(Retired')
    BY <2>1, <2>2, FS_Subset
  <2>4. Cardinality(Retired) <= Cardinality(Retired') /\ Cardinality(Retired') \in Nat
    BY <2>1, <2>3, FS_Subset, FS_CardinalityType
  <2>5. Cardinality(Retired) \in Nat
    BY QueuesLeft
  <2> QED
    BY <1>3, <2>4, <2>5, QueuesAssumption DEF TypeInv, QueuesCounted
<1> QED
  BY <1>2, <1>3

\* The moves of a worker to another place in its loop, and back to its start.
LEMMA GotoMoves ==
  ASSUME TypeInv, NEW w \in Queues, NEW pc \in {"pop", "catch"} \cup Working \cup OutOfService,
         Goto(w, pc)
  PROVE  /\ Moves(w) /\ workers'[w].pc = pc
         /\ workers'[w].m = workers[w].m /\ workers'[w].state = workers[w].state
         /\ workers'[w].error = workers[w].error /\ workers'[w].found = workers[w].found
         /\ workers'[w].gen = workers[w].gen
<1>1. workers \in [Queues -> Workers] /\ workers[w] \in Workers
  BY DEF TypeInv, EngineType
<1> DEFINE r == [workers[w] EXCEPT !.pc = pc]
<1>2. r \in Workers
  BY <1>1 DEF Workers
<1>3. /\ r.pc = pc /\ r.m = workers[w].m /\ r.state = workers[w].state
      /\ r.error = workers[w].error /\ r.found = workers[w].found /\ r.gen = workers[w].gen
  BY <1>1 DEF Workers
<1>4. workers' = [workers EXCEPT ![w] = r]
  BY <1>1 DEF Goto
<1> HIDE DEF r
<1>5. workers'[w] = r /\ Moves(w)
  BY <1>1, <1>2, <1>4 DEF Moves
<1> QED
  BY <1>3, <1>5

\* A worker that is done with its message goes back to pop().
LEMMA ContinueMoves ==
  ASSUME TypeInv, NEW w \in Queues, Continue(w)
  PROVE  Moves(w) /\ workers'[w] = IdleWorker /\ workers'[w].pc = "pop" /\ workers'[w].m = NULL
<1>1. workers \in [Queues -> Workers]
  BY DEF TypeInv, EngineType
<1>2. IdleWorker \in Workers /\ IdleWorker.pc = "pop" /\ IdleWorker.m = NULL
  BY DEF Workers, IdleWorker
<1>3. workers' = [workers EXCEPT ![w] = IdleWorker]
  BY DEF Continue
<1> QED
  BY <1>1, <1>2, <1>3 DEF Moves

\* The messages a queue is left with when its worker has taken the first.
LEMMA TakenFirst ==
  ASSUME TypeInv, NEW w \in Queues, dpiQueues[w] # <<>>,
         dpiQueues' = [dpiQueues EXCEPT ![w] = Tail(dpiQueues[w])]
  PROVE  /\ dpiQueues' \in [Queues -> Seq(ConnMetadatas \cup {ExitMessage})]
         /\ \A v \in Queues \ {w} : dpiQueues'[v] = dpiQueues[v]
         /\ Len(dpiQueues[w]) \in Nat /\ Len(dpiQueues'[w]) = Len(dpiQueues[w]) - 1
         /\ Head(dpiQueues[w]) = dpiQueues[w][1] /\ 1 \in DOMAIN dpiQueues[w]
         /\ dpiQueues[w][1] \in ConnMetadatas \cup {ExitMessage}
         /\ \A i \in 1 .. Len(dpiQueues[w]) - 1 : dpiQueues'[w][i] = dpiQueues[w][i + 1]
<1> DEFINE S == ConnMetadatas \cup {ExitMessage}
           s == dpiQueues[w]
<1>1. dpiQueues \in [Queues -> Seq(S)] /\ s \in Seq(S) /\ dpiQueues'[w] = Tail(s)
  BY DEF TypeInv, EngineType
<1>2. \A v \in Queues \ {w} : dpiQueues'[v] = dpiQueues[v]
  BY <1>1
<1> HIDE DEF S, s
<1>3. Len(s) \in Nat /\ Len(s) > 0
  BY <1>1, EmptySeq, LenProperties DEF s
<1>4. Tail(s) \in Seq(S) /\ Len(Tail(s)) = Len(s) - 1
        /\ \A i \in 1 .. Len(s) - 1 : Tail(s)[i] = s[i + 1]
  BY <1>1, HeadTailProperties DEF s
<1>5. dpiQueues' \in [Queues -> Seq(S)]
  BY <1>1, <1>4 DEF s
<1>6. Head(s) = s[1] /\ 1 \in DOMAIN s /\ s[1] \in S
  BY <1>1, <1>3, LenProperties, ElementOfSeq
<1> QED
  BY <1>1, <1>2, <1>3, <1>4, <1>5, <1>6 DEF S, s

\* A worker takes the next message of its queue.
LEMMA DequeueType ==
  ASSUME TypeInv, NEW w \in Queues, WorkerStep(w), Dequeue(w) PROVE TypeInv' /\ EntriesKept
<1> USE DEF TypeInv
<1> USE WorkerFrame
<1> DEFINE m == Head(dpiQueues[w])
<1>1. /\ workers[w].pc = "pop" /\ dpiQueues[w] # <<>>
      /\ dpiQueues' = [dpiQueues EXCEPT ![w] = Tail(dpiQueues[w])]
      /\ UNCHANGED <<dpiengine_lock, dangled, info, jammed, numQueues, conns, updateDPQueue>>
      /\ m.exit_flag => workers' = [workers EXCEPT ![w].pc = "done"]
      /\ ~m.exit_flag => workers' = [workers EXCEPT ![w].pc = "examine", ![w].m = m]
  BY DEF Dequeue, tablevars
<1>2. EntriesKept
  BY <1>1, EntriesSame
<1>3. m = dpiQueues[w][1] /\ 1 \in DOMAIN dpiQueues[w] /\ m \in ConnMetadatas \cup {ExitMessage}
  BY <1>1, TakenFirst
<1>4. workers[w] \in Workers /\ workers[w].m = NULL
  BY <1>1 DEF EngineType, PointersOK, WorkersOK
<1> HIDE DEF m
<1>5. Moves(w) /\ WorkersOK' /\ QueuesCounted'
  <2>1. CASE m.exit_flag
    <3>1. /\ Moves(w) /\ workers'[w].pc = "done" /\ workers'[w].m = NULL
      BY <1>1, <1>4, <2>1, GotoMoves DEF Goto, OutOfService
    <3> QED
      BY <1>1, <1>2, <3>1, WorkerMoved DEF OutOfService, Working, InCallback
  <2>2. CASE ~m.exit_flag
    <3> DEFINE r == [workers[w] EXCEPT !.pc = "examine", !.m = m]
    <3>1. m \in ConnMetadatas /\ Allocated(m.info)
      BY <1>3, <2>2 DEF ExitMessage, PointersOK, QueuesOK
    <3>2. r \in Workers /\ r.m = m /\ r.pc = "examine"
      BY <1>4, <3>1 DEF Workers, Working
    <3>3. workers' = [workers EXCEPT ![w] = r]
      BY <1>1, <2>2 DEF EngineType
    <3> HIDE DEF r
    <3>4. Moves(w) /\ workers'[w] = r
      BY <3>2, <3>3 DEF Moves, EngineType
    <3>5. r.m # NULL /\ r.m.info \in Addrs /\ info'[r.m.info] # NULL
      BY <1>1, <3>1, <3>2, NullAssumption DEF Allocated
    <3> QED
      BY <1>1, <1>2, <3>2, <3>4, <3>5, WorkerMoved DEF OutOfService, Working, InCallback
  <2> QED
    BY <2>1, <2>2
<1>6. TableType' /\ EngineType'
  BY <1>1, <1>5, TakenFirst DEF TableType, EngineType, Moves
<1>7. QueuesOK'
  <2> SUFFICES ASSUME NEW v \in Queues, NEW i \in DOMAIN dpiQueues'[v]
               PROVE  dpiQueues'[v][i].exit_flag \/ Allocated(dpiQueues'[v][i].info)
    BY <1>1 DEF QueuesOK, Allocated
  <2>1. CASE v # w
    BY <1>1, <2>1, TakenFirst DEF PointersOK, QueuesOK
  <2>2. CASE v = w
    <3>4. dpiQueues'[w] \in Seq(ConnMetadatas \cup {ExitMessage}) /\ i \in DOMAIN dpiQueues'[w]
      BY <1>1, <2>2, TakenFirst
    <3>5. Len(dpiQueues[w]) \in Nat /\ Len(dpiQueues'[w]) = Len(dpiQueues[w]) - 1
      BY <1>1, TakenFirst
    <3>1. i \in 1 .. Len(dpiQueues[w]) - 1 /\ Len(dpiQueues[w]) \in Nat
      BY <3>4, <3>5, LenProperties
    <3>2. i + 1 \in DOMAIN dpiQueues[w]
      BY <3>1, LenProperties DEF EngineType
    <3>3. dpiQueues'[v][i] = dpiQueues[w][i + 1]
      BY <1>1, <2>2, <3>1, TakenFirst
    <3> QED
      BY <3>2, <3>3 DEF PointersOK, QueuesOK
  <2> QED
    BY <2>1, <2>2
<1>8. TableOK' /\ ConsumerOK'
  BY <1>2, PointersKept
<1>9. LockInv'
  BY DEF LockInv, LiveAddrs
<1> QED
  BY <1>2, <1>5, <1>6, <1>7, <1>8, <1>9 DEF PointersOK

\* A worker that only looks at its entry or at its queue.
LEMMA LocalStepType ==
  ASSUME TypeInv, NEW w \in Queues, WorkerStep(w),
         Examine(w) \/ Classify(w) \/ CallbackFind(w) \/ Throw(w) \/ CatchClear(w)
  PROVE  TypeInv' /\ EntriesKept
<1> USE DEF TypeInv
<1> USE WorkerFrame
<1>1. UNCHANGED <<info, dpiQueues, numQueues, conns, updateDPQueue>>
  BY DEF Examine, Classify, CallbackFind, Throw, CatchClear, enginevars, tablevars
<1>2. EntriesKept
  BY <1>1, EntriesSame
<1>3. dangled' \in BOOLEAN
  BY DEF Examine, Classify, CallbackFind, Throw, CatchClear, UseMessage, EngineType
<1>4. dpiengine_lock' \in Queues \cup {NULL} /\ jammed' \subseteq Queues
  BY DEF Examine, Classify, CallbackFind, Throw, CatchClear, EngineType, enginevars
<1>5. workers[w] \in Workers /\ workers \in [Queues -> Workers]
  BY DEF EngineType
<1>6. workers[w].m # NULL => workers[w].m.info \in Addrs /\ info'[workers[w].m.info] # NULL
  BY <1>1 DEF PointersOK, WorkersOK, Allocated
<1>7. Moves(w) /\ WorkersOK' /\ QueuesCounted'
  <2> USE DEF Working, InCallback, OutOfService
  <2>1. CASE Continue(w) /\ workers[w].pc \notin OutOfService
    BY <1>1, <1>2, <2>1, ContinueMoves, WorkerMoved
  <2>2. ASSUME NEW pc \in {"create", "classify"}, Goto(w, pc), workers[w].pc = "examine"
        PROVE  Moves(w) /\ WorkersOK' /\ QueuesCounted'
    <3>1. /\ Moves(w) /\ workers'[w].pc = pc /\ workers'[w].m = workers[w].m
      BY <2>2, GotoMoves
    <3>2. workers[w].m # NULL
      BY <2>2 DEF PointersOK, WorkersOK
    <3> QED
      BY <1>1, <1>2, <1>6, <2>2, <3>1, <3>2, WorkerMoved
  <2>3. CASE Examine(w)
    BY <2>1, <2>2, <2>3 DEF Examine
  <2>4. CASE Classify(w)
    <3>1. ASSUME NEW s \in NavlStates, NEW e \in BOOLEAN,
                 workers' = [workers EXCEPT ![w].pc = "callback", ![w].state = s, ![w].error = e]
          PROVE  Moves(w) /\ WorkersOK' /\ QueuesCounted'
      <4> DEFINE r == [workers[w] EXCEPT !.pc = "callback", !.state = s, !.error = e]
      <4>1. s \in ClassStates
        BY NavlAssumption DEF ClassStates
      <4>2. r \in Workers
        BY <1>5, <4>1 DEF Workers
      <4>3. r.pc = "callback" /\ r.m = workers[w].m /\ r.state = s
        BY <1>5 DEF Workers
      <4>4. workers' = [workers EXCEPT ![w] = r]
        BY <1>5, <3>1
      <4> HIDE DEF r
      <4>5. Moves(w) /\ workers'[w] = r
        BY <1>5, <4>2, <4>4 DEF Moves
      <4>6. workers[w].m # NULL /\ workers[w].pc = "classify"
        BY <2>4 DEF PointersOK, WorkersOK, Classify
      <4> QED
        BY <1>1, <1>2, <1>6, <4>3, <4>5, <4>6, <4>1, WorkerMoved
    <3> QED
      BY <2>1, <2>4, <3>1 DEF Classify
  <2>5. CASE CallbackFind(w)
    <3> DEFINE a == FindInfo(workers[w].m.info)
    <3>1. CASE Continue(w)
      BY <2>1, <2>5, <3>1 DEF CallbackFind
    <3>2. CASE ~Continue(w)
      <4>1. workers[w].pc = "callback" /\ workers[w].m # NULL /\ Allocated(workers[w].m.info)
              /\ workers[w].state \in ClassStates
        BY <2>5 DEF CallbackFind, PointersOK, WorkersOK
      <4>2. info[workers[w].m.info].key \in Flows
        BY <4>1 DEF Allocated, TableType, ConnInfos
      <4>3. Allocated(a) /\ info[a] \in ConnInfos
        BY <2>5, <3>2, <4>2 DEF CallbackFind, FindInfo, PointersOK, TableOK, Allocated, TableType
      <4>4. info[a].gen \in Nat /\ a \in Addrs
        BY <4>3 DEF ConnInfos, Allocated
      <4> DEFINE r == [workers[w] EXCEPT !.pc = "update", !.found = a, !.gen = info[a].gen]
      <4>5. workers' = [workers EXCEPT ![w].pc = "update", ![w].found = a, ![w].gen = info[a].gen]
        BY <2>5, <3>2 DEF CallbackFind
      <4> HIDE DEF a
      <4>6. r \in Workers
        BY <1>5, <4>4 DEF Workers
      <4>7. r.pc = "update" /\ r.m = workers[w].m /\ r.state = workers[w].state /\ r.found = a
        BY <1>5 DEF Workers
      <4>8. workers' = [workers EXCEPT ![w] = r]
        BY <1>5, <4>5
      <4> HIDE DEF r
      <4>9. Moves(w) /\ workers'[w] = r
        BY <1>5, <4>6, <4>8 DEF Moves
      <4> QED
        BY <1>1, <1>2, <1>6, <4>1, <4>3, <4>7, <4>9, WorkerMoved DEF Allocated
    <3> QED
      BY <3>1, <3>2
  <2>6. CASE Throw(w)
    <3>1. Moves(w) /\ workers'[w].pc = "catch" /\ workers'[w].m = workers[w].m
      BY <2>6, GotoMoves DEF Throw
    <3>2. workers[w].pc \notin OutOfService
      BY <2>6 DEF Throw
    <3> QED
      BY <1>1, <1>2, <1>6, <3>1, <3>2, WorkerMoved
  <2>7. CASE CatchClear(w)
    <3>1. PICK pc \in {"done", "stuck"} : Goto(w, pc)
      BY <2>7 DEF CatchClear
    <3>2. Moves(w) /\ workers'[w].pc \in {"done", "stuck"} /\ workers'[w].m = workers[w].m
      BY <3>1, GotoMoves
    <3> QED
      BY <1>1, <1>2, <1>6, <3>2, WorkerMoved
  <2> QED
    BY <2>3, <2>4, <2>5, <2>6, <2>7
<1>8. TableType' /\ EngineType'
  BY <1>1, <1>3, <1>4, <1>7 DEF TableType, EngineType, Moves
<1>9. TableOK' /\ ConsumerOK' /\ QueuesOK'
  BY <1>1, <1>2, PointersKept
<1>10. LockInv'
  BY DEF LockInv, LiveAddrs
<1> QED
  BY <1>2, <1>7, <1>8, <1>9, <1>10 DEF PointersOK

\* A worker that writes to the entry its message points to, or to the one it found.
LEMMA WriteStepType ==
  ASSUME TypeInv, NEW w \in Queues, WorkerStep(w), CreateConn(w) \/ CallbackUpdate(w)
  PROVE  TypeInv' /\ EntriesKept
<1> USE DEF TypeInv
<1> USE WorkerFrame
<1>1. UNCHANGED <<dpiQueues, numQueues, jammed, updateDPQueue>>
  BY DEF CreateConn, CallbackUpdate, enginevars
<1>2. dangled' \in BOOLEAN /\ dpiengine_lock' \in Queues \cup {NULL}
  BY DEF CreateConn, CallbackUpdate, UseMessage, UseFound, EngineType
<1>3. workers[w] \in Workers /\ workers \in [Queues -> Workers]
  BY DEF EngineType
<1>4. /\ info' \in [Addrs -> ConnInfos \cup {NULL}] /\ EntriesKept
      /\ conns' \in Seq([handle : Queues, destroys : 0 .. MaxDestroys])
  <2>1. CASE CreateConn(w)
    <3> DEFINE a == workers[w].m.info
               i == [info[a] EXCEPT !.dpi_state = NewConn]
    <3>1. a \in Addrs /\ info[a] \in ConnInfos
      BY <2>1 DEF CreateConn, PointersOK, WorkersOK, Working, Allocated, TableType
    <3>2. NewConn \in Nat /\ [handle |-> w, destroys |-> 0] \in [handle : Queues, destroys : 0 .. MaxDestroys]
      BY LenProperties DEF NewConn, EngineType, MaxDestroys
    <3>3. CASE UNCHANGED <<conns, info>>
      BY <3>3, EntriesSame DEF TableType, EngineType
    <3>4. CASE navl_conn_create(w) /\ info' = [info EXCEPT ![a].dpi_state = NewConn]
      <4>1. conns' \in Seq([handle : Queues, destroys : 0 .. MaxDestroys])
        BY <3>2, <3>4, AppendProperties DEF navl_conn_create, EngineType
      <4>2. /\ i \in ConnInfos /\ i.key = info[a].key /\ i.gen = info[a].gen
            /\ i.queue = info[a].queue /\ i.packetnum = info[a].packetnum
        BY <3>1, <3>2 DEF ConnInfos
      <4>3. info' = [info EXCEPT ![a] = i]
        BY <3>1, <3>4 DEF TableType
      <4> HIDE DEF i, a
      <4>4. info' \in [Addrs -> ConnInfos \cup {NULL}]
        BY <3>1, <4>2, <4>3 DEF TableType
      <4>5. EntriesKept
        BY <3>1, <4>2, <4>3, NullAssumption DEF EntriesKept, TableType, ConnInfos
      <4> QED
        BY <4>1, <4>4, <4>5
    <3> QED
      BY <2>1, <3>3, <3>4 DEF CreateConn
  <2>2. CASE CallbackUpdate(w)
    <3> DEFINE a == workers[w].found
               n == IF info[a].class_state = INSPECTING THEN 0 ELSE info[a].pkt_ref_cnt - 1
               e == workers[w].error
               s == workers[w].state
               i == [info[a] EXCEPT !.pkt_ref_cnt = n, !.error = e, !.class_state = s]
    <3>1. a \in Addrs /\ info[a] \in ConnInfos /\ s \in ClassStates
      BY <2>2 DEF CallbackUpdate, PointersOK, WorkersOK, Working, InCallback, Allocated, TableType
    <3>2. n \in Int
      BY <3>1 DEF ConnInfos
    <3>3. e \in BOOLEAN
      BY <1>3 DEF Workers
    <3>4. info' = [info EXCEPT ![a] = i] /\ UNCHANGED conns
      BY <2>2 DEF CallbackUpdate, UpdateInfo
    <3> HIDE DEF a, n, e, s
    <3>5. i \in ConnInfos
      BY <3>1, <3>2, <3>3 DEF ConnInfos, ClassStates
    <3>6. /\ i.key = info[a].key /\ i.gen = info[a].gen
          /\ i.queue = info[a].queue /\ i.packetnum = info[a].packetnum
      BY <3>1 DEF ConnInfos
    <3> HIDE DEF i
    <3>7. info' \in [Addrs -> ConnInfos \cup {NULL}]
      BY <3>1, <3>5, <3>4 DEF TableType
    <3>8. EntriesKept
      BY <3>1, <3>4, <3>5, <3>6, NullAssumption DEF EntriesKept, TableType, ConnInfos
    <3> QED
      BY <3>4, <3>7, <3>8 DEF EngineType
  <2> QED
    BY <2>1, <2>2
<1>5. Moves(w) /\ WorkersOK' /\ QueuesCounted'
  <2> USE DEF Working, InCallback, OutOfService
  <2>1. workers[w].pc \in {"create", "update"}
    BY DEF CreateConn, CallbackUpdate
  <2>2. CASE Continue(w)
    BY <1>1, <1>4, <2>1, <2>2, ContinueMoves, WorkerMoved
  <2>3. CASE workers[w].pc = "update" /\ Goto(w, "destroy")
    <3>1. /\ Moves(w) /\ workers'[w].pc = "destroy" /\ workers'[w].m = workers[w].m
          /\ workers'[w].state = workers[w].state /\ workers'[w].found = workers[w].found
      BY <2>3, GotoMoves
    <3>2. /\ workers[w].m # NULL /\ workers[w].state \in ClassStates
          /\ Allocated(workers[w].m.info) /\ Allocated(workers[w].found)
      BY <2>3 DEF PointersOK, WorkersOK
    <3> QED
      BY <1>1, <1>4, <2>3, <3>1, <3>2, WorkerMoved DEF Allocated, EntriesKept
  <2> QED
    BY <2>1, <2>2, <2>3 DEF CreateConn, CallbackUpdate
<1>6. TableType' /\ EngineType'
  BY <1>1, <1>2, <1>4, <1>5 DEF TableType, EngineType, Moves
<1>7. TableOK' /\ ConsumerOK' /\ QueuesOK'
  BY <1>1, <1>4, PointersKept
<1>8. LockInv'
  BY DEF LockInv, LiveAddrs
<1> QED
  BY <1>4, <1>5, <1>6, <1>7, <1>8 DEF PointersOK

\* A worker that destroys a connection, reports it, or goes out of service.
LEMMA FinishStepType ==
  ASSUME TypeInv, NEW w \in Queues, WorkerStep(w),
         CallbackDestroy(w) \/ CallbackReport(w) \/ CatchDecrement(w)
  PROVE  TypeInv' /\ EntriesKept
<1> USE DEF TypeInv
<1> USE WorkerFrame
<1>1. UNCHANGED <<info, dpiQueues, jammed>>
  BY DEF CallbackDestroy, CallbackReport, CatchDecrement, enginevars, tablevars
<1>2. dangled' \in BOOLEAN /\ dpiengine_lock' \in Queues \cup {NULL}
  BY DEF CallbackDestroy, CallbackReport, CatchDecrement, UseFound, EngineType
<1>3. EntriesKept
  BY <1>1, EntriesSame
<1>4. /\ workers[w].m # NULL => workers[w].m.info \in Addrs /\ info'[workers[w].m.info] # NULL
      /\ workers[w].pc \in InCallback =>
           /\ workers[w].found \in Addrs /\ info'[workers[w].found] # NULL
           /\ workers[w].m # NULL /\ workers[w].state \in ClassStates
  BY <1>1 DEF PointersOK, WorkersOK, Allocated, Working
<1>5. /\ conns' \in Seq([handle : Queues, destroys : 0 .. MaxDestroys])
      /\ updateDPQueue' \in Seq(DPIFlowDatas \cup {ExitMessage})
      /\ Moves(w) /\ WorkersOK' /\ QueuesCounted'
  <2> USE DEF InCallback, OutOfService
  <2>1. CASE CallbackDestroy(w)
    <3>1. conns' \in Seq([handle : Queues, destroys : 0 .. MaxDestroys])
      BY <2>1, DestroyConns DEF CallbackDestroy
    <3>2. /\ Moves(w) /\ workers'[w].pc = "report" /\ workers'[w].m = workers[w].m
          /\ workers'[w].state = workers[w].state /\ workers'[w].found = workers[w].found
      BY <2>1, GotoMoves DEF CallbackDestroy, Working
    <3>3. workers[w].pc = "destroy" /\ UNCHANGED <<numQueues, updateDPQueue>>
      BY <2>1 DEF CallbackDestroy, enginevars
    <3> QED
      BY <1>3, <1>4, <3>1, <3>2, <3>3, WorkerMoved DEF EngineType
  <2>2. CASE CallbackReport(w)
    <3>1. workers[w].pc = "report" /\ UNCHANGED <<numQueues, conns>> /\ Continue(w)
            /\ updateDPQueue' = Append(updateDPQueue, DPIFlowData(workers[w].found))
      BY <2>2 DEF CallbackReport, enginevars
    <3>2. info[workers[w].found] \in ConnInfos
      BY <1>1, <1>4, <3>1 DEF TableType
    <3>3. DPIFlowData(workers[w].found) \in DPIFlowDatas
      BY <3>2 DEF ConnInfos, DPIFlowData, DPIFlowDatas
    <3>4. updateDPQueue' \in Seq(DPIFlowDatas \cup {ExitMessage})
      BY <3>1, <3>3, AppendProperties DEF EngineType
    <3>5. Moves(w) /\ WorkersOK' /\ QueuesCounted'
      BY <1>3, <3>1, ContinueMoves, WorkerMoved DEF Working
    <3> QED
      BY <3>1, <3>4, <3>5 DEF EngineType
  <2>3. CASE CatchDecrement(w)
    <3>1. workers[w].pc = "catch" /\ numQueues' = numQueues - 1 /\ UNCHANGED <<conns, updateDPQueue>>
      BY <2>3 DEF CatchDecrement
    <3>2. Moves(w) /\ workers'[w].pc = "clear" /\ workers'[w].m = workers[w].m
      BY <2>3, GotoMoves DEF CatchDecrement
    <3>3. WorkersOK'
      BY <1>3, <1>4, <3>2, WorkerMoved DEF Working
    <3>4. Retired' = Retired \cup {w} /\ w \notin Retired
      BY <3>1, <3>2 DEF Retired, Moves
    <3>5. IsFiniteSet(Retired) /\ Cardinality(Retired) \in Nat
      BY QueuesLeft
    <3>6. Cardinality(Retired') = Cardinality(Retired) + 1
      BY <3>4, <3>5, FS_AddElement
    <3>7. QueuesCounted'
      BY <3>1, <3>5, <3>6, QueuesAssumption DEF QueuesCounted
    <3> QED
      BY <3>1, <3>2, <3>3, <3>7 DEF EngineType
  <2> QED
    BY <2>1, <2>2, <2>3
<1>6. TableType' /\ EngineType'
  BY <1>1, <1>2, <1>5 DEF TableType, EngineType, Moves
<1>7. TableOK' /\ ConsumerOK' /\ QueuesOK'
  BY <1>1, <1>3, PointersKept
<1>8. LockInv'
  BY DEF LockInv, LiveAddrs
<1> QED
  BY <1>3, <1>5, <1>6, <1>7, <1>8 DEF PointersOK

\* Every step keeps the types; every step but the insertion of an entry keeps the
\* entries.
LEMMA TypeNext ==
  ASSUME TypeInv, [Next]_vars PROVE TypeInv' /\ (~InsertNew => EntriesKept)
<1>1. CASE UNCHANGED vars
  <2> USE DEF vars, tablevars, enginevars, consumervars, cleanupvars, stopvars, workervars, dpvars
  <2>1. TableType' /\ EngineType' /\ QueuesCounted'
    BY <1>1 DEF TypeInv, TableType, EngineType, QueuesCounted, Retired
  <2>2. PointersOK'
    BY <1>1, EntriesSame, PointersKept DEF PointersOK
  <2>3. LockInv'
    BY <1>1 DEF TypeInv, LockInv, LiveAddrs
  <2> QED
    BY <1>1, <2>1, <2>2, <2>3, EntriesSame DEF TypeInv
<1>2. CASE ConsumerStep
  BY <1>2, InsertNewType, InsertFoundType, InsertCountType, InsertPushType
     DEF ConsumerStep, InsertOrUpdateFlows
<1>3. ASSUME NEW w \in Queues, WorkerStep(w) PROVE TypeInv' /\ EntriesKept
  BY <1>3, DequeueType, LocalStepType, WriteStepType, FinishStepType DEF WorkerStep, Worker
<1> QED
  BY <1>1, <1>2, <1>3, InsertBeginType, CleanerType, SilenceType, StopBeginType, JoinThreadsType,
     DataPathType, StopperType DEF Next, Terminated

\* The parts of the pipeline keep their types, and every pointer that is followed
\* points to an entry that was allocated once.
THEOREM PipelineTypes == Spec => []TypeInv
<1>1. Init => TypeInv
  BY TypeInit
<1>2. TypeInv /\ [Next]_vars => TypeInv'
  BY TypeNext
<1> QED
  BY <1>1, <1>2, PTL DEF Spec

--------------------------------------------------------------------------------
(* Which packets of an entry are on their way, and in which order. *)

\* The messages queue q's worker holds: the one it works on, then those queued.
Slot(ws, qs, q, i) == IF i = 0 THEN ws[q].m ELSE qs[q][i]

\* The places of the messages among them.
Held(ws, qs, q) == {i \in 0 .. Len(qs[q]) : Slot(ws, qs, q, i) \in ConnMetadatas}

\* Generations tell entries apart, and a packet being looked up has a new one.
GenInv ==
  /\ \A a \in Addrs : info[a] # NULL =>
       info[a].gen <= pkts /\ (consumer.pc = "lookup" => info[a].gen < pkts)
  /\ \A a, b \in Addrs :
       info[a] # NULL /\ info[b] # NULL /\ info[a].gen = info[b].gen => a = b

\* A message whose entry has not been replaced is in the queue of the entry, and
\* was counted before the packet that is being inserted now.
HeldInv ==
  \A q \in Queues : \A i \in Held(workers, dpiQueues, q) :
    LET m == Slot(workers, dpiQueues, q, i)
    IN  /\ m.gen <= pkts /\ (consumer.pc = "lookup" => m.gen < pkts)
        /\ \A a \in Addrs : info[a] # NULL /\ info[a].gen = m.gen =>
             m.info = a /\ info[a].queue = q /\ m.pktnum <= info[a].packetnum
        /\ consumer.pc \in {"count", "push"} /\ consumer.msg.gen = m.gen =>
             m.pktnum < consumer.msg.pktnum

\* The packet that is being inserted is the last one its entry has counted.
LastCounted ==
  consumer.pc \in {"count", "push"} => info[consumer.msg.info].packetnum = consumer.msg.pktnum

\* The messages of one entry are all held by one worker, in the order of their packets.
HeldOrder ==
  \A q1, q2 \in Queues :
    \A i \in Held(workers, dpiQueues, q1), j \in Held(workers, dpiQueues, q2) :
      Slot(workers, dpiQueues, q1, i).gen = Slot(workers, dpiQueues, q2, j).gen =>
        /\ q1 = q2
        /\ i < j => Slot(workers, dpiQueues, q1, i).pktnum < Slot(workers, dpiQueues, q2, j).pktnum

\* The inductive invariant about generations, queues and packet order.
OrderInv == GenInv /\ InsertedEntryLive /\ LastCounted /\ HeldInv /\ HeldOrder

\* No message is added to what the workers hold; they may take the first of their
\* queue, and drop the one they worked on.
NoneAdded ==
  \A q \in Queues : \E d \in {0, 1} : \A i \in Held(workers', dpiQueues', q) :
    /\ i + d \in Held(workers, dpiQueues, q)
    /\ Slot(workers', dpiQueues', q, i) = Slot(workers, dpiQueues, q, i + d)

\* What a step of another thread than the consumer does.
OtherStep ==
  /\ NoneAdded /\ EntriesKept /\ UNCHANGED pkts
  /\ consumer' = consumer \/ consumer'.pc \notin {"lookup", "count", "push"}
  /\ consumer.pc \in {"count", "push"} => UNCHANGED <<consumer, conn_table>>

\* Initially no entry and no message exists.
LEMMA OrderInit == Init => OrderInv
<1> SUFFICES ASSUME Init PROVE OrderInv
  OBVIOUS
<1>1. \A q \in Queues : Held(workers, dpiQueues, q) = {}
  <2> SUFFICES ASSUME NEW q \in Queues, NEW i \in Held(workers, dpiQueues, q) PROVE FALSE
    OBVIOUS
  <2>1. i = 0 /\ Slot(workers, dpiQueues, q, i) = NULL
    BY DEF Held, Slot, Init, DPIEngineInit, FlowTableInit, IdleWorker
  <2> QED
    BY <2>1, NullAssumption DEF Held
<1>2. HeldInv /\ HeldOrder
  BY <1>1 DEF HeldInv, HeldOrder
<1>3. GenInv /\ InsertedEntryLive /\ LastCounted
  BY DEF GenInv, InsertedEntryLive, LastCounted, Init, FlowTableInit, IdleConsumer
<1> QED
  BY <1>2, <1>3 DEF OrderInv

\* The messages held are messages of packets.
LEMMA HeldType ==
  ASSUME TypeInv, NEW q \in Queues, NEW i \in Held(workers, dpiQueues, q)
  PROVE  /\ i \in Nat /\ Slot(workers, dpiQueues, q, i) \in ConnMetadatas
         /\ Slot(workers, dpiQueues, q, i).gen \in Nat
         /\ Slot(workers, dpiQueues, q, i).pktnum \in Nat
         /\ Slot(workers, dpiQueues, q, i).info \in Addrs
<1>1. Len(dpiQueues[q]) \in Nat
  BY LenProperties DEF TypeInv, EngineType
<1>2. i \in 0 .. Len(dpiQueues[q]) /\ Slot(workers, dpiQueues, q, i) \in ConnMetadatas
  BY DEF Held
<1>3. i \in Nat
  BY <1>1, <1>2
<1> QED
  BY <1>2, <1>3 DEF ConnMetadatas

\* A step that leaves the queues alone, and gives no worker a message, adds none.
LEMMA NoneAddedSame ==
  ASSUME TypeInv,
         \A q \in Queues : workers'[q].m = NULL \/ workers'[q].m = workers[q].m,
         UNCHANGED dpiQueues
  PROVE  NoneAdded
<1> SUFFICES ASSUME NEW q \in Queues
             PROVE  \E d \in {0, 1} : \A i \in Held(workers', dpiQueues', q) :
                      /\ i + d \in Held(workers, dpiQueues, q)
                      /\ Slot(workers', dpiQueues', q, i) = Slot(workers, dpiQueues, q, i + d)
  BY DEF NoneAdded
<1>1. ASSUME NEW i \in Held(workers', dpiQueues', q)
      PROVE  /\ i + 0 \in Held(workers, dpiQueues, q)
             /\ Slot(workers', dpiQueues', q, i) = Slot(workers, dpiQueues, q, i + 0)
  <2>1. i \in 0 .. Len(dpiQueues[q]) /\ Slot(workers', dpiQueues', q, i) \in ConnMetadatas
    BY DEF Held
  <2>2. i + 0 = i
    BY <2>1
  <2>3. Slot(workers', dpiQueues', q, i) = Slot(workers, dpiQueues, q, i)
    BY <2>1, NullAssumption DEF Slot
  <2> QED
    BY <2>1, <2>2, <2>3 DEF Held
<1> QED
  BY <1>1

\* Dequeue() moves the first queued message to the worker and adds none.
LEMMA DequeueTakes ==
  ASSUME TypeInv, NEW w \in Queues, WorkerStep(w), Dequeue(w) PROVE NoneAdded
<1> DEFINE m == Head(dpiQueues[w])
<1>1. /\ workers[w].pc = "pop" /\ dpiQueues[w] # <<>>
      /\ dpiQueues' = [dpiQueues EXCEPT ![w] = Tail(dpiQueues[w])]
      /\ m.exit_flag => workers' = [workers EXCEPT ![w].pc = "done"]
      /\ ~m.exit_flag => workers' = [workers EXCEPT ![w].pc = "examine", ![w].m = m]
  BY DEF Dequeue
<1>2. workers \in [Queues -> Workers] /\ workers[w].m = NULL
  BY <1>1 DEF TypeInv, EngineType, PointersOK, WorkersOK
<1>3. /\ m = dpiQueues[w][1] /\ Len(dpiQueues[w]) \in Nat
      /\ Len(dpiQueues'[w]) = Len(dpiQueues[w]) - 1 /\ 1 \in DOMAIN dpiQueues[w]
      /\ \A i \in 1 .. Len(dpiQueues[w]) - 1 : dpiQueues'[w][i] = dpiQueues[w][i + 1]
      /\ \A v \in Queues \ {w} : dpiQueues'[v] = dpiQueues[v]
  BY <1>1, TakenFirst
<1> HIDE DEF m
<1>4. /\ workers'[w].m = NULL \/ workers'[w].m = m
      /\ \A v \in Queues \ {w} : workers'[v].m = workers[v].m
  BY <1>1, <1>2 DEF Workers
<1> SUFFICES ASSUME NEW q \in Queues
             PROVE  \E d \in {0, 1} : \A i \in Held(workers', dpiQueues', q) :
                      /\ i + d \in Held(workers, dpiQueues, q)
                      /\ Slot(workers', dpiQueues', q, i) = Slot(workers, dpiQueues, q, i + d)
  BY DEF NoneAdded
<1>5. CASE q # w
  <2>1. ASSUME NEW i \in Held(workers', dpiQueues', q)
        PROVE  /\ i + 0 \in Held(workers, dpiQueues, q)
               /\ Slot(workers', dpiQueues', q, i) = Slot(workers, dpiQueues, q, i + 0)
    <3>1. i \in 0 .. Len(dpiQueues[q]) /\ Slot(workers', dpiQueues', q, i) \in ConnMetadatas
      BY <1>3, <1>5 DEF Held
    <3>2. i + 0 = i
      BY <3>1
    <3>3. Slot(workers', dpiQueues', q, i) = Slot(workers, dpiQueues, q, i)
      BY <1>3, <1>4, <1>5, <3>1 DEF Slot
    <3> QED
      BY <3>1, <3>2, <3>3 DEF Held
  <2> QED
    BY <2>1
<1>6. CASE q = w
  <2>1. ASSUME NEW i \in Held(workers', dpiQueues', q)
        PROVE  /\ i + 1 \in Held(workers, dpiQueues, q)
               /\ Slot(workers', dpiQueues', q, i) = Slot(workers, dpiQueues, q, i + 1)
    <3>1. i \in 0 .. Len(dpiQueues[w]) - 1 /\ Slot(workers', dpiQueues', q, i) \in ConnMetadatas
      BY <1>3, <1>6 DEF Held
    <3>2. i + 1 \in 0 .. Len(dpiQueues[w]) /\ i + 1 # 0
      BY <1>3, <3>1
    <3>3. Slot(workers', dpiQueues', q, i) = Slot(workers, dpiQueues, q, i + 1)
      <4>1. CASE i = 0
        BY <1>3, <1>4, <1>6, <3>1, <4>1, NullAssumption DEF Slot
      <4>2. CASE i # 0
        BY <1>3, <1>6, <3>1, <3>2, <4>2 DEF Slot
      <4> QED
        BY <4>1, <4>2
    <3> QED
      BY <1>6, <3>1, <3>2, <3>3 DEF Held
  <2> QED
    BY <2>1
<1> QED
  BY <1>5, <1>6

\* An exit message is no packet's message.
LEMMA SendExitAdds ==
  ASSUME TypeInv, TableStop, SendExit PROVE NoneAdded
<1>1. exits \in Queues
  <2>1. exits < numQueues /\ exits \in Nat
    BY DEF SendExit, TypeInv, TableType
  <2> QED
    BY <2>1, QueuesLeft, QueuesAssumption DEF Queues
<1>2. /\ dpiQueues' = [dpiQueues EXCEPT ![exits] = Append(dpiQueues[exits], ExitMessage)]
      /\ UNCHANGED workers
  BY StopperFrame DEF SendExit
<1>3. dpiQueues \in [Queues -> Seq(ConnMetadatas \cup {ExitMessage})]
  BY DEF TypeInv, EngineType
<1> SUFFICES ASSUME NEW q \in Queues, NEW i \in Held(workers', dpiQueues', q)
             PROVE  /\ i + 0 \in Held(workers, dpiQueues, q)
                    /\ Slot(workers', dpiQueues', q, i) = Slot(workers, dpiQueues, q, i + 0)
  BY DEF NoneAdded
<1>4. dpiQueues[q] \in Seq(ConnMetadatas \cup {ExitMessage}) /\ Len(dpiQueues[q]) \in Nat
  BY <1>3, LenProperties
<1>5. i \in 0 .. Len(dpiQueues'[q]) /\ Slot(workers', dpiQueues', q, i) \in ConnMetadatas
  BY DEF Held
<1>6. i \in 0 .. Len(dpiQueues[q]) /\ (i # 0 => dpiQueues'[q][i] = dpiQueues[q][i])
  <2>1. CASE q # exits
    BY <1>1, <1>2, <1>3, <1>5, <2>1
  <2>2. CASE q = exits
    <3>1. dpiQueues'[q] = Append(dpiQueues[q], ExitMessage)
      BY <1>1, <1>2, <1>3, <2>2
    <3>2. /\ Len(dpiQueues'[q]) = Len(dpiQueues[q]) + 1
          /\ \A j \in 1 .. Len(dpiQueues[q]) : dpiQueues'[q][j] = dpiQueues[q][j]
          /\ dpiQueues'[q][Len(dpiQueues[q]) + 1] = ExitMessage
      BY <1>4, <3>1, AppendedExit
    <3>3. i # Len(dpiQueues[q]) + 1
      <4> SUFFICES ASSUME i = Len(dpiQueues[q]) + 1 PROVE FALSE
        OBVIOUS
      <4>1. i # 0
        BY <1>4
      <4>2. ExitMessage \in ConnMetadatas
        BY <1>5, <3>2, <4>1 DEF Slot
      <4> QED
        BY <4>2 DEF ConnMetadatas, ExitMessage
    <3> QED
      BY <1>4, <1>5, <3>2, <3>3
  <2> QED
    BY <2>1, <2>2
<1>7. i + 0 = i
  BY <1>6, <1>4
<1>8. Slot(workers', dpiQueues', q, i) = Slot(workers, dpiQueues, q, i)
  BY <1>2, <1>6 DEF Slot
<1> QED
  BY <1>5, <1>6, <1>7, <1>8 DEF Held

\* No step of a worker adds a message.
LEMMA WorkerTakes ==
  ASSUME TypeInv, NEW w \in Queues, WorkerStep(w) PROVE OtherStep
<1>1. EntriesKept
  BY DequeueType, LocalStepType, WriteStepType, FinishStepType DEF WorkerStep, Worker
<1>2. NoneAdded
  <2>1. CASE Dequeue(w)
    BY <2>1, DequeueTakes
  <2>2. CASE ~Dequeue(w)
    <3>1. UNCHANGED dpiQueues
      BY <2>2 DEF WorkerStep, Worker, Examine, CreateConn, Classify, CallbackFind, CallbackUpdate,
                  CallbackDestroy, CallbackReport, Throw, CatchDecrement, CatchClear, enginevars
    <3>2. workers \in [Queues -> Workers] /\ workers[w] \in Workers
      BY DEF TypeInv, EngineType
    <3>3. ASSUME NEW pc, Goto(w, pc)
          PROVE  \A q \in Queues : workers'[q].m = workers[q].m
      BY <3>2, <3>3 DEF Goto, Workers
    <3>4. ASSUME Continue(w)
          PROVE  \A q \in Queues : workers'[q].m = NULL \/ workers'[q].m = workers[q].m
      BY <3>2, <3>4 DEF Continue, IdleWorker
    <3>5. ASSUME Classify(w)
          PROVE  \A q \in Queues : workers'[q].m = NULL \/ workers'[q].m = workers[q].m
      <4>1. ASSUME NEW s, NEW e,
                   workers' = [workers EXCEPT ![w].pc = "callback", ![w].state = s, ![w].error = e]
            PROVE  \A q \in Queues : workers'[q].m = workers[q].m
        BY <3>2, <4>1 DEF Workers
      <4> QED
        BY <3>4, <3>5, <4>1 DEF Classify
    <3>6. ASSUME CallbackFind(w)
          PROVE  \A q \in Queues : workers'[q].m = NULL \/ workers'[q].m = workers[q].m
      <4>1. ASSUME NEW a, NEW g,
                   workers' = [workers EXCEPT ![w].pc = "update", ![w].found = a, ![w].gen = g]
            PROVE  \A q \in Queues : workers'[q].m = workers[q].m
        BY <3>2, <4>1 DEF Workers
      <4> QED
        BY <3>4, <3>6, <4>1 DEF CallbackFind
    <3>7. \A q \in Queues : workers'[q].m = NULL \/ workers'[q].m = workers[q].m
      BY <2>2, <3>3, <3>4, <3>5, <3>6
         DEF WorkerStep, Worker, Examine, CreateConn, CallbackUpdate, CallbackDestroy, CallbackReport,
             Throw, CatchDecrement, CatchClear
    <3> QED
      BY <3>1, <3>7, NoneAddedSame
  <2> QED
    BY <2>1, <2>2
<1> QED
  BY <1>1, <1>2, WorkerFrame DEF OtherStep

\* Every thread but the consumer, at every step.
LEMMA OtherSteps ==
  ASSUME TypeInv, [Next]_vars, ~NextPacket, ~ConsumerStep PROVE OtherStep
<1>1. CASE \E w \in Queues : WorkerStep(w)
  BY <1>1, WorkerTakes
<1>2. CASE CleanerStep
  <2>1. NoneAdded
    BY <1>2, CleanerFrame, NoneAddedSame
  <2>2. consumer.pc \in {"count", "push"} => ftbl_mutex = "consumer"
    BY DEF TypeInv, LockInv
  <2> QED
    BY <1>2, <2>1, <2>2, CleanerFrame, CleanerType DEF OtherStep
<1>3. CASE TableStop
  <2>1. NoneAdded
    <3>1. CASE SendExit
      BY <1>3, <3>1, SendExitAdds
    <3>2. CASE ~SendExit
      <4>1. UNCHANGED dpiQueues
        BY <1>3, <3>2 DEF TableStop, FlowTableStop, FinalLock, FinalDestroy, FinalErase, FinalUnlock,
                          SendExitsDone
      <4> QED
        BY <1>3, <4>1, StopperFrame, NoneAddedSame
    <3> QED
      BY <3>1, <3>2
  <2>2. stopper # "idle"
    BY <1>3 DEF TableStop, FlowTableStop, FinalLock, FinalDestroy, FinalErase, FinalUnlock,
                SendExit, SendExitsDone
  <2>3. consumer.pc = "done"
    BY <2>2 DEF TypeInv, LockInv
  <2> QED
    BY <1>3, <2>1, <2>3, StopperFrame, StopperType DEF OtherStep
<1>4. CASE StopBegin
  <2>1. UNCHANGED <<workers, dpiQueues, pkts>> /\ consumer.pc = "idle"
          /\ consumer' = [consumer EXCEPT !.pc = "done"]
    BY <1>4 DEF StopBegin, enginevars, workervars
  <2>2. consumer'.pc = "done"
    BY <2>1 DEF TypeInv, TableType, Consumers
  <2> QED
    BY <1>4, <2>1, <2>2, NoneAddedSame, StopBeginType DEF OtherStep
<1>5. CASE Silence \/ DataPathStep \/ JoinThreads \/ UNCHANGED vars
  <2>1. UNCHANGED <<workers, dpiQueues, pkts, consumer, conn_table>>
    BY <1>5 DEF Silence, Age, DataPathStep, JoinThreads, vars, tablevars, enginevars, workervars, consumervars
  <2>2. EntriesKept
    BY <1>5, SilenceType, DataPathType, JoinThreadsType, EntriesSame DEF vars, tablevars
  <2> QED
    BY <2>1, <2>2, NoneAddedSame DEF OtherStep
<1> QED
  BY <1>1, <1>2, <1>3, <1>4, <1>5 DEF Next, Terminated

\* What is held stays in order if nothing is added.
LEMMA OrderKept ==
  ASSUME TypeInv, HeldOrder, NoneAdded PROVE HeldOrder'
<1> SUFFICES ASSUME NEW q1 \in Queues, NEW q2 \in Queues,
                    NEW i \in Held(workers', dpiQueues', q1), NEW j \in Held(workers', dpiQueues', q2),
                    Slot(workers', dpiQueues', q1, i).gen = Slot(workers', dpiQueues', q2, j).gen
             PROVE  /\ q1 = q2
                    /\ i < j => Slot(workers', dpiQueues', q1, i).pktnum
                                  < Slot(workers', dpiQueues', q2, j).pktnum
  BY DEF HeldOrder
<1>1. PICK c \in {0, 1} : \A k \in Held(workers', dpiQueues', q1) :
        /\ k + c \in Held(workers, dpiQueues, q1)
        /\ Slot(workers', dpiQueues', q1, k) = Slot(workers, dpiQueues, q1, k + c)
  BY DEF NoneAdded
<1>2. PICK d \in {0, 1} : \A k \in Held(workers', dpiQueues', q2) :
        /\ k + d \in Held(workers, dpiQueues, q2)
        /\ Slot(workers', dpiQueues', q2, k) = Slot(workers, dpiQueues, q2, k + d)
  BY DEF NoneAdded
<1>3. q1 = q2
  BY <1>1, <1>2 DEF HeldOrder
<1>4. j + c \in Held(workers, dpiQueues, q2)
        /\ Slot(workers', dpiQueues', q2, j) = Slot(workers, dpiQueues, q2, j + c)
  BY <1>1, <1>3
<1>5. i \in Int /\ j \in Int
  BY DEF Held
<1>6. i < j => i + c < j + c
  BY <1>5
<1> QED
  BY <1>1, <1>3, <1>4, <1>6 DEF HeldOrder

\* Steps that add no message and keep the entries preserve OrderInv.
LEMMA OtherOrder ==
  ASSUME TypeInv, TypeInv', OrderInv, OtherStep PROVE OrderInv'
<1> USE DEF OrderInv, OtherStep
<1>1. HeldOrder'
  BY OrderKept
<1>2. GenInv'
  BY DEF GenInv, EntriesKept
<1>3. consumer'.pc \in {"count", "push"} =>
        /\ consumer.pc \in {"count", "push"} /\ UNCHANGED <<consumer, conn_table>>
        /\ Allocated(consumer.msg.info)
  BY DEF TypeInv, PointersOK, ConsumerOK
<1>4. InsertedEntryLive' /\ LastCounted'
  BY <1>3 DEF InsertedEntryLive, LastCounted, EntriesKept, Allocated
<1>5. HeldInv'
  <2> SUFFICES ASSUME NEW q \in Queues, NEW i \in Held(workers', dpiQueues', q), NEW m,
                      m = Slot(workers', dpiQueues', q, i)
               PROVE  /\ m.gen <= pkts' /\ (consumer'.pc = "lookup" => m.gen < pkts')
                      /\ \A a \in Addrs : info'[a] # NULL /\ info'[a].gen = m.gen =>
                           m.info = a /\ info'[a].queue = q /\ m.pktnum <= info'[a].packetnum
                      /\ consumer'.pc \in {"count", "push"} /\ consumer'.msg.gen = m.gen =>
                           m.pktnum < consumer'.msg.pktnum
    BY DEF HeldInv
  <2>1. PICK d \in {0, 1} :
          i + d \in Held(workers, dpiQueues, q) /\ m = Slot(workers, dpiQueues, q, i + d)
    BY DEF NoneAdded
  <2>2. /\ m.gen <= pkts /\ (consumer.pc = "lookup" => m.gen < pkts)
        /\ \A a \in Addrs : info[a] # NULL /\ info[a].gen = m.gen =>
             m.info = a /\ info[a].queue = q /\ m.pktnum <= info[a].packetnum
        /\ consumer.pc \in {"count", "push"} /\ consumer.msg.gen = m.gen =>
             m.pktnum < consumer.msg.pktnum
    BY <2>1 DEF HeldInv
  <2>3. m.pktnum \in Nat
    BY <2>1, HeldType
  <2>4. ASSUME NEW a \in Addrs, info'[a] # NULL, info'[a].gen = m.gen
        PROVE  m.info = a /\ info'[a].queue = q /\ m.pktnum <= info'[a].packetnum
    <3>1. info[a] # NULL /\ info[a].gen = m.gen /\ info'[a].queue = info[a].queue
            /\ info'[a].packetnum >= info[a].packetnum
      BY <2>4 DEF EntriesKept
    <3>2. info[a].packetnum \in Nat /\ info'[a].packetnum \in Nat
      BY <2>4, <3>1 DEF TypeInv, TableType, ConnInfos
    <3>3. m.info = a /\ info[a].queue = q /\ m.pktnum <= info[a].packetnum
      BY <2>2, <3>1
    <3> QED
      BY <2>3, <3>1, <3>2, <3>3
  <2> QED
    BY <1>3, <2>2, <2>4
<1> QED
  BY <1>1, <1>2, <1>4, <1>5

\* A new packet's generation is larger than every entry's.
LEMMA InsertBeginOrder ==
  ASSUME TypeInv, OrderInv, NextPacket PROVE OrderInv'
<1> USE DEF OrderInv
<1> PICK f \in Flows, d \in Payloads : InsertBegin(f, d)
  BY DEF NextPacket
<1>1. /\ UNCHANGED <<conn_table, info, dpiQueues, workers>>
      /\ pkts' = pkts + 1 /\ consumer.pc = "idle"
  BY DEF NextPacket, InsertBegin, tablevars, enginevars, workervars
<1>2. consumer'.pc \in {"idle", "lookup"}
  BY <1>1 DEF InsertBegin, IdleConsumer
<1>3. pkts \in Nat
  BY DEF TypeInv, TableType
<1>4. HeldOrder'
  BY <1>1, NoneAddedSame, OrderKept
<1>5. GenInv'
  <2>1. \A a \in Addrs : info[a] # NULL => info[a].gen \in Nat
    BY DEF TypeInv, TableType, ConnInfos
  <2>2. \A a \in Addrs : info[a] # NULL => info[a].gen < pkts'
    BY <1>1, <1>3, <2>1 DEF GenInv
  <2>3. \A a \in Addrs : info[a] # NULL => info[a].gen <= pkts'
    BY <1>1, <1>3, <2>1, <2>2
  <2> QED
    BY <1>1, <2>2, <2>3 DEF GenInv
<1>6. InsertedEntryLive' /\ LastCounted'
  BY <1>2 DEF InsertedEntryLive, LastCounted
<1>7. HeldInv'
  <2>1. ASSUME NEW q \in Queues, NEW i \in Held(workers, dpiQueues, q), NEW m,
               m = Slot(workers, dpiQueues, q, i)
        PROVE  m.gen <= pkts' /\ m.gen < pkts'
    <3>1. m.gen \in Nat /\ m.gen <= pkts
      BY <2>1, HeldType DEF HeldInv
    <3> QED
      BY <1>1, <1>3, <3>1
  <2> QED
    BY <1>1, <1>2, <2>1 DEF HeldInv
<1> QED
  BY <1>4, <1>5, <1>6, <1>7

\* A new entry has that generation and no message yet.
LEMMA InsertNewOrder ==
  ASSUME TypeInv, OrderInv, ConsumerStep, InsertNew PROVE OrderInv'
<1> USE DEF OrderInv
<1>1. UNCHANGED <<workers, dpiQueues, pkts>> /\ consumer.pc = "lookup"
  BY ConsumerFrame DEF InsertNew, enginevars
<1>2. HeldOrder'
  BY <1>1, NoneAddedSame, OrderKept
<1>3. CASE numQueues = 0
  <2>1. consumer' = [consumer EXCEPT !.pc = "SIGFPE"] /\ UNCHANGED <<conn_table, info>>
    BY <1>3 DEF InsertNew, tablevars
  <2>2. consumer'.pc = "SIGFPE"
    BY <2>1 DEF TypeInv, TableType, Consumers
  <2>3. GenInv' /\ InsertedEntryLive' /\ LastCounted'
    BY <1>1, <2>1, <2>2 DEF GenInv, InsertedEntryLive, LastCounted
  <2>4. HeldInv'
    BY <1>1, <2>1, <2>2 DEF HeldInv
  <2> QED
    BY <1>2, <2>3, <2>4
<1>4. CASE numQueues # 0
  <2> DEFINE f == consumer.flow
             q == Hash[f] % numQueues
  <2>1. f \in Flows
    BY <1>1 DEF TypeInv, PointersOK, ConsumerOK
  <2>2. PICK a \in Addrs \ LiveAddrs :
          /\ conn_table' = [conn_table EXCEPT ![f] = a]
          /\ info' = [info EXCEPT ![a] = ConnInfo(f, q, pkts)]
          /\ consumer' = [consumer EXCEPT !.pc = "push", !.msg = ConnMetadata(a, pkts, 0, consumer.data)]
    BY <1>4 DEF InsertNew
  <2> HIDE DEF q
  <2>3. /\ info'[a] = ConnInfo(f, q, pkts) /\ info'[a].gen = pkts /\ info'[a].packetnum = 0
        /\ \A b \in Addrs \ {a} : info'[b] = info[b]
    BY <2>2 DEF TypeInv, TableType, ConnInfo
  <2>4. /\ consumer'.pc = "push" /\ consumer'.flow = f /\ consumer'.msg.info = a
        /\ consumer'.msg.gen = pkts /\ consumer'.msg.pktnum = 0
    BY <2>2 DEF TypeInv, TableType, Consumers, ConnMetadata
  <2>5. conn_table'[f] = a
    BY <2>1, <2>2 DEF TypeInv, TableType
  <2>6. InsertedEntryLive' /\ LastCounted'
    BY <2>3, <2>4, <2>5 DEF InsertedEntryLive, LastCounted
  <2>7. pkts \in Nat /\ \A b \in Addrs : info[b] # NULL => info[b].gen \in Nat /\ info[b].gen < pkts
    BY <1>1 DEF GenInv, TypeInv, TableType, ConnInfos
  <2>8. \A b \in Addrs : info[b] # NULL => info[b].gen # pkts /\ info[b].gen <= pkts
    BY <2>7
  <2>9. GenInv'
    BY <1>1, <2>3, <2>4, <2>7, <2>8 DEF GenInv
  <2>10. HeldInv'
    <3>1. ASSUME NEW v \in Queues, NEW i \in Held(workers, dpiQueues, v), NEW m,
                 m = Slot(workers, dpiQueues, v, i)
          PROVE  m.gen <= pkts /\ m.gen # pkts
      <4>1. m.gen \in Nat /\ m.gen < pkts
        BY <1>1, <3>1, HeldType DEF HeldInv
      <4> QED
        BY <2>7, <4>1
    <3> QED
      BY <1>1, <2>3, <2>4, <3>1 DEF HeldInv
  <2> QED
    BY <1>2, <2>6, <2>9, <2>10
<1> QED
  BY <1>3, <1>4

\* A packet found in the table is counted, so its number is the largest so far.
LEMMA InsertFoundOrder ==
  ASSUME TypeInv, OrderInv, ConsumerStep, InsertFound PROVE OrderInv'
<1> USE DEF OrderInv
<1> DEFINE f == consumer.flow
           a == conn_table[f]
           n == info[a].packetnum + 1
           msg == ConnMetadata(a, info[a].gen, n, consumer.data)
<1>1. /\ UNCHANGED <<conn_table, dpiQueues, workers, pkts>> /\ consumer.pc = "lookup" /\ a # NULL
      /\ info' = [info EXCEPT ![a].packetnum = n]
  BY ConsumerFrame DEF InsertFound, enginevars
<1>2. \/ consumer' = IdleConsumer
      \/ consumer' = [consumer EXCEPT !.pc = "SIGFPE"]
      \/ consumer' = [consumer EXCEPT !.pc = "count", !.msg = msg]
  BY DEF InsertFound
<1>3. f \in Flows /\ a \in Addrs /\ info[a] # NULL /\ info[a] \in ConnInfos
  BY <1>1, NullAssumption DEF TypeInv, PointersOK, ConsumerOK, TableOK, Allocated, TableType
<1>4. n \in Nat /\ info[a].packetnum \in Nat /\ n = info[a].packetnum + 1
  BY <1>3 DEF ConnInfos
<1> HIDE DEF n
<1>5. info'[a].packetnum = n /\ info'[a].gen = info[a].gen
  BY <1>1, <1>3 DEF TypeInv, TableType, ConnInfos
<1>6. /\ consumer'.pc \notin {"lookup", "push"}
      /\ consumer'.pc = "count" =>
           /\ consumer'.flow = f /\ consumer'.msg.info = a /\ consumer'.msg.gen = info[a].gen
           /\ consumer'.msg.pktnum = n
  <2>1. CASE consumer' = IdleConsumer
    BY <2>1 DEF IdleConsumer
  <2>2. CASE consumer' = [consumer EXCEPT !.pc = "SIGFPE"]
    BY <2>2 DEF TypeInv, TableType, Consumers
  <2>3. CASE consumer' = [consumer EXCEPT !.pc = "count", !.msg = msg]
    BY <2>3 DEF TypeInv, TableType, Consumers, ConnMetadata
  <2> QED
    BY <1>2, <2>1, <2>2, <2>3
<1>7. EntriesKept /\ TypeInv'
  BY InsertFoundType
<1>8. HeldOrder'
  BY <1>1, NoneAddedSame, OrderKept
<1>9. InsertedEntryLive' /\ LastCounted'
  BY <1>1, <1>5, <1>6 DEF InsertedEntryLive, LastCounted
<1>10. GenInv'
  BY <1>1, <1>6, <1>7 DEF GenInv, EntriesKept
<1>11. HeldInv'
  <2> SUFFICES ASSUME NEW q \in Queues, NEW i \in Held(workers, dpiQueues, q), NEW m,
                      m = Slot(workers, dpiQueues, q, i)
               PROVE  /\ m.gen <= pkts
                      /\ \A b \in Addrs : info'[b] # NULL /\ info'[b].gen = m.gen =>
                           m.info = b /\ info'[b].queue = q /\ m.pktnum <= info'[b].packetnum
                      /\ consumer'.pc = "count" /\ consumer'.msg.gen = m.gen =>
                           m.pktnum < consumer'.msg.pktnum
    BY <1>1, <1>6 DEF HeldInv
  <2>1. /\ m.gen <= pkts /\ m.pktnum \in Nat
        /\ \A b \in Addrs : info[b] # NULL /\ info[b].gen = m.gen =>
             m.info = b /\ info[b].queue = q /\ m.pktnum <= info[b].packetnum
    BY HeldType DEF HeldInv
  <2>2. ASSUME NEW b \in Addrs, info'[b] # NULL, info'[b].gen = m.gen
        PROVE  m.info = b /\ info'[b].queue = q /\ m.pktnum <= info'[b].packetnum
    <3>1. info[b] # NULL /\ info[b].gen = m.gen /\ info'[b].queue = info[b].queue
            /\ info'[b].packetnum >= info[b].packetnum
      BY <1>7, <2>2 DEF EntriesKept
    <3>2. info[b].packetnum \in Nat /\ info'[b].packetnum \in Nat
      BY <1>7, <2>2, <3>1 DEF TypeInv, TableType, ConnInfos
    <3>3. m.info = b /\ info[b].queue = q /\ m.pktnum <= info[b].packetnum
      BY <2>1, <3>1
    <3> QED
      BY <2>1, <3>1, <3>2, <3>3
  <2>3. ASSUME consumer'.pc = "count", consumer'.msg.gen = m.gen
        PROVE  m.pktnum < consumer'.msg.pktnum
    <3>1. m.pktnum <= info[a].packetnum
      BY <1>3, <1>6, <2>1, <2>3
    <3>2. m.pktnum < n
      BY <1>4, <2>1, <3>1
    <3> QED
      BY <1>6, <2>3, <3>2
  <2> QED
    BY <2>1, <2>2, <2>3
<1> QED
  BY <1>8, <1>9, <1>10, <1>11

\* The message to be pushed carries the number counted last.
LEMMA InsertCountOrder ==
  ASSUME TypeInv, OrderInv, ConsumerStep, InsertCount PROVE OrderInv'
<1> USE DEF OrderInv
<1>1. /\ UNCHANGED <<conn_table, dpiQueues, workers, pkts>> /\ consumer.pc = "count"
      /\ consumer' = [consumer EXCEPT !.pc = "push"]
  BY ConsumerFrame DEF InsertCount, enginevars
<1>2. consumer'.pc = "push" /\ consumer'.flow = consumer.flow /\ consumer'.msg = consumer.msg
  BY <1>1 DEF TypeInv, TableType, Consumers
<1>3. EntriesKept /\ Allocated(consumer.msg.info)
  BY <1>1, InsertCountType DEF TypeInv, PointersOK, ConsumerOK
<1>4. HeldOrder'
  BY <1>1, NoneAddedSame, OrderKept
<1>5. InsertedEntryLive' /\ LastCounted'
  BY <1>1, <1>2, <1>3 DEF InsertedEntryLive, LastCounted, EntriesKept, Allocated
<1>6. GenInv'
  BY <1>1, <1>2, <1>3 DEF GenInv, EntriesKept
<1>7. \A b \in Addrs : /\ info'[b] # NULL => info[b] # NULL
                       /\ info[b] # NULL => info'[b].gen = info[b].gen /\ info'[b].queue = info[b].queue
                                              /\ info'[b].packetnum = info[b].packetnum
  BY <1>1, <1>3 DEF EntriesKept
<1>8. HeldInv'
  BY <1>1, <1>2, <1>7 DEF HeldInv
<1> QED
  BY <1>4, <1>5, <1>6, <1>8

\* The packet is the last of its entry in the entry's queue.
LEMMA InsertPushOrder ==
  ASSUME TypeInv, OrderInv, ConsumerStep, InsertPush PROVE OrderInv'
<1> USE DEF OrderInv
<1> DEFINE msg == consumer.msg
           qe == info[msg.info].queue
           last == Len(dpiQueues[qe]) + 1
<1>1. /\ UNCHANGED <<conn_table, info, workers, pkts>> /\ consumer.pc = "push"
      /\ consumer'.pc = "idle"
  BY ConsumerFrame DEF InsertPush, IdleConsumer, tablevars
<1>2. /\ qe \in Queues /\ msg \in ConnMetadatas /\ Allocated(msg.info)
      /\ \A v \in Queues : v # qe => dpiQueues'[v] = dpiQueues[v]
      /\ Len(dpiQueues'[qe]) = last
      /\ \A i \in 1 .. Len(dpiQueues[qe]) : dpiQueues'[qe][i] = dpiQueues[qe][i]
      /\ dpiQueues'[qe][last] = msg
  BY InsertPushQueue
<1>3. Len(dpiQueues[qe]) \in Nat /\ last \in Nat /\ last > Len(dpiQueues[qe])
  <2>1. dpiQueues[qe] \in Seq(ConnMetadatas \cup {ExitMessage})
    BY <1>2 DEF TypeInv, EngineType
  <2> HIDE DEF qe
  <2>2. Len(dpiQueues[qe]) \in Nat
    BY <2>1, LenProperties
  <2>3. last = Len(dpiQueues[qe]) + 1
    OBVIOUS
  <2> HIDE DEF last
  <2> QED
    BY <2>2, <2>3
<1>4. /\ conn_table[consumer.flow] = msg.info /\ info[msg.info].gen = msg.gen
      /\ info[msg.info].packetnum = msg.pktnum /\ msg.info \in Addrs /\ info[msg.info] # NULL
      /\ msg.gen \in Nat /\ msg.pktnum \in Nat
  BY <1>1, <1>2 DEF InsertedEntryLive, LastCounted, Allocated, ConnMetadatas
<1> HIDE DEF qe, last
<1>5. ASSUME NEW q \in Queues, NEW i \in Held(workers', dpiQueues', q)
      PROVE  \/ /\ i \in Held(workers, dpiQueues, q)
                /\ Slot(workers', dpiQueues', q, i) = Slot(workers, dpiQueues, q, i)
                /\ q = qe => i < last
             \/ q = qe /\ i = last /\ Slot(workers', dpiQueues', q, i) = msg
  <2>1. i \in 0 .. Len(dpiQueues'[q]) /\ Slot(workers', dpiQueues', q, i) \in ConnMetadatas
    BY DEF Held
  <2>2. CASE q # qe
    BY <1>1, <1>2, <2>1, <2>2 DEF Held, Slot
  <2>3. CASE q = qe /\ i # last
    <3>1. i \in 0 .. Len(dpiQueues[q]) /\ i < last
      BY <1>2, <1>3, <2>1, <2>3 DEF last
    <3>2. Slot(workers', dpiQueues', q, i) = Slot(workers, dpiQueues, q, i)
      BY <1>1, <1>2, <2>3, <3>1 DEF Slot
    <3> QED
      BY <2>1, <3>1, <3>2 DEF Held
  <2>4. CASE q = qe /\ i = last
    BY <1>2, <1>3, <2>4 DEF Slot
  <2> QED
    BY <2>2, <2>3, <2>4
<1>6. \A q \in Queues : \A i \in Held(workers, dpiQueues, q) :
        Slot(workers, dpiQueues, q, i).gen = msg.gen =>
          q = qe /\ Slot(workers, dpiQueues, q, i).pktnum < msg.pktnum
  BY <1>1, <1>4 DEF HeldInv, qe
<1>7. HeldOrder'
  <2> SUFFICES ASSUME NEW q1 \in Queues, NEW q2 \in Queues,
                      NEW i \in Held(workers', dpiQueues', q1), NEW j \in Held(workers', dpiQueues', q2),
                      Slot(workers', dpiQueues', q1, i).gen = Slot(workers', dpiQueues', q2, j).gen
               PROVE  /\ q1 = q2
                      /\ i < j => Slot(workers', dpiQueues', q1, i).pktnum
                                    < Slot(workers', dpiQueues', q2, j).pktnum
    BY DEF HeldOrder
  <2>1. CASE /\ i \in Held(workers, dpiQueues, q1) /\ j \in Held(workers, dpiQueues, q2)
             /\ Slot(workers', dpiQueues', q1, i) = Slot(workers, dpiQueues, q1, i)
             /\ Slot(workers', dpiQueues', q2, j) = Slot(workers, dpiQueues, q2, j)
    BY <2>1 DEF HeldOrder
  <2>2. CASE /\ i \in Held(workers, dpiQueues, q1) /\ q2 = qe /\ j = last
             /\ Slot(workers', dpiQueues', q1, i) = Slot(workers, dpiQueues, q1, i)
             /\ Slot(workers', dpiQueues', q2, j) = msg
    BY <1>6, <2>2
  <2>3. CASE /\ q1 = qe /\ i = last /\ j \in Held(workers, dpiQueues, q2)
             /\ Slot(workers', dpiQueues', q1, i) = msg
             /\ Slot(workers', dpiQueues', q2, j) = Slot(workers, dpiQueues, q2, j)
             /\ q2 = qe => j < last
    <3>1. q2 = qe
      BY <1>6, <2>3
    <3>2. j \in Nat
      BY <2>3, HeldType
    <3>3. ~(i < j)
      BY <1>3, <2>3, <3>1, <3>2
    <3> QED
      BY <2>3, <3>1, <3>3
  <2>4. CASE q1 = qe /\ i = last /\ q2 = qe /\ j = last
    BY <1>3, <2>4
  <2> QED
    BY <1>5, <2>1, <2>2, <2>3, <2>4
<1>8. HeldInv'
  <2> SUFFICES ASSUME NEW q \in Queues, NEW i \in Held(workers', dpiQueues', q), NEW m,
                      m = Slot(workers', dpiQueues', q, i)
               PROVE  /\ m.gen <= pkts
                      /\ \A a \in Addrs : info[a] # NULL /\ info[a].gen = m.gen =>
                           m.info = a /\ info[a].queue = q /\ m.pktnum <= info[a].packetnum
    BY <1>1 DEF HeldInv
  <2>1. CASE i \in Held(workers, dpiQueues, q) /\ m = Slot(workers, dpiQueues, q, i)
    BY <2>1 DEF HeldInv
  <2>2. CASE q = qe /\ m = msg
    <3>1. msg.gen <= pkts
      BY <1>4 DEF GenInv
    <3>2. \A a \in Addrs : info[a] # NULL /\ info[a].gen = msg.gen => a = msg.info
      BY <1>4 DEF GenInv
    <3>3. msg.pktnum <= info[msg.info].packetnum
      BY <1>4
    <3> QED
      BY <2>2, <3>1, <3>2, <3>3 DEF qe
  <2> QED
    BY <1>5, <2>1, <2>2
<1>9. GenInv' /\ InsertedEntryLive' /\ LastCounted'
  BY <1>1 DEF GenInv, InsertedEntryLive, LastCounted
<1> QED
  BY <1>7, <1>8, <1>9

\* Every step preserves OrderInv.
LEMMA OrderNext ==
  ASSUME TypeInv, OrderInv, [Next]_vars PROVE OrderInv'
<1>1. CASE NextPacket
  BY <1>1, InsertBeginOrder
<1>2. CASE ConsumerStep
  BY <1>2, InsertNewOrder, InsertFoundOrder, InsertCountOrder, InsertPushOrder
     DEF ConsumerStep, InsertOrUpdateFlows
<1>3. CASE ~NextPacket /\ ~ConsumerStep
  BY <1>3, TypeNext, OtherSteps, OtherOrder
<1> QED
  BY <1>1, <1>2, <1>3

\* The inductive invariant behind the order of packets.
THEOREM PipelineOrder == Spec => [](TypeInv /\ OrderInv)
<1>1. Init => TypeInv /\ OrderInv
  BY TypeInit, OrderInit
<1>2. TypeInv /\ OrderInv /\ [Next]_vars => TypeInv' /\ OrderInv'
  BY TypeNext, OrderNext
<1> QED
  BY <1>1, <1>2, PTL DEF Spec

\* The references InsertOrUpdateFlows() uses from the lookup to the push stay
\* valid, whatever the workers, the cleanup thread and the stopping thread do.
THEOREM InsertedEntryLiveHolds == Spec => []InsertedEntryLive
<1>1. TypeInv /\ OrderInv => InsertedEntryLive
  BY DEF OrderInv
<1> QED
  BY <1>1, PipelineOrder, PTL

\* What is pending is held by the worker or in its queue, or about to be pushed.
LEMMA PendingHeld ==
  ASSUME TypeInv, NEW q \in Queues, NEW i \in Pending(q)
  PROVE  /\ i \in Nat
         /\ \/ /\ i \in Held(workers, dpiQueues, q)
               /\ PacketAt(q, i) = Slot(workers, dpiQueues, q, i) /\ i <= Len(dpiQueues[q])
            \/ /\ consumer.pc = "push" /\ q = info[consumer.msg.info].queue
               /\ i = Len(dpiQueues[q]) + 1 /\ PacketAt(q, i) = consumer.msg
<1>1. dpiQueues[q] \in Seq(ConnMetadatas \cup {ExitMessage}) /\ workers[q] \in Workers
  BY DEF TypeInv, EngineType
<1>2. Len(dpiQueues[q]) \in Nat /\ DOMAIN dpiQueues[q] = 1 .. Len(dpiQueues[q])
  BY <1>1, LenProperties
<1>3. i \in 0 .. Len(dpiQueues[q]) + 1 /\ PacketAt(q, i) # NULL /\ ~PacketAt(q, i).exit_flag
  BY DEF Pending
<1>4. i \in Nat
  BY <1>2, <1>3
<1>5. CASE i = 0
  <2>1. PacketAt(q, i) = workers[q].m /\ workers[q].m \in ConnMetadatas
    BY <1>1, <1>3, <1>5 DEF PacketAt, Workers
  <2> QED
    BY <1>2, <1>4, <1>5, <2>1 DEF Held, Slot
<1>6. CASE i \in 1 .. Len(dpiQueues[q])
  <2>1. PacketAt(q, i) = dpiQueues[q][i] /\ i # 0 /\ i <= Len(dpiQueues[q]) /\ i \in 0 .. Len(dpiQueues[q])
    BY <1>2, <1>6 DEF PacketAt
  <2>2. dpiQueues[q][i] \in ConnMetadatas \cup {ExitMessage}
    BY <1>1, <1>6, ElementOfSeq
  <2>3. dpiQueues[q][i] \in ConnMetadatas
    BY <1>3, <2>1, <2>2 DEF ExitMessage
  <2> QED
    BY <1>4, <2>1, <2>3 DEF Held, Slot
<1>7. CASE i = Len(dpiQueues[q]) + 1
  <2>1. i # 0 /\ ~(i <= Len(dpiQueues[q]))
    BY <1>2, <1>7
  <2> QED
    BY <1>3, <1>4, <1>7, <2>1 DEF PacketAt
<1> QED
  BY <1>2, <1>3, <1>5, <1>6, <1>7

\* The packets of a flow that are on their way are in one queue, in the order of
\* their arrival, however many queues have gone out of service.
THEOREM FlowOrderHolds == Spec => []FlowOrder
<1>1. ASSUME TypeInv, OrderInv PROVE FlowOrder
  <2> SUFFICES ASSUME NEW q1 \in Queues, NEW q2 \in Queues, NEW i \in Pending(q1), NEW j \in Pending(q2),
                      PacketAt(q1, i).gen = PacketAt(q2, j).gen
               PROVE  q1 = q2 /\ (i < j => PacketAt(q1, i).pktnum < PacketAt(q2, j).pktnum)
    BY DEF FlowOrder
  <2> DEFINE held1 == /\ i \in Held(workers, dpiQueues, q1)
                      /\ PacketAt(q1, i) = Slot(workers, dpiQueues, q1, i) /\ i <= Len(dpiQueues[q1])
             held2 == /\ j \in Held(workers, dpiQueues, q2)
                      /\ PacketAt(q2, j) = Slot(workers, dpiQueues, q2, j) /\ j <= Len(dpiQueues[q2])
             new1 == /\ consumer.pc = "push" /\ q1 = info[consumer.msg.info].queue
                     /\ i = Len(dpiQueues[q1]) + 1 /\ PacketAt(q1, i) = consumer.msg
             new2 == /\ consumer.pc = "push" /\ q2 = info[consumer.msg.info].queue
                     /\ j = Len(dpiQueues[q2]) + 1 /\ PacketAt(q2, j) = consumer.msg
  <2>1. i \in Nat /\ j \in Nat /\ (held1 \/ new1) /\ (held2 \/ new2)
    BY <1>1, PendingHeld
  <2>2. Len(dpiQueues[q1]) \in Nat /\ Len(dpiQueues[q2]) \in Nat
    BY <1>1, LenProperties DEF TypeInv, EngineType
  <2>3. CASE held1 /\ held2
    BY <1>1, <2>3 DEF OrderInv, HeldOrder
  <2>4. consumer.pc = "push" =>
          /\ consumer.msg.info \in Addrs /\ info[consumer.msg.info] # NULL
          /\ info[consumer.msg.info].gen = consumer.msg.gen
    BY <1>1 DEF TypeInv, PointersOK, ConsumerOK, Allocated, OrderInv, InsertedEntryLive
  <2>5. CASE held1 /\ new2
    BY <1>1, <2>4, <2>5 DEF OrderInv, HeldInv
  <2>6. CASE new1 /\ held2
    <3>1. q1 = q2
      BY <1>1, <2>4, <2>6 DEF OrderInv, HeldInv
    <3>2. ~(i < j)
      BY <2>1, <2>2, <2>6, <3>1
    <3> QED
      BY <3>1, <3>2
  <2>7. CASE new1 /\ new2
    <3>1. q1 = q2
      BY <2>7
    <3>2. i = j
      BY <2>7, <3>1
    <3>3. ~(i < j)
      BY <2>1, <3>2
    <3> QED
      BY <3>1, <3>3
  <2> QED
    BY <2>1, <2>3, <2>5, <2>6, <2>7
<1>2. TypeInv /\ OrderInv => FlowOrder
  BY <1>1
<1> QED
  BY <1>2, PipelineOrder, PTL

--------------------------------------------------------------------------------
(* Workers that fail. *)

\* numQueues_ is still zero after a division by zero.
DivisionInv == consumer.pc = "SIGFPE" => numQueues = 0

\* What a failed worker leaves behind: the count of queues and the lock.
FailInv == DivisionInv /\ CallbackExclusive

\* A step that leaves the workers and the lock alone, and the consumer or what it
\* divides by.
LEMMA FailKept ==
  ASSUME FailInv, UNCHANGED <<workers, dpiengine_lock, numQueues>>,
         consumer'.pc = "SIGFPE" => consumer.pc = "SIGFPE" \/ numQueues = 0
  PROVE  FailInv'
BY DEF FailInv, DivisionInv, CallbackExclusive

\* A worker that fails takes one off numQueues_, which counts at least itself.
LEMMA WorkerDivision ==
  ASSUME TypeInv, DivisionInv, NEW w \in Queues, WorkerStep(w) PROVE DivisionInv'
<1>1. UNCHANGED consumer
  BY WorkerFrame
<1>2. CASE CatchDecrement(w)
  <2>1. w \notin Retired
    BY <1>2 DEF CatchDecrement, Retired, OutOfService
  <2>2. numQueues > 0 /\ numQueues \in Int
    BY <2>1, QueuesLeft
  <2> QED
    BY <1>1, <2>2 DEF DivisionInv
<1>3. CASE ~CatchDecrement(w)
  <2>1. UNCHANGED numQueues
    BY <1>3 DEF WorkerStep, Worker, Dequeue, Examine, CreateConn, Classify, CallbackFind,
       CallbackUpdate, CallbackDestroy, CallbackReport, Throw, CatchClear, enginevars
  <2> QED
    BY <1>1, <2>1 DEF DivisionInv
<1> QED
  BY <1>2, <1>3

\* A worker takes dpiengine_lock when it is free and enters the callback, and gives it
\* back when it leaves, unless it throws.
LEMMA WorkerExclusive ==
  ASSUME TypeInv, CallbackExclusive, NEW w \in Queues, WorkerStep(w), TypeInv'
  PROVE  CallbackExclusive'
<1> USE DEF InCallback, AfterThrow
<1>0. NULL \notin Queues /\ dpiengine_lock \in Queues \cup {NULL}
  BY NavlAssumption, QueuesAssumption DEF Queues, TypeInv, EngineType
<1>1. ASSUME Moves(w), UNCHANGED dpiengine_lock,
             workers[w].pc \in InCallback <=> workers'[w].pc \in InCallback,
             workers[w].pc \in AfterThrow => workers'[w].pc \in AfterThrow
      PROVE  CallbackExclusive'
  BY <1>1 DEF CallbackExclusive, Moves
<1>2. CASE Continue(w) /\ UNCHANGED dpiengine_lock /\ workers[w].pc \notin InCallback \cup AfterThrow
  BY <1>1, <1>2, ContinueMoves
<1>3. CASE Continue(w) /\ dpiengine_lock' = NULL /\ workers[w].pc \in InCallback
  <2>1. Moves(w) /\ workers'[w].pc = "pop"
    BY <1>3, ContinueMoves
  <2>2. \A v \in Queues \ {w} : workers[v].pc \notin InCallback
    BY <1>3 DEF CallbackExclusive
  <2> QED
    BY <1>0, <1>3, <2>1, <2>2 DEF CallbackExclusive, Moves
<1>4. workers \in [Queues -> Workers] /\ workers' \in [Queues -> Workers]
  BY DEF TypeInv, EngineType
<1>5. CASE Dequeue(w)
  <2>1. Moves(w) /\ workers[w].pc = "pop" /\ workers'[w].pc \in {"done", "examine"} /\ UNCHANGED dpiengine_lock
    BY <1>4, <1>5 DEF Dequeue, Moves, Workers
  <2> QED
    BY <1>1, <2>1
<1>6. CASE Examine(w) \/ CreateConn(w)
  <2>1. ASSUME NEW pc \in {"create", "classify"}, Goto(w, pc), workers[w].pc = "examine", UNCHANGED dpiengine_lock
        PROVE  CallbackExclusive'
    BY <1>1, <2>1, GotoMoves DEF Working
  <2> QED
    BY <1>2, <1>6, <2>1 DEF Examine, CreateConn
<1>7. CASE Classify(w)
  <2>1. CASE Continue(w)
    BY <1>2, <1>7, <2>1 DEF Classify
  <2>2. CASE ~Continue(w)
    <3>1. PICK s, e : workers' = [workers EXCEPT ![w].pc = "callback", ![w].state = s, ![w].error = e]
      BY <1>7, <2>2 DEF Classify
    <3>2. Moves(w) /\ workers'[w].pc = "callback"
      BY <1>4, <3>1 DEF Moves, Workers
    <3> QED
      BY <1>1, <1>7, <3>2 DEF Classify
  <2> QED
    BY <2>1, <2>2
<1>8. CASE CallbackFind(w)
  <2>1. CASE Continue(w) /\ UNCHANGED dpiengine_lock
    BY <1>2, <1>8, <2>1 DEF CallbackFind
  <2>2. CASE ~(Continue(w) /\ UNCHANGED dpiengine_lock)
    <3>1. /\ dpiengine_lock = NULL /\ dpiengine_lock' = w
          /\ \E a, g : workers' = [workers EXCEPT ![w].pc = "update", ![w].found = a, ![w].gen = g]
      BY <1>8, <2>2 DEF CallbackFind
    <3>2. Moves(w) /\ workers'[w].pc = "update"
      BY <1>4, <3>1 DEF Moves, Workers
    <3> QED
      BY <1>0, <3>1, <3>2 DEF CallbackExclusive, Moves
  <2> QED
    BY <2>1, <2>2
<1>9. CASE CallbackUpdate(w) \/ CallbackDestroy(w) \/ CallbackReport(w)
  <2>1. ASSUME NEW pc \in {"destroy", "report"}, Goto(w, pc), workers[w].pc \in InCallback, UNCHANGED dpiengine_lock
        PROVE  CallbackExclusive'
    BY <1>1, <2>1, GotoMoves DEF Working
  <2> QED
    BY <1>3, <1>9, <2>1 DEF CallbackUpdate, CallbackDestroy, CallbackReport
<1>10. CASE Throw(w)
  <2>1. Moves(w) /\ workers'[w].pc = "catch" /\ UNCHANGED dpiengine_lock
    BY <1>10, GotoMoves DEF Throw, Working
  <2> QED
    BY <2>1 DEF CallbackExclusive, Moves
<1>11. CASE CatchDecrement(w) \/ CatchClear(w)
  <2>1. ASSUME NEW pc \in {"clear", "done", "stuck"}, Goto(w, pc), workers[w].pc \in {"catch", "clear"},
               UNCHANGED dpiengine_lock
        PROVE  CallbackExclusive'
    BY <1>1, <2>1, GotoMoves DEF OutOfService
  <2> QED
    BY <1>11, <2>1 DEF CatchDecrement, CatchClear
<1> QED
  BY <1>5, <1>6, <1>7, <1>8, <1>9, <1>10, <1>11 DEF WorkerStep, Worker

\* Every step preserves FailInv.
LEMMA FailNext ==
  ASSUME TypeInv, FailInv, [Next]_vars PROVE FailInv'
<1>1. CASE UNCHANGED vars
  BY <1>1, FailKept DEF vars, enginevars, consumervars, workervars
<1>2. CASE NextPacket
  <2>1. consumer' = consumer \/ consumer'.pc = "lookup"
    BY <1>2 DEF NextPacket, InsertBegin, IdleConsumer
  <2> QED
    BY <1>2, <2>1, FailKept DEF NextPacket, InsertBegin, enginevars, workervars
<1>3. CASE ConsumerStep
  <2>1. consumer'.pc = "SIGFPE" => numQueues = 0
    <3>1. consumer \in Consumers
      BY DEF TypeInv, TableType
    <3>2. ASSUME NEW pc \in {"push", "count"}, NEW m, consumer' = [consumer EXCEPT !.pc = pc, !.msg = m]
          PROVE  consumer'.pc # "SIGFPE"
      BY <3>1, <3>2 DEF Consumers
    <3>3. consumer' = IdleConsumer => consumer'.pc # "SIGFPE"
      BY DEF IdleConsumer
    <3>4. CASE InsertNew
      BY <3>2, <3>4 DEF InsertNew
    <3>5. CASE InsertFound
      BY <3>2, <3>3, <3>5 DEF InsertFound
    <3>6. CASE InsertCount
      BY <3>1, <3>6 DEF InsertCount, Consumers
    <3>7. CASE InsertPush
      BY <3>3, <3>7 DEF InsertPush
    <3> QED
      BY <1>3, <3>4, <3>5, <3>6, <3>7 DEF ConsumerStep, InsertOrUpdateFlows
  <2> QED
    BY <1>3, <2>1, ConsumerFrame, FailKept
<1>4. CASE CleanerStep
  BY <1>4, CleanerFrame, FailKept
<1>5. CASE TableStop
  BY <1>5, StopperFrame, FailKept
<1>6. CASE Silence \/ DataPathStep \/ JoinThreads
  BY <1>6, FailKept DEF Silence, DataPathStep, JoinThreads, enginevars, consumervars, workervars
<1>7. CASE StopBegin
  <2>1. consumer'.pc = "done"
    BY <1>7 DEF StopBegin, TypeInv, TableType, Consumers
  <2> QED
    BY <1>7, <2>1, FailKept DEF StopBegin, enginevars, workervars
<1>8. ASSUME NEW w \in Queues, WorkerStep(w) PROVE FailInv'
  <2>1. TypeInv'
    BY TypeNext
  <2> QED
    BY <1>8, <2>1, WorkerDivision, WorkerExclusive DEF FailInv
<1> QED
  BY <1>1, <1>2, <1>3, <1>4, <1>5, <1>6, <1>7, <1>8 DEF Next, Terminated

\* The invariant of failing workers.
LEMMA PipelineFailures == Spec => [](TypeInv /\ FailInv)
<1>1. Init => TypeInv /\ FailInv
  <2> SUFFICES ASSUME Init PROVE FailInv
    BY TypeInit
  <2>1. NULL \notin Queues
    BY NavlAssumption, QueuesAssumption DEF Queues
  <2> QED
    BY <2>1 DEF Init, FlowTableInit, DPIEngineInit, IdleWorker, IdleConsumer, FailInv, DivisionInv,
                CallbackExclusive, InCallback
<1>2. TypeInv /\ FailInv /\ [Next]_vars => TypeInv' /\ FailInv'
  BY TypeNext, FailNext
<1> QED
  BY <1>1, <1>2, PTL DEF Spec

\* The consumer divides by a numQueues_ of zero only when every worker has failed,
\* for any number of workers and any order of their failures.
THEOREM DivisionNeedsAllFailedHolds == Spec => []DivisionNeedsAllFailed
<1>1. TypeInv /\ FailInv => DivisionNeedsAllFailed
  <2> SUFFICES ASSUME TypeInv, FailInv, consumer.pc = "SIGFPE", NEW w \in Queues
               PROVE  workers[w].pc \in {"clear", "stuck", "done"}
    BY DEF DivisionNeedsAllFailed
  <2>1. numQueues = 0
    BY DEF FailInv, DivisionInv
  <2>2. w \in Retired
    BY <2>1, QueuesLeft
  <2> QED
    BY <2>2 DEF Retired, OutOfService
<1> QED
  BY <1>1, PipelineFailures, PTL

\* Workers are in the callback one at a time, and a lock that stays locked is that of
\* a worker that threw in there, for any number of workers.
THEOREM CallbackExclusiveHolds == Spec => []CallbackExclusive
<1>1. TypeInv /\ FailInv => CallbackExclusive
  BY DEF FailInv
<1> QED
  BY <1>1, PipelineFailures, PTL
================================================================================
