-------------------------------- MODULE Pipeline --------------------------------
(***************************************************************************)
(* The packet pipeline behind the ring: the consumer thread feeds packets  *)
(* to FlowTable, FlowTable queues them for the DPIEngine workers, their    *)
(* navl callbacks update FlowTable and send results to DataPathUpdate; the *)
(* cleanup thread erases entries; DistDpi::stop() shuts the parts down in  *)
(* the order PacketHandler, FlowTable, DPIEngine, DataPathUpdate.          *)
(***************************************************************************)
EXTENDS DPIEngine

vars == <<tablevars, enginevars, ftbl_mutex, consumervars, cleanupvars, stopvars,
          workervars, conns, dpvars>>

Init ==
  /\ NavlInit
  /\ DataPathUpdateInit
  /\ FlowTableInit
  /\ DPIEngineInit

\* populateFlowTable() hands the next packet to the table.
NextPacket ==
  /\ \E f \in Flows, d \in Payloads : InsertBegin(f, d)
  /\ UNCHANGED <<workervars, conns, dpvars>>

ConsumerStep ==
  /\ InsertOrUpdateFlows
  /\ UNCHANGED <<workervars, conns, dpvars>>

CleanerStep ==
  /\ FlowTableCleanup
  /\ UNCHANGED <<enginevars, consumervars, stopvars, workervars, dpvars>>

Silence ==
  /\ Age
  /\ UNCHANGED <<enginevars, ftbl_mutex, consumervars, cleanupvars, stopvars,
                 workervars, conns, dpvars>>

WorkerStep(w) ==
  /\ Worker(w)
  /\ UNCHANGED <<ftbl_mutex, consumervars, cleanupvars, stopvars, dpthread>>

DataPathStep ==
  /\ GetDPIFlowData
  /\ UNCHANGED <<tablevars, enginevars, ftbl_mutex, consumervars, cleanupvars,
                 stopvars, workervars, conns>>

\* Mutation: PacketHandler::stop() does not join the consumer thread.
StopBegin_NoJoin ==
  /\ "stop" \in Faults
  /\ stopper = "idle"
  /\ StopCleanup
  /\ UNCHANGED <<tablevars, enginevars, ftbl_mutex, consumervars, cleanupvars,
                 workervars, conns, dpvars>>

\* DistDpi::stop(): PacketHandler::stop() has joined the consumer thread;
\* FlowTable::stop() begins.
StopBegin ==
  /\ "stop" \in Faults
  /\ stopper = "idle"
  /\ consumer.pc = "idle"
  /\ consumer' = [consumer EXCEPT !.pc = "done"]
  /\ StopCleanup
  /\ UNCHANGED <<tablevars, enginevars, ftbl_mutex, pkts, cleanupvars, workervars,
                 conns, dpvars>>

TableStop ==
  /\ FlowTableStop
  /\ UNCHANGED <<info, jammed, numQueues, running, consumervars, cleaner, todo,
                 workervars, dpthread>>

\* DPIEngine::stop() and DataPathUpdate::stop() join their threads.
JoinThreads ==
  /\ \/ /\ stopper = "join_engine"
        /\ \A w \in Queues : workers[w].pc = "done"
        /\ stopper' = "join_datapath"
     \/ /\ stopper = "join_datapath"
        /\ dpthread = "done"
        /\ stopper' = "stopped"
  /\ UNCHANGED <<tablevars, enginevars, ftbl_mutex, consumervars, cleanupvars, exits,
                 running, workervars, conns, dpvars>>

\* The agent has stopped; the process exits.
Terminated == stopper = "stopped" /\ UNCHANGED vars

\* (A consumer at "SIGFPE" has divided by zero: the process ends there, after
\* whatever the other threads still do before the signal takes effect.)
Next ==
  \/ NextPacket
  \/ ConsumerStep
  \/ CleanerStep
  \/ Silence
  \/ \E w \in Queues : WorkerStep(w)
  \/ DataPathStep
  \/ StopBegin
  \/ TableStop
  \/ JoinThreads
  \/ Terminated

Spec == Init /\ [][Next]_vars

\* Threads keep running: each one that can take a step eventually does.  Packets,
\* silence and the decision to stop are up to the environment.
Fairness ==
  /\ WF_vars(ConsumerStep)
  /\ WF_vars(CleanerStep)
  /\ \A w \in Queues : WF_vars(WorkerStep(w))
  /\ WF_vars(DataPathStep)
  /\ WF_vars(TableStop)
  /\ WF_vars(JoinThreads)

FairSpec == Spec /\ Fairness

--------------------------------------------------------------------------------
(* Properties. *)

\* While InsertOrUpdateFlows() holds an entry it found or inserted, the cleanup
\* thread does not erase it: the references it uses from the lookup to the push
\* (FlowTable.cpp:88-131) stay valid although workers and cleaner go on.
InsertedEntryLive ==
  consumer.pc \in {"count", "push"} =>
    /\ conn_table[consumer.flow] = consumer.msg.info
    /\ info[consumer.msg.info].gen = consumer.msg.gen

\* What is on its way through queue q, in order: the worker's packet, the messages
\* in the queue and the packet about to be pushed; NULL where there is none.
PacketAt(q, i) ==
  IF i = 0 THEN workers[q].m
  ELSE IF i <= Len(dpiQueues[q]) THEN dpiQueues[q][i]
  ELSE IF consumer.pc = "push" /\ q = info[consumer.msg.info].queue THEN consumer.msg
  ELSE NULL

Pending(q) ==
  {i \in 0 .. Len(dpiQueues[q]) + 1 : PacketAt(q, i) # NULL /\ ~PacketAt(q, i).exit_flag}

\* The packets of a flow reach navl in the order they arrived: all those on
\* their way are in one queue, in increasing pktnum, even when numQueues_ shrinks
\* and later hashes select other queues (queue at FlowTable.cpp:108 and :131).
FlowOrder ==
  \A q1, q2 \in Queues : \A i \in Pending(q1), j \in Pending(q2) :
    PacketAt(q1, i).gen = PacketAt(q2, j).gen =>
      /\ q1 = q2
      /\ i < j => PacketAt(q1, i).pktnum < PacketAt(q2, j).pktnum

\* As long as no erased entry was used, a worker classifies a navl connection
\* only with the handle that created it (DPIEngine.cpp:93 and :108).
HandleAffinity ==
  ~dangled => \A w \in Queues :
    workers[w].pc = "classify" /\ LivePointer(workers[w].m.info, workers[w].m.gen) =>
      conns[info[workers[w].m.info].dpi_state].handle = w

\* The hash is taken modulo a numQueues_ of zero (FlowTable.cpp:107 and :126), which
\* kills the process, only when no worker is left: every queue was taken out of
\* service once, between the consumer's test of numQueues_ and its division.
DivisionNeedsAllFailed ==
  consumer.pc = "SIGFPE" => \A w \in Queues : workers[w].pc \in {"clear", "stuck", "done"}

\* Where a worker uses what find() gave it, and where it is after an exception there.
InCallback == {"update", "destroy", "report"}
AfterThrow == {"catch", "clear", "stuck", "done"}

\* Workers are in the callback one at a time, each with dpiengine_lock, and leave it
\* unlocked on every path (DPIEngine.cpp:40) but one: what is left behind locked, and
\* stops every later callback, is the lock of a worker that threw in there.
CallbackExclusive ==
  /\ \A w \in Queues : workers[w].pc \in InCallback => dpiengine_lock = w
  /\ \A w \in Queues : dpiengine_lock = w => workers[w].pc \in InCallback \cup AfterThrow

\* As long as no erased entry was used, an entry is reported to the data path at
\* most once, although each of its packets may call back (FlowTable.cpp:196).
OneReport ==
  ~dangled => \A i, j \in DOMAIN updateDPQueue :
    ~updateDPQueue[i].exit_flag /\ ~updateDPQueue[j].exit_flag /\ i # j =>
      updateDPQueue[i].gen # updateDPQueue[j].gen

\* As long as no erased entry was used, no result is queued behind the exit
\* message, where the data path thread would never see it (FlowTable.cpp:242).
ReportsBeforeExit ==
  ~dangled => \A i \in DOMAIN updateDPQueue :
    updateDPQueue[i].exit_flag => i = Len(updateDPQueue)

\* As long as no erased entry was used, an entry and its navl connection agree,
\* except in the entry cleanupFlows() is working on: the connection is open until
\* the classification is finished, and destroyed exactly once when it is
\* (FlowTable.cpp:164-168).
ConnMatchesEntry ==
  ~dangled => \A f \in Flows \ {it} :
    LET i == info[conn_table[f]]
        d == conns[i.dpi_state].destroys
    IN  conn_table[f] # NULL /\ i.dpi_state # NULL =>
          \/ ~Finished(i.class_state) /\ d = 0
          \/ Finished(i.class_state) /\ d = 1
          \/ /\ Finished(i.class_state) /\ d = 0
             /\ \E w \in Queues : workers[w].pc = "destroy"
                                 /\ workers[w].found = conn_table[f]

\* A worker that was told to exit leaves no packet behind: FlowTable::stop() sends
\* the exit message after the last packet (FlowTable.cpp:243).
QueuesDrained ==
  \A w \in Queues : workers[w].pc = "done" => dpiQueues[w] = <<>>

\* As long as no erased entry was used, a finished classification is final: the
\* class_state of an entry that is CLASSIFIED or TERMINATED never changes again.
ClassificationFinal ==
  [][~dangled' => \A a \in LiveAddrs :
       Finished(info[a].class_state) /\ info'[a].gen = info[a].gen =>
         info'[a].class_state = info[a].class_state]_vars

\* Stopping succeeds: once FlowTable::stop() has begun, every thread leaves its
\* loop and is joined (DistDpi.cpp:21-36).
StopTerminates == stopper = "join_cleanup" ~> stopper = "stopped"

--------------------------------------------------------------------------------
(* What the documentation says and the code does not do. *)

\* "The integrator MUST ensure they pair each successful call to
\* navl_conn_create() with a call to navl_conn_destroy()" (navl.h:356): after a
\* complete stop every navl connection has been destroyed, and only once.
ConnsPaired ==
  stopper = "stopped" => \A c \in DOMAIN conns : conns[c].destroys = 1

\* An entry keeps "the number of packets in the pipeline to the DPI Engine"
\* (FlowTable.h:101-102), and cleanupFlows() deletes classified flows that "have
\* packet ref count zero" (FlowTable.h:156-157): no packet waits in a queue whose
\* entry has been deleted.
PipelineEntriesLive ==
  \A q \in Queues : \A i \in DOMAIN dpiQueues[q] :
    ~dpiQueues[q][i].exit_flag => LivePointer(dpiQueues[q][i].info, dpiQueues[q][i].gen)
================================================================================
