-------------------------- MODULE PipelineNavlProofs ---------------------------
(***************************************************************************)
(* More proofs about Pipeline: entries, their navl connections and the     *)
(* reports to the data path; the exit messages.                            *)
(***************************************************************************)
EXTENDS PipelineProofs

\* The entry worker w's message points to has not been replaced by another.
Owns(w) == workers[w].m # NULL /\ info[workers[w].m.info].gen = workers[w].m.gen

\* Entries do not share connections.
ConnsOwned ==
  /\ \A a \in Addrs : info[a] # NULL /\ info[a].dpi_state # NULL =>
       info[a].dpi_state \in 1 .. Len(conns)
  /\ \A a, b \in Addrs :
       info[a] # NULL /\ info[b] # NULL /\ info[a].dpi_state # NULL
         /\ info[a].dpi_state = info[b].dpi_state => a = b

\* The reports come from entries that were inserted; the exit message is sent when
\* the table has been emptied.
ReportsSent ==
  /\ \A i \in DOMAIN updateDPQueue : ~updateDPQueue[i].exit_flag =>
       /\ updateDPQueue[i].gen <= pkts
       /\ consumer.pc = "lookup" => updateDPQueue[i].gen < pkts
  /\ stopper \in {"idle", "join_cleanup", "delete", "erase"} =>
       \A i \in DOMAIN updateDPQueue : ~updateDPQueue[i].exit_flag

\* A connection belongs to the worker of its entry's queue; a flow without one is
\* under inspection.
EntriesSound ==
  \A a \in Addrs : info[a] # NULL =>
    /\ info[a].dpi_state = NULL => info[a].class_state = INSPECTING
    /\ info[a].dpi_state # NULL => conns[info[a].dpi_state].handle = info[a].queue

\* What a worker learned of its entry is still so.
WorkSound ==
  \A w \in Queues :
    /\ workers[w].pc \in InCallback =>
         workers[w].found = workers[w].m.info /\ workers[w].gen = workers[w].m.gen
    /\ Owns(w) =>
         /\ workers[w].pc = "create" => info[workers[w].m.info].dpi_state = NULL
         /\ workers[w].pc \in {"classify", "callback"} \cup InCallback =>
              info[workers[w].m.info].dpi_state # NULL
         /\ workers[w].pc \in {"classify", "callback", "update"} =>
              info[workers[w].m.info].class_state = INSPECTING
         /\ workers[w].pc \in {"destroy", "report"} =>
              Finished(info[workers[w].m.info].class_state)

\* The connection a worker is about to destroy is open.
DestroySound ==
  \A w \in Queues : \A f \in Flows \ {it} :
    workers[w].pc = "destroy" /\ Owns(w) /\ conn_table[f] = workers[w].m.info =>
      conns[info[workers[w].m.info].dpi_state].destroys = 0

\* An entry that was reported is finished, and no worker is about to report it.
ReportSound ==
  \A i \in DOMAIN updateDPQueue : ~updateDPQueue[i].exit_flag =>
    /\ \A a \in Addrs : info[a] # NULL /\ info[a].gen = updateDPQueue[i].gen =>
         Finished(info[a].class_state)
    /\ \A w \in Queues : workers[w].pc \in {"classify", "callback"} \cup InCallback =>
         workers[w].m.gen # updateDPQueue[i].gen

\* The inductive invariant about navl connections and reports.  What follows a
\* pointer to an entry is claimed until the code has used one that dangles.
NavlInv ==
  /\ ConnsOwned /\ ReportsSent
  /\ ~dangled => EntriesSound /\ WorkSound /\ DestroySound /\ ReportSound
  /\ OneReport /\ ReportsBeforeExit /\ ConnMatchesEntry

\* Initially there is no connection, no entry and no report.
LEMMA NavlInvInit == Init => NavlInv
<1> SUFFICES ASSUME Init PROVE NavlInv
  OBVIOUS
<1> USE DEF Init, NavlInit, DataPathUpdateInit, FlowTableInit, DPIEngineInit
<1>1. ConnsOwned /\ ReportsSent /\ OneReport /\ ReportsBeforeExit /\ ConnMatchesEntry
  BY DEF ConnsOwned, ReportsSent, OneReport, ReportsBeforeExit, ConnMatchesEntry
<1>2. EntriesSound /\ ReportSound
  BY DEF EntriesSound, ReportSound
<1>3. WorkSound /\ DestroySound
  BY DEF WorkSound, DestroySound, Owns, IdleWorker, InCallback
<1> QED
  BY <1>1, <1>2, <1>3 DEF NavlInv

\* The states of the entries do not change.
StatesKept ==
  \A a \in Addrs : info[a] # NULL =>
    info'[a].dpi_state = info[a].dpi_state /\ info'[a].class_state = info[a].class_state

\* Outside the entry cleanupFlows() works on, the table only loses entries, and the
\* connections of the others are left alone.
ConnsKept ==
  /\ Len(conns') = Len(conns)
  /\ \A c \in 1 .. Len(conns) : conns'[c].handle = conns[c].handle
  /\ \A f \in Flows \ {it'} : conn_table'[f] # NULL =>
       /\ f # it /\ conn_table'[f] = conn_table[f]
       /\ \A c \in 1 .. Len(conns) : c = info[conn_table[f]].dpi_state => conns'[c] = conns[c]

\* A step of another thread than the workers.
LEMMA StillSound ==
  ASSUME TypeInv, NavlInv, EntriesKept, StatesKept, ConnsKept, UNCHANGED <<workers, dangled>>
  PROVE  /\ ConnsOwned' /\ ConnMatchesEntry'
         /\ ~dangled => EntriesSound' /\ WorkSound' /\ DestroySound'
<1> USE DEF NavlInv
<1>1. \A w \in Queues : workers[w].m # NULL => workers[w].m.info \in Addrs /\ info[workers[w].m.info] # NULL
  BY DEF TypeInv, PointersOK, WorkersOK, Allocated
<1>2. ConnsOwned'
  BY DEF ConnsOwned, EntriesKept, StatesKept, ConnsKept
<1>3. ASSUME ~dangled PROVE EntriesSound'
  BY <1>3 DEF EntriesSound, ConnsOwned, EntriesKept, StatesKept, ConnsKept
<1>4. ASSUME NEW w \in Queues, workers[w].m # NULL
      PROVE  /\ info'[workers[w].m.info].gen = info[workers[w].m.info].gen
             /\ info'[workers[w].m.info].dpi_state = info[workers[w].m.info].dpi_state
             /\ info'[workers[w].m.info].class_state = info[workers[w].m.info].class_state
  BY <1>1, <1>4 DEF EntriesKept, StatesKept
<1>5. ASSUME ~dangled PROVE WorkSound'
  BY <1>4, <1>5 DEF WorkSound, Owns
<1>6. \A f \in Flows : conn_table[f] # NULL => conn_table[f] \in Addrs /\ info[conn_table[f]] # NULL
  BY DEF TypeInv, PointersOK, TableOK, Allocated
<1>7. ASSUME ~dangled PROVE DestroySound'
  <2> SUFFICES ASSUME NEW w \in Queues, NEW f \in Flows \ {it'}, workers[w].pc = "destroy", Owns(w)',
                      conn_table'[f] = workers[w].m.info
               PROVE  conns'[info'[workers[w].m.info].dpi_state].destroys = 0
    BY DEF DestroySound
  <2>1. Owns(w) /\ conn_table'[f] # NULL
    BY <1>1, <1>4, AddrsAssumption DEF Owns
  <2>2. f # it /\ conn_table[f] = workers[w].m.info
    BY <2>1 DEF ConnsKept
  <2>3. conns[info[workers[w].m.info].dpi_state].destroys = 0
    BY <1>7, <2>1, <2>2 DEF DestroySound
  <2>4. info[workers[w].m.info].dpi_state \in 1 .. Len(conns)
    BY <1>1, <1>7, <2>1 DEF ConnsOwned, WorkSound, Owns, InCallback
  <2>5. conns'[info[workers[w].m.info].dpi_state] = conns[info[workers[w].m.info].dpi_state]
    BY <2>1, <2>2, <2>4 DEF ConnsKept
  <2> QED
    BY <1>4, <2>1, <2>3, <2>5 DEF Owns
<1>8. ConnMatchesEntry'
  <2> SUFFICES ASSUME ~dangled, NEW f \in Flows \ {it'}, conn_table'[f] # NULL,
                      info'[conn_table'[f]].dpi_state # NULL
               PROVE  LET i == info'[conn_table'[f]]
                          d == conns'[i.dpi_state].destroys
                      IN  \/ ~Finished(i.class_state) /\ d = 0
                          \/ Finished(i.class_state) /\ d = 1
                          \/ /\ Finished(i.class_state) /\ d = 0
                             /\ \E w \in Queues : workers[w].pc = "destroy"
                                                   /\ workers[w].found = conn_table'[f]
    BY DEF ConnMatchesEntry, Finished
  <2>1. f # it /\ conn_table'[f] = conn_table[f] /\ conn_table[f] \in Addrs /\ info[conn_table[f]] # NULL
    BY <1>6 DEF ConnsKept
  <2>2. /\ info'[conn_table[f]].dpi_state = info[conn_table[f]].dpi_state
        /\ info'[conn_table[f]].class_state = info[conn_table[f]].class_state
    BY <2>1 DEF StatesKept
  <2>3. info[conn_table[f]].dpi_state \in 1 .. Len(conns)
    BY <2>1, <2>2 DEF ConnsOwned
  <2>4. conns'[info[conn_table[f]].dpi_state] = conns[info[conn_table[f]].dpi_state]
    BY <2>1, <2>3 DEF ConnsKept
  <2> QED
    BY <2>1, <2>2, <2>4 DEF ConnMatchesEntry
<1> QED
  BY <1>2, <1>3, <1>5, <1>7, <1>8

\* The reports in the data path's queue carry generations.
LEMMA ReportTypes ==
  ASSUME TypeInv
  PROVE  /\ Len(updateDPQueue) \in Nat /\ DOMAIN updateDPQueue = 1 .. Len(updateDPQueue)
         /\ \A i \in DOMAIN updateDPQueue :
              ~updateDPQueue[i].exit_flag => updateDPQueue[i].gen \in Nat
<1>1. updateDPQueue \in Seq(DPIFlowDatas \cup {ExitMessage})
  BY DEF TypeInv, EngineType
<1>2. Len(updateDPQueue) \in Nat /\ DOMAIN updateDPQueue = 1 .. Len(updateDPQueue)
  BY <1>1, LenProperties
<1>3. \A i \in 1 .. Len(updateDPQueue) : updateDPQueue[i] \in DPIFlowDatas \cup {ExitMessage}
  BY <1>1, ElementOfSeq
<1>4. ASSUME NEW i \in DOMAIN updateDPQueue, ~updateDPQueue[i].exit_flag
      PROVE  updateDPQueue[i].gen \in Nat
  <2>1. updateDPQueue[i] \in DPIFlowDatas \cup {ExitMessage}
    BY <1>2, <1>3
  <2>2. ExitMessage.exit_flag
    BY DEF ExitMessage
  <2>3. updateDPQueue[i] \in DPIFlowDatas
    BY <1>4, <2>1, <2>2
  <2> QED
    BY <2>3 DEF DPIFlowDatas
<1> QED
  BY <1>2, <1>4

\* Nothing is reported or sent to the data path.
LEMMA StillReports ==
  ASSUME TypeInv, NavlInv, EntriesKept, StatesKept, UNCHANGED <<workers, dangled, updateDPQueue>>,
         \/ UNCHANGED pkts /\ (consumer' = consumer \/ consumer'.pc # "lookup")
         \/ pkts' = pkts + 1,
         stopper' \in {"idle", "join_cleanup", "delete", "erase"} =>
           stopper \in {"idle", "join_cleanup", "delete", "erase"}
  PROVE  /\ ReportsSent' /\ OneReport' /\ ReportsBeforeExit'
         /\ ~dangled => ReportSound'
<1> USE DEF NavlInv
<1>1. OneReport' /\ ReportsBeforeExit'
  BY DEF OneReport, ReportsBeforeExit
<1>2. ASSUME ~dangled PROVE ReportSound'
  BY <1>2 DEF ReportSound, EntriesKept, StatesKept
<1>3. ASSUME NEW i \in DOMAIN updateDPQueue, ~updateDPQueue[i].exit_flag
      PROVE  updateDPQueue[i].gen <= pkts' /\ (consumer'.pc = "lookup" => updateDPQueue[i].gen < pkts')
  <2>2. updateDPQueue[i].gen \in Nat /\ pkts \in Nat
    BY <1>3, ReportTypes DEF TypeInv, TableType
  <2>3. updateDPQueue[i].gen <= pkts /\ (consumer.pc = "lookup" => updateDPQueue[i].gen < pkts)
    BY <1>3 DEF ReportsSent
  <2>4. CASE pkts' = pkts + 1
    BY <2>2, <2>3, <2>4
  <2>5. CASE UNCHANGED pkts /\ (consumer' = consumer \/ consumer'.pc # "lookup")
    BY <2>3, <2>5
  <2> QED
    BY <2>4, <2>5
<1>4. ReportsSent'
  BY <1>3 DEF ReportsSent
<1> QED
  BY <1>1, <1>2, <1>4

\* A step that leaves the table and the connections alone.
LEMMA TableStill ==
  ASSUME TypeInv, UNCHANGED <<conn_table, conns, it>> PROVE ConnsKept
BY DEF ConnsKept

\* Where the states of the entries are left alone by the consumer.
LEMMA ConsumerStates ==
  ASSUME TypeInv, ConsumerStep, ~InsertNew PROVE StatesKept
<1>1. \A a \in Addrs : info[a] # NULL => info[a] \in ConnInfos
  BY DEF TypeInv, TableType
<1>2. CASE InsertFound
  <2> DEFINE a == conn_table[consumer.flow]
             n == info[a].packetnum + 1
  <2>1. info' = [info EXCEPT ![a].packetnum = n]
    BY <1>2 DEF InsertFound
  <2> HIDE DEF a, n
  <2> QED
    BY <1>1, <2>1 DEF StatesKept, TypeInv, TableType, ConnInfos
<1>3. CASE InsertCount
  <2> DEFINE a == consumer.msg.info
             n == info[a].pkt_ref_cnt + 1
  <2>1. info' = [info EXCEPT ![a] = [info[a] EXCEPT !.pkt_ref_cnt = n, !.idle = FALSE]]
    BY <1>3 DEF InsertCount
  <2> HIDE DEF a, n
  <2> QED
    BY <1>1, <2>1 DEF StatesKept, TypeInv, TableType, ConnInfos
<1>4. CASE InsertPush
  BY <1>4 DEF InsertPush, tablevars, StatesKept
<1> QED
  BY <1>2, <1>3, <1>4 DEF ConsumerStep, InsertOrUpdateFlows

\* Time that passes changes no connection and no classification.
LEMMA SilenceStates ==
  ASSUME TypeInv, Silence PROVE StatesKept
<1> DEFINE Aged(a) == [info[a] EXCEPT !.idle = TRUE]
<1>1. info' = [a \in Addrs |-> IF a \in LiveAddrs THEN Aged(a) ELSE info[a]]
  BY DEF Silence, Age
<1>2. \A a \in Addrs : info[a] # NULL =>
        Aged(a).dpi_state = info[a].dpi_state /\ Aged(a).class_state = info[a].class_state
  BY DEF TypeInv, TableType, ConnInfos
<1> HIDE DEF Aged
<1> QED
  BY <1>1, <1>2 DEF StatesKept

\* Destroying the connection of the entry at hand keeps who owns which connection.
LEMMA DestroyKeeps ==
  ASSUME TypeInv, ConnsOwned, NEW g \in Flows, conn_table[g] # NULL,
         navl_conn_destroy(info[conn_table[g]].dpi_state), it' = g, it = g \/ it = NULL,
         UNCHANGED conn_table
  PROVE  ConnsKept
<1>1. /\ Len(conns') = Len(conns)
      /\ \A x \in 1 .. Len(conns) :
           /\ conns'[x].handle = conns[x].handle
           /\ x # info[conn_table[g]].dpi_state => conns'[x] = conns[x]
  BY DestroyConns
<1>2. NULL \notin Nat /\ NULL \notin Flows
  BY NavlAssumption, AddrsAssumption
<1>3. ASSUME NEW f \in Flows \ {g}, conn_table[f] # NULL,
             NEW c \in 1 .. Len(conns), c = info[conn_table[f]].dpi_state
      PROVE  conns'[c] = conns[c]
  <2>1. conn_table[f] \in Addrs /\ info[conn_table[f]] # NULL /\ info[conn_table[f]].key = f
    BY <1>3 DEF TypeInv, PointersOK, TableOK, Allocated
  <2>2. conn_table[g] \in Addrs /\ info[conn_table[g]] # NULL /\ info[conn_table[g]].key = g
    BY DEF TypeInv, PointersOK, TableOK, Allocated
  <2>3. c # NULL
    BY <1>2, LenProperties DEF TypeInv, EngineType
  <2>4. info[conn_table[f]].dpi_state # info[conn_table[g]].dpi_state
    BY <1>3, <2>1, <2>2, <2>3 DEF ConnsOwned
  <2> QED
    BY <1>1, <1>3, <2>4
<1> QED
  BY <1>1, <1>2, <1>3 DEF ConnsKept

\* The cleanup thread keeps who owns which connection.
LEMMA CleanerKeeps ==
  ASSUME TypeInv, NavlInv, CleanerStep PROVE ConnsKept
<1>1. CASE CleanupDestroy
  <2>1. it \in Flows /\ conn_table[it] # NULL /\ UNCHANGED <<conn_table, it>>
    BY <1>1 DEF CleanupDestroy, TypeInv, LockInv, tablevars
  <2> QED
    BY <1>1, <2>1, DestroyKeeps DEF CleanupDestroy, NavlInv
<1>2. CASE CleanupErase
  <2>1. it \in Flows /\ it' = NULL /\ UNCHANGED conns /\ conn_table' = [conn_table EXCEPT ![it] = NULL]
    BY <1>2 DEF CleanupErase, Erase, TypeInv, LockInv
  <2> QED
    BY <2>1 DEF ConnsKept, TypeInv, TableType
<1>3. ASSUME NEW g \in Flows, CleanupVisit(g) PROVE ConnsKept
  <2>1. UNCHANGED conns /\ it = NULL
    BY <1>3 DEF CleanupVisit, TypeInv, LockInv
  <2>2. UNCHANGED conn_table \/ (conn_table' = [conn_table EXCEPT ![g] = NULL] /\ UNCHANGED it)
    BY <1>3 DEF CleanupVisit, Erase
  <2> QED
    BY <2>1, <2>2, AddrsAssumption DEF ConnsKept, TypeInv, TableType
<1>4. CASE CleanupWake \/ CleanupLock \/ CleanupUnlock
  BY <1>4, TableStill DEF CleanupWake, CleanupLock, CleanupUnlock, tablevars
<1> QED
  BY <1>1, <1>2, <1>3, <1>4 DEF CleanerStep, FlowTableCleanup

\* So does FlowTable's part of stop().
LEMMA StopperKeeps ==
  ASSUME TypeInv, NavlInv, TableStop PROVE ConnsKept
<1>1. ASSUME NEW g \in Flows, FinalDestroy(g) PROVE ConnsKept
  <2>1. it = NULL
    BY <1>1 DEF FinalDestroy, TypeInv, LockInv
  <2> QED
    BY <1>1, <2>1, DestroyKeeps DEF FinalDestroy, NavlInv
<1>2. CASE FinalErase
  <2>1. it \in Flows /\ it' = NULL /\ UNCHANGED conns /\ conn_table' = [conn_table EXCEPT ![it] = NULL]
    BY <1>2 DEF FinalErase, Erase, TypeInv, LockInv
  <2> QED
    BY <2>1 DEF ConnsKept, TypeInv, TableType
<1>3. CASE FinalLock \/ FinalUnlock \/ SendExit \/ SendExitsDone
  BY <1>3, TableStill DEF FinalLock, FinalUnlock, SendExit, SendExitsDone
<1> QED
  BY <1>1, <1>2, <1>3 DEF TableStop, FlowTableStop

\* Every step of another thread than the workers, except the insertion of an entry
\* and what is sent or taken at the data path's queue.
LEMMA StillNavl ==
  ASSUME TypeInv, NavlInv, EntriesKept, StatesKept, ConnsKept,
         UNCHANGED <<workers, dangled, updateDPQueue>>,
         \/ UNCHANGED pkts /\ (consumer' = consumer \/ consumer'.pc # "lookup")
         \/ pkts' = pkts + 1,
         stopper' \in {"idle", "join_cleanup", "delete", "erase"} =>
           stopper \in {"idle", "join_cleanup", "delete", "erase"}
  PROVE  NavlInv'
<1>1. ConnsOwned' /\ ConnMatchesEntry' /\ (~dangled => EntriesSound' /\ WorkSound' /\ DestroySound')
  BY StillSound
<1>2. ReportsSent' /\ OneReport' /\ ReportsBeforeExit' /\ (~dangled => ReportSound')
  BY StillReports
<1> QED
  BY <1>1, <1>2 DEF NavlInv

\* The data path thread takes the oldest result.
LEMMA DataPathNavl ==
  ASSUME TypeInv, NavlInv, DataPathStep PROVE NavlInv'
<1> USE DEF NavlInv
<1>1. /\ UNCHANGED <<conn_table, info, pkts, consumer, it, stopper, workers, dangled, conns>>
      /\ updateDPQueue # <<>> /\ updateDPQueue' = Tail(updateDPQueue)
  BY DEF DataPathStep, GetDPIFlowData, tablevars, consumervars, cleanupvars, stopvars, workervars
<1>2. ConnsOwned' /\ ConnMatchesEntry' /\ (~dangled => EntriesSound' /\ WorkSound' /\ DestroySound')
  BY <1>1, TableStill, EntriesSame, StillSound DEF StatesKept
<1>3. /\ Len(updateDPQueue) \in Nat /\ DOMAIN updateDPQueue = 1 .. Len(updateDPQueue)
      /\ Len(updateDPQueue') = Len(updateDPQueue) - 1
      /\ DOMAIN updateDPQueue' = 1 .. Len(updateDPQueue) - 1
      /\ \A i \in 1 .. Len(updateDPQueue) - 1 : updateDPQueue'[i] = updateDPQueue[i + 1]
  <2>1. updateDPQueue \in Seq(DPIFlowDatas \cup {ExitMessage})
    BY DEF TypeInv, EngineType
  <2>2. /\ Tail(updateDPQueue) \in Seq(DPIFlowDatas \cup {ExitMessage})
        /\ Len(Tail(updateDPQueue)) = Len(updateDPQueue) - 1
        /\ \A i \in 1 .. Len(updateDPQueue) - 1 : Tail(updateDPQueue)[i] = updateDPQueue[i + 1]
    BY <1>1, <2>1, HeadTailProperties
  <2> QED
    BY <1>1, <2>1, <2>2, LenProperties
<1>4. ASSUME NEW i \in DOMAIN updateDPQueue'
      PROVE  i \in Int /\ i + 1 \in DOMAIN updateDPQueue /\ updateDPQueue'[i] = updateDPQueue[i + 1]
  BY <1>3, <1>4
<1>5. ReportsSent'
  BY <1>1, <1>4 DEF ReportsSent
<1>6. ASSUME ~dangled PROVE ReportSound'
  BY <1>1, <1>4, <1>6 DEF ReportSound
<1>7. OneReport'
  <2> SUFFICES ASSUME ~dangled, NEW i \in DOMAIN updateDPQueue', NEW j \in DOMAIN updateDPQueue',
                      ~updateDPQueue'[i].exit_flag, ~updateDPQueue'[j].exit_flag, i # j
               PROVE  updateDPQueue'[i].gen # updateDPQueue'[j].gen
    BY <1>1 DEF OneReport
  <2>1. i + 1 # j + 1
    BY <1>4
  <2> QED
    BY <1>4, <2>1 DEF OneReport
<1>8. ReportsBeforeExit'
  <2> SUFFICES ASSUME ~dangled, NEW i \in DOMAIN updateDPQueue', updateDPQueue'[i].exit_flag
               PROVE  i = Len(updateDPQueue')
    BY <1>1 DEF ReportsBeforeExit
  <2>1. i + 1 = Len(updateDPQueue) /\ i \in Int
    BY <1>4 DEF ReportsBeforeExit
  <2> QED
    BY <1>3, <2>1
<1> QED
  BY <1>1, <1>2, <1>5, <1>6, <1>7, <1>8

\* stop() sends the exit message to the data path when the table is empty.
LEMMA FinalUnlockNavl ==
  ASSUME TypeInv, NavlInv, TableStop, FinalUnlock PROVE NavlInv'
<1> USE DEF NavlInv
<1>1. /\ UNCHANGED <<conn_table, info, pkts, consumer, it, workers, dangled, conns>>
      /\ updateDPQueue' = Append(updateDPQueue, ExitMessage)
      /\ stopper = "delete" /\ stopper' = "exits"
  BY StopperFrame DEF FinalUnlock
<1>2. ConnsOwned' /\ ConnMatchesEntry' /\ (~dangled => EntriesSound' /\ WorkSound' /\ DestroySound')
  BY <1>1, TableStill, EntriesSame, StillSound DEF StatesKept
<1>3. /\ Len(updateDPQueue) \in Nat /\ DOMAIN updateDPQueue = 1 .. Len(updateDPQueue)
      /\ Len(updateDPQueue') = Len(updateDPQueue) + 1
      /\ DOMAIN updateDPQueue' = 1 .. Len(updateDPQueue) + 1
      /\ \A i \in 1 .. Len(updateDPQueue) : updateDPQueue'[i] = updateDPQueue[i]
      /\ updateDPQueue'[Len(updateDPQueue) + 1] = ExitMessage
  <2>1. updateDPQueue \in Seq(DPIFlowDatas \cup {ExitMessage})
    BY DEF TypeInv, EngineType
  <2>2. /\ Append(updateDPQueue, ExitMessage) \in Seq(DPIFlowDatas \cup {ExitMessage})
        /\ Len(Append(updateDPQueue, ExitMessage)) = Len(updateDPQueue) + 1
        /\ \A i \in 1 .. Len(updateDPQueue) : Append(updateDPQueue, ExitMessage)[i] = updateDPQueue[i]
        /\ Append(updateDPQueue, ExitMessage)[Len(updateDPQueue) + 1] = ExitMessage
    BY <2>1, AppendedExit
  <2> QED
    BY <1>1, <2>1, <2>2, LenProperties
<1>4. ASSUME NEW i \in DOMAIN updateDPQueue'
      PROVE  \/ i \in DOMAIN updateDPQueue /\ updateDPQueue'[i] = updateDPQueue[i]
                  /\ ~updateDPQueue'[i].exit_flag
             \/ i = Len(updateDPQueue') /\ updateDPQueue'[i].exit_flag
  <2>1. CASE i = Len(updateDPQueue) + 1
    BY <1>3, <2>1 DEF ExitMessage
  <2>2. CASE i \in 1 .. Len(updateDPQueue)
    BY <1>1, <1>3, <2>2 DEF ReportsSent
  <2> QED
    BY <1>3, <1>4, <2>1, <2>2
<1>5. ReportsSent'
  BY <1>1, <1>4 DEF ReportsSent
<1>6. ASSUME ~dangled PROVE ReportSound'
  BY <1>1, <1>4, <1>6 DEF ReportSound
<1>7. OneReport' /\ ReportsBeforeExit'
  BY <1>1, <1>4 DEF OneReport, ReportsBeforeExit
<1> QED
  BY <1>1, <1>2, <1>5, <1>6, <1>7

\* An entry inserted at a free address has no connection and no message but its own.
LEMMA InsertNewNavl ==
  ASSUME TypeInv, OrderInv, NavlInv, ConsumerStep, InsertNew PROVE NavlInv'
<1> USE DEF NavlInv
<1>1. /\ UNCHANGED <<workers, dangled, conns, updateDPQueue, pkts, it, stopper>>
      /\ consumer.pc = "lookup"
  BY ConsumerFrame DEF InsertNew
<1>2. CASE numQueues = 0
  <2>1. consumer' = [consumer EXCEPT !.pc = "SIGFPE"] /\ UNCHANGED <<conn_table, info>>
    BY <1>2 DEF InsertNew, tablevars
  <2>2. consumer'.pc = "SIGFPE"
    BY <2>1 DEF TypeInv, TableType, Consumers
  <2> QED
    BY <1>1, <2>1, <2>2, TableStill, EntriesSame, StillNavl DEF StatesKept
<1>3. CASE numQueues # 0
  <2> DEFINE f == consumer.flow
             q == Hash[f] % numQueues
  <2>1. f \in Flows
    BY <1>1 DEF TypeInv, PointersOK, ConsumerOK
  <2>2. PICK a \in Addrs \ LiveAddrs :
          /\ conn_table' = [conn_table EXCEPT ![f] = a]
          /\ info' = [info EXCEPT ![a] = ConnInfo(f, q, pkts)]
          /\ consumer' = [consumer EXCEPT !.pc = "push", !.msg = ConnMetadata(a, pkts, 0, consumer.data)]
    BY <1>3 DEF InsertNew
  <2> HIDE DEF q
  <2>3. /\ info'[a].gen = pkts /\ info'[a].dpi_state = NULL /\ info'[a].class_state = INSPECTING
        /\ \A b \in Addrs \ {a} : info'[b] = info[b]
    BY <2>2 DEF TypeInv, TableType, ConnInfo
  <2>4. /\ consumer'.pc = "push"
        /\ \A g \in Flows : g # f => conn_table'[g] = conn_table[g] /\ conn_table[g] # a
        /\ conn_table'[f] = a
    <3>1. consumer'.pc = "push"
      BY <2>2 DEF TypeInv, TableType, Consumers
    <3>2. \A g \in Flows : conn_table[g] # a
      BY <2>2, AddrsAssumption DEF LiveAddrs
    <3> HIDE DEF f
    <3>3. conn_table'[f] = a /\ \A g \in Flows : g # f => conn_table'[g] = conn_table[g]
      BY <2>1, <2>2 DEF TypeInv, TableType
    <3> QED
      BY <3>1, <3>2, <3>3
  <2>5. ASSUME NEW w \in Queues, workers[w].m # NULL
        PROVE  workers[w].m.gen # pkts /\ workers[w].m.info \in Addrs /\ info[workers[w].m.info] # NULL
    <3>1. workers[w].m \in ConnMetadatas /\ Len(dpiQueues[w]) \in Nat
      BY <2>5, LenProperties DEF TypeInv, EngineType, Workers
    <3>2. 0 \in Held(workers, dpiQueues, w) /\ Slot(workers, dpiQueues, w, 0) = workers[w].m
      BY <3>1 DEF Held, Slot
    <3>3. workers[w].m.gen < pkts /\ workers[w].m.gen \in Nat /\ pkts \in Nat
      BY <1>1, <3>1, <3>2 DEF OrderInv, HeldInv, ConnMetadatas, TypeInv, TableType
    <3>4. workers[w].m.info \in Addrs /\ info[workers[w].m.info] # NULL
      BY <2>5 DEF TypeInv, PointersOK, WorkersOK, Allocated
    <3> QED
      BY <3>3, <3>4
  <2>6. ConnsOwned'
    BY <1>1, <2>3 DEF ConnsOwned
  <2>7. ASSUME ~dangled PROVE EntriesSound'
    BY <1>1, <2>3, <2>7 DEF EntriesSound
  <2>8. ASSUME NEW w \in Queues, Owns(w)'
        PROVE  Owns(w) /\ workers[w].m.info # a /\ info'[workers[w].m.info] = info[workers[w].m.info]
    BY <1>1, <2>3, <2>5, <2>8 DEF Owns
  <2>9. ASSUME ~dangled PROVE WorkSound' /\ DestroySound'
    <3>1. WorkSound'
      BY <1>1, <2>8, <2>9 DEF WorkSound
    <3>2. DestroySound'
      BY <1>1, <2>4, <2>8, <2>9 DEF DestroySound
    <3> QED
      BY <3>1, <3>2
  <2>10. ReportsSent' /\ OneReport' /\ ReportsBeforeExit'
    BY <1>1, <2>4 DEF ReportsSent, OneReport, ReportsBeforeExit
  <2>11. ASSUME ~dangled PROVE ReportSound'
    <3>1. \A i \in DOMAIN updateDPQueue : ~updateDPQueue[i].exit_flag => updateDPQueue[i].gen # pkts
      <4>1. pkts \in Nat
        BY DEF TypeInv, TableType
      <4> QED
        BY <1>1, <4>1, ReportTypes DEF ReportsSent
    <3> QED
      BY <1>1, <2>3, <2>11, <3>1 DEF ReportSound
  <2>12. ConnMatchesEntry'
    <3> SUFFICES ASSUME ~dangled, NEW g \in Flows \ {it}, conn_table'[g] # NULL,
                        info'[conn_table'[g]].dpi_state # NULL
                 PROVE  LET i == info'[conn_table'[g]]
                            d == conns[i.dpi_state].destroys
                        IN  \/ ~Finished(i.class_state) /\ d = 0
                            \/ Finished(i.class_state) /\ d = 1
                            \/ /\ Finished(i.class_state) /\ d = 0
                               /\ \E w \in Queues : workers[w].pc = "destroy"
                                                     /\ workers[w].found = conn_table'[g]
      BY <1>1 DEF ConnMatchesEntry, Finished
    <3>1. g # f
      BY <2>3, <2>4
    <3>2. conn_table[g] \in Addrs \ {a} /\ conn_table'[g] = conn_table[g]
      BY <2>4, <3>1 DEF TypeInv, TableType
    <3>3. info'[conn_table[g]] = info[conn_table[g]]
      BY <2>3, <3>2
    <3> QED
      BY <3>2, <3>3 DEF ConnMatchesEntry
  <2> QED
    BY <1>1, <2>6, <2>7, <2>9, <2>10, <2>11, <2>12
<1> QED
  BY <1>2, <1>3

\* An entry in the table that worker w's message points to is no other worker's.
LEMMA LiveMessage ==
  ASSUME TypeInv, OrderInv, NEW w \in Queues, workers[w].m # NULL,
         LivePointer(workers[w].m.info, workers[w].m.gen)
  PROVE  /\ workers[w].m.info \in Addrs /\ info[workers[w].m.info] \in ConnInfos
         /\ info[workers[w].m.info] # NULL /\ info[workers[w].m.info].gen = workers[w].m.gen
         /\ info[workers[w].m.info].queue = w
         /\ conn_table[info[workers[w].m.info].key] = workers[w].m.info
         /\ stopper \in {"idle", "join_cleanup", "delete", "erase"}
         /\ \A v \in Queues \ {w} : workers[v].m # NULL =>
              /\ workers[v].m.gen # workers[w].m.gen
              /\ info[workers[v].m.info].gen = workers[v].m.gen => workers[v].m.info # workers[w].m.info
<1>1. workers[w].m.info \in LiveAddrs /\ info[workers[w].m.info].gen = workers[w].m.gen
  BY DEF LivePointer
<1>2. workers[w].m.info \in Addrs /\ info[workers[w].m.info] # NULL
  BY DEF TypeInv, PointersOK, WorkersOK, Allocated
<1>3. info[workers[w].m.info] \in ConnInfos
  BY <1>2 DEF TypeInv, TableType
<1>4. conn_table[info[workers[w].m.info].key] = workers[w].m.info
  <2>1. PICK f \in Flows : conn_table[f] = workers[w].m.info /\ conn_table[f] # NULL
    BY <1>1 DEF LiveAddrs
  <2> QED
    BY <2>1 DEF TypeInv, PointersOK, TableOK
<1>5. stopper \in {"idle", "join_cleanup", "delete", "erase"}
  BY <1>1 DEF TypeInv, LockInv, TableType
<1>6. ASSUME NEW v \in Queues, workers[v].m # NULL
      PROVE  0 \in Held(workers, dpiQueues, v) /\ Slot(workers, dpiQueues, v, 0) = workers[v].m
  <2>1. workers[v].m \in ConnMetadatas /\ dpiQueues[v] \in Seq(ConnMetadatas \cup {ExitMessage})
    BY <1>6 DEF TypeInv, EngineType, Workers
  <2>2. Len(dpiQueues[v]) \in Nat
    BY <2>1, LenProperties
  <2> QED
    BY <2>1, <2>2 DEF Held, Slot
<1>7. info[workers[w].m.info].queue = w
  BY <1>1, <1>2, <1>6 DEF OrderInv, HeldInv
<1>8. ASSUME NEW v \in Queues \ {w}, workers[v].m # NULL PROVE workers[v].m.gen # workers[w].m.gen
  BY <1>6, <1>8 DEF OrderInv, HeldOrder
<1> QED
  BY <1>1, <1>2, <1>3, <1>4, <1>5, <1>7, <1>8

\* A step of worker w that writes to nothing but the worker.
LEMMA LocalNavl ==
  ASSUME TypeInv, NavlInv, NEW w \in Queues, Moves(w),
         UNCHANGED <<info, conns, conn_table, it, updateDPQueue, pkts, consumer, stopper>>,
         dangled => dangled',
         workers[w].pc # "destroy", workers'[w].pc # "destroy",
         ~dangled' /\ workers'[w].pc \in {"create", "classify", "callback"} \cup InCallback =>
           LET m == workers'[w].m
           IN  /\ workers'[w].pc \in InCallback => workers'[w].found = m.info /\ workers'[w].gen = m.gen
               /\ m # NULL /\ info[m.info].gen = m.gen =>
                    /\ workers'[w].pc = "create" => info[m.info].dpi_state = NULL
                    /\ workers'[w].pc # "create" => info[m.info].dpi_state # NULL
                    /\ workers'[w].pc \in {"classify", "callback", "update"} =>
                         info[m.info].class_state = INSPECTING
                    /\ workers'[w].pc = "report" => Finished(info[m.info].class_state)
               /\ workers'[w].pc # "create" => \A i \in DOMAIN updateDPQueue :
                    ~updateDPQueue[i].exit_flag => m.gen # updateDPQueue[i].gen
  PROVE  NavlInv'
<1> USE DEF NavlInv
<1>1. \A v \in Queues \ {w} : workers'[v] = workers[v]
  BY DEF Moves
<1>2. ConnsOwned' /\ ReportsSent' /\ OneReport' /\ ReportsBeforeExit'
  BY DEF ConnsOwned, ReportsSent, OneReport, ReportsBeforeExit
<1>3. ConnMatchesEntry'
  <2> SUFFICES ASSUME ~dangled, NEW f \in Flows \ {it}, conn_table[f] # NULL,
                      info[conn_table[f]].dpi_state # NULL
               PROVE  LET i == info[conn_table[f]]
                          d == conns[i.dpi_state].destroys
                      IN  \/ ~Finished(i.class_state) /\ d = 0
                          \/ Finished(i.class_state) /\ d = 1
                          \/ /\ Finished(i.class_state) /\ d = 0
                             /\ \E v \in Queues : workers'[v].pc = "destroy"
                                                   /\ workers'[v].found = conn_table[f]
    BY DEF ConnMatchesEntry, Finished
  <2> QED
    BY <1>1 DEF ConnMatchesEntry
<1>4. ASSUME ~dangled' PROVE EntriesSound' /\ DestroySound'
  <2>1. EntriesSound'
    BY <1>4 DEF EntriesSound
  <2>2. DestroySound'
    BY <1>1, <1>4 DEF DestroySound, Owns
  <2> QED
    BY <2>1, <2>2
<1>5. ASSUME ~dangled' PROVE WorkSound' /\ ReportSound'
  <2>1. WorkSound'
    <3> SUFFICES ASSUME NEW v \in Queues
                 PROVE  /\ workers'[v].pc \in InCallback =>
                             workers'[v].found = workers'[v].m.info /\ workers'[v].gen = workers'[v].m.gen
                        /\ workers'[v].m # NULL /\ info[workers'[v].m.info].gen = workers'[v].m.gen =>
                             /\ workers'[v].pc = "create" => info[workers'[v].m.info].dpi_state = NULL
                             /\ workers'[v].pc \in {"classify", "callback"} \cup InCallback =>
                                  info[workers'[v].m.info].dpi_state # NULL
                             /\ workers'[v].pc \in {"classify", "callback", "update"} =>
                                  info[workers'[v].m.info].class_state = INSPECTING
                             /\ workers'[v].pc \in {"destroy", "report"} =>
                                  Finished(info[workers'[v].m.info].class_state)
      BY DEF WorkSound, Owns, Finished
    <3>1. CASE v = w
      BY <1>5, <3>1 DEF InCallback
    <3>2. CASE v # w
      BY <1>1, <1>5, <3>2 DEF WorkSound, Owns
    <3> QED
      BY <3>1, <3>2
  <2>2. ReportSound'
    <3> SUFFICES ASSUME NEW i \in DOMAIN updateDPQueue, ~updateDPQueue[i].exit_flag
                 PROVE  /\ \A a \in Addrs : info[a] # NULL /\ info[a].gen = updateDPQueue[i].gen =>
                             Finished(info[a].class_state)
                        /\ \A v \in Queues : workers'[v].pc \in {"classify", "callback"} \cup InCallback =>
                             workers'[v].m.gen # updateDPQueue[i].gen
      BY DEF ReportSound, Finished
    <3>1. ASSUME NEW v \in Queues, workers'[v].pc \in {"classify", "callback"} \cup InCallback
          PROVE  workers'[v].m.gen # updateDPQueue[i].gen
      <4>1. CASE v = w
        BY <1>5, <3>1, <4>1 DEF InCallback
      <4>2. CASE v # w
        BY <1>1, <1>5, <3>1, <4>2 DEF ReportSound
      <4> QED
        BY <4>1, <4>2
    <3> QED
      BY <1>5, <3>1 DEF ReportSound
  <2> QED
    BY <2>1, <2>2
<1> QED
  BY <1>2, <1>3, <1>4, <1>5

\* The steps of a worker that only looks at its entry, or leaves its loop.
LEMMA LookNavl ==
  ASSUME TypeInv, OrderInv, NavlInv, NEW w \in Queues, WorkerStep(w),
         \/ Dequeue(w) \/ Examine(w) \/ Classify(w) \/ CallbackFind(w) \/ Throw(w)
         \/ CatchDecrement(w) \/ CatchClear(w)
  PROVE  NavlInv'
<1> USE DEF NavlInv
<1>1. UNCHANGED <<info, conns, conn_table, it, updateDPQueue, pkts, consumer, stopper>>
  BY WorkerFrame DEF Dequeue, Examine, Classify, CallbackFind, Throw, CatchDecrement, CatchClear, tablevars
<1>2. dangled => dangled'
  BY DEF Dequeue, Examine, Classify, CallbackFind, Throw, CatchDecrement, CatchClear, UseMessage,
         TypeInv, EngineType
<1>3. workers[w] \in Workers /\ workers \in [Queues -> Workers]
  BY DEF TypeInv, EngineType
<1>4. workers[w].pc \in Working => workers[w].m # NULL
  BY DEF TypeInv, PointersOK, WorkersOK
<1>5. ASSUME Continue(w), workers[w].pc # "destroy" PROVE NavlInv'
  <2>1. Moves(w) /\ workers'[w].pc = "pop"
    BY <1>5, ContinueMoves
  <2> QED
    BY <1>1, <1>2, <1>5, <2>1, LocalNavl DEF InCallback
<1>6. ASSUME NEW pc \in {"catch", "clear", "stuck", "done"}, Goto(w, pc), workers[w].pc # "destroy"
      PROVE  NavlInv'
  <2>1. Moves(w) /\ workers'[w].pc = pc
    BY <1>6, GotoMoves DEF OutOfService
  <2> QED
    BY <1>1, <1>2, <1>6, <2>1, LocalNavl DEF InCallback
<1>7. CASE Dequeue(w)
  <2> DEFINE m == Head(dpiQueues[w])
             r == [workers[w] EXCEPT !.pc = "examine", !.m = m]
  <2>1. workers[w].pc = "pop"
    BY <1>7 DEF Dequeue
  <2>2. CASE m.exit_flag
    <3>1. Goto(w, "done")
      BY <1>7, <2>2 DEF Dequeue, Goto
    <3> QED
      BY <1>6, <2>1, <3>1
  <2>3. CASE ~m.exit_flag
    <3>1. workers' = [workers EXCEPT ![w] = r]
      BY <1>3, <1>7, <2>3 DEF Dequeue
    <3>2. workers' \in [Queues -> Workers]
      <4>1. TypeInv'
        BY <1>7, DequeueType
      <4> QED
        BY <4>1 DEF TypeInv, EngineType
    <3>3. r.pc = "examine"
      BY <1>3 DEF Workers
    <3> HIDE DEF r
    <3>4. Moves(w) /\ workers'[w].pc = "examine"
      BY <1>3, <3>1, <3>2, <3>3 DEF Moves
    <3> QED
      BY <1>1, <1>2, <2>1, <3>4, LocalNavl DEF InCallback
  <2> QED
    BY <2>2, <2>3
<1>8. CASE Throw(w) \/ CatchDecrement(w) \/ CatchClear(w)
  BY <1>6, <1>8 DEF Throw, CatchDecrement, CatchClear
<1> DEFINE a == workers[w].m.info
<1>9. CASE Examine(w)
  <2>1. workers[w].pc = "examine" /\ dangled' = (dangled \/ ~LivePointer(a, workers[w].m.gen))
    BY <1>9 DEF Examine, UseMessage
  <2>2. CASE Continue(w)
    BY <1>5, <2>1, <2>2
  <2>3. CASE Goto(w, "create") /\ info[a].dpi_state = NULL
    <3>1. Moves(w) /\ workers'[w].pc = "create" /\ workers'[w].m = workers[w].m
      BY <2>3, GotoMoves DEF Working
    <3> QED
      BY <1>1, <1>2, <2>1, <2>3, <3>1, LocalNavl DEF InCallback
  <2>4. CASE Goto(w, "classify") /\ info[a].dpi_state # NULL /\ info[a].class_state = INSPECTING
    <3>1. Moves(w) /\ workers'[w].pc = "classify" /\ workers'[w].m = workers[w].m
      BY <2>4, GotoMoves DEF Working
    <3>2. ASSUME ~dangled', NEW i \in DOMAIN updateDPQueue, ~updateDPQueue[i].exit_flag
          PROVE  workers[w].m.gen # updateDPQueue[i].gen
      <4>1. ~dangled /\ LivePointer(a, workers[w].m.gen) /\ workers[w].m # NULL
        BY <1>4, <2>1, <3>2 DEF Working
      <4>2. a \in Addrs /\ info[a] # NULL /\ info[a].gen = workers[w].m.gen
        BY <4>1, LiveMessage
      <4>3. ~Finished(info[a].class_state)
        BY <2>4 DEF Finished, INSPECTING, CLASSIFIED, TERMINATED
      <4> QED
        BY <3>2, <4>1, <4>2, <4>3 DEF ReportSound
    <3> QED
      BY <1>1, <1>2, <2>1, <2>4, <3>1, <3>2, LocalNavl DEF InCallback
  <2> QED
    BY <1>9, <2>2, <2>3, <2>4 DEF Examine
<1>10. CASE Classify(w)
  <2>1. workers[w].pc = "classify" /\ dangled' = (dangled \/ ~LivePointer(a, workers[w].m.gen))
    BY <1>10 DEF Classify, UseMessage
  <2>2. CASE Continue(w)
    BY <1>5, <2>1, <2>2
  <2>3. ASSUME NEW s \in NavlStates, NEW e \in BOOLEAN,
               workers' = [workers EXCEPT ![w].pc = "callback", ![w].state = s, ![w].error = e]
        PROVE  NavlInv'
    <3> DEFINE r == [workers[w] EXCEPT !.pc = "callback", !.state = s, !.error = e]
    <3>1. workers' = [workers EXCEPT ![w] = r]
      BY <1>3, <2>3
    <3>2. workers' \in [Queues -> Workers]
      <4>1. TypeInv'
        BY <1>10, LocalStepType
      <4> QED
        BY <4>1 DEF TypeInv, EngineType
    <3>3. r.pc = "callback" /\ r.m = workers[w].m
      BY <1>3 DEF Workers
    <3> HIDE DEF r
    <3>4. Moves(w) /\ workers'[w].pc = "callback" /\ workers'[w].m = workers[w].m
      BY <1>3, <3>1, <3>2, <3>3 DEF Moves
    <3>5. ASSUME ~dangled', info[a].gen = workers[w].m.gen, workers[w].m # NULL
          PROVE  info[a].dpi_state # NULL /\ info[a].class_state = INSPECTING
      BY <1>2, <2>1, <3>5 DEF WorkSound, Owns
    <3>6. ASSUME ~dangled', NEW i \in DOMAIN updateDPQueue, ~updateDPQueue[i].exit_flag
          PROVE  workers[w].m.gen # updateDPQueue[i].gen
      BY <1>2, <2>1, <3>6 DEF ReportSound
    <3> QED
      BY <1>1, <1>2, <2>1, <3>4, <3>5, <3>6, LocalNavl DEF InCallback
  <2> QED
    BY <1>10, <2>2, <2>3 DEF Classify
<1>11. CASE CallbackFind(w)
  <2> DEFINE b == FindInfo(a)
             g == info[b].gen
             r == [workers[w] EXCEPT !.pc = "update", !.found = b, !.gen = g]
  <2>1. workers[w].pc = "callback" /\ dangled' = (dangled \/ ~LivePointer(a, workers[w].m.gen))
    BY <1>11 DEF CallbackFind, UseMessage
  <2>2. CASE Continue(w)
    BY <1>5, <1>11, <2>1, <2>2 DEF CallbackFind
  <2>3. CASE ~Continue(w)
    <3>1. workers' = [workers EXCEPT ![w].pc = "update", ![w].found = b, ![w].gen = g]
      BY <1>11, <2>3 DEF CallbackFind
    <3>2. workers' \in [Queues -> Workers]
      <4>1. TypeInv'
        BY <1>11, LocalStepType
      <4> QED
        BY <4>1 DEF TypeInv, EngineType
    <3>3. ASSUME ~dangled' PROVE b = a /\ g = workers[w].m.gen
      BY <1>4, <2>1, <3>3, LiveMessage DEF FindInfo, Working
    <3> HIDE DEF b, g
    <3>4. workers' = [workers EXCEPT ![w] = r]
      BY <1>3, <3>1
    <3>5. r.pc = "update" /\ r.m = workers[w].m /\ r.found = b /\ r.gen = g
      BY <1>3 DEF Workers
    <3> HIDE DEF r
    <3>6. /\ Moves(w) /\ workers'[w].pc = "update" /\ workers'[w].m = workers[w].m
          /\ workers'[w].found = b /\ workers'[w].gen = g
      BY <1>3, <3>2, <3>4, <3>5 DEF Moves
    <3>7. ASSUME ~dangled', info[a].gen = workers[w].m.gen, workers[w].m # NULL
          PROVE  info[a].dpi_state # NULL /\ info[a].class_state = INSPECTING
      BY <1>2, <2>1, <3>7 DEF WorkSound, Owns
    <3>8. ASSUME ~dangled', NEW i \in DOMAIN updateDPQueue, ~updateDPQueue[i].exit_flag
          PROVE  workers[w].m.gen # updateDPQueue[i].gen
      BY <1>2, <2>1, <3>8 DEF ReportSound
    <3> QED
      BY <1>1, <1>2, <2>1, <3>3, <3>6, <3>7, <3>8, LocalNavl DEF InCallback
  <2> QED
    BY <2>2, <2>3
<1> QED
  BY <1>7, <1>8, <1>9, <1>10, <1>11

\* Worker w writes to nothing but the entry at address a and its connection.
WritesEntry(w, a) ==
  /\ Moves(w) /\ UNCHANGED <<conn_table, it, updateDPQueue>>
  /\ \A b \in Addrs \ {a} : info'[b] = info[b]
  /\ \A c \in 1 .. Len(conns) : c # info[a].dpi_state => conns'[c] = conns[c]

\* How worker w leaves that entry, and what it does next.
LeavesEntry(w, a) ==
  /\ info'[a].dpi_state # NULL /\ conns'[info'[a].dpi_state].handle = w
  /\ \/ workers'[w].m = NULL /\ workers'[w].pc = "pop"
     \/ /\ workers'[w].m = workers[w].m /\ workers'[w].pc \in {"destroy", "report"}
        /\ workers'[w].found = a /\ workers'[w].gen = workers[w].m.gen
        /\ Finished(info'[a].class_state)
  /\ \A f \in Flows \ {it} : conn_table[f] = a =>
       LET d == conns'[info'[a].dpi_state].destroys
       IN  /\ workers'[w].pc = "destroy" => d = 0
           /\ \/ ~Finished(info'[a].class_state) /\ d = 0
              \/ Finished(info'[a].class_state) /\ d = 1
              \/ Finished(info'[a].class_state) /\ d = 0 /\ workers'[w].pc = "destroy"

\* No report of the entry worker w works on is on its way to the data path.
Unreported(w) ==
  \A i \in DOMAIN updateDPQueue :
    ~updateDPQueue[i].exit_flag => updateDPQueue[i].gen # workers[w].m.gen

\* A step of worker w that writes to its entry, which is in the table, or to the
\* connection of it: what holds of the entry afterwards is all there is to show.
LEMMA WriteNavl ==
  ASSUME TypeInv, OrderInv, NavlInv, EntriesKept, NEW w \in Queues, ~dangled,
         workers[w].m # NULL, LivePointer(workers[w].m.info, workers[w].m.gen),
         NEW a \in Addrs, a = workers[w].m.info,
         WritesEntry(w, a), LeavesEntry(w, a), Unreported(w)
  PROVE  EntriesSound' /\ WorkSound' /\ DestroySound' /\ ReportSound' /\ ConnMatchesEntry'
<1>0. EntriesSound /\ WorkSound /\ DestroySound /\ ReportSound /\ ConnMatchesEntry /\ ConnsOwned
  BY DEF NavlInv
<1>1. /\ workers' \in [Queues -> Workers] /\ UNCHANGED <<conn_table, it, updateDPQueue>>
      /\ \A v \in Queues \ {w} : workers'[v] = workers[v]
      /\ \A b \in Addrs \ {a} : info'[b] = info[b]
  BY DEF Moves, WritesEntry
<1>2. /\ info[a] # NULL /\ info[a].gen = workers[w].m.gen /\ info[a].queue = w
      /\ \A v \in Queues \ {w} : workers[v].m # NULL =>
           /\ workers[v].m.gen # workers[w].m.gen
           /\ info[workers[v].m.info].gen = workers[v].m.gen => workers[v].m.info # a
  BY LiveMessage
<1>3. info'[a].gen = info[a].gen /\ info'[a].queue = w /\ info'[a] # NULL
  BY <1>2 DEF EntriesKept
<1>4. ASSUME NEW b \in Addrs \ {a}, info[b] # NULL, info[b].dpi_state # NULL
      PROVE  conns'[info[b].dpi_state] = conns[info[b].dpi_state]
  BY <1>0, <1>2, <1>4 DEF ConnsOwned, WritesEntry
<1>5. EntriesSound'
  <2> SUFFICES ASSUME NEW b \in Addrs, info'[b] # NULL
               PROVE  /\ info'[b].dpi_state = NULL => info'[b].class_state = INSPECTING
                      /\ info'[b].dpi_state # NULL => conns'[info'[b].dpi_state].handle = info'[b].queue
    BY DEF EntriesSound
  <2>1. CASE b = a
    BY <1>3, <2>1 DEF LeavesEntry
  <2>2. CASE b # a
    <3>1. info'[b] = info[b] /\ info[b] # NULL
      BY <1>1, <2>2
    <3>2. /\ info[b].dpi_state = NULL => info[b].class_state = INSPECTING
          /\ info[b].dpi_state # NULL => conns[info[b].dpi_state].handle = info[b].queue
      BY <1>0, <3>1 DEF EntriesSound
    <3> QED
      BY <1>4, <2>2, <3>1, <3>2
  <2> QED
    BY <2>1, <2>2
<1>6. ASSUME NEW v \in Queues \ {w}, workers[v].m # NULL
      PROVE  /\ workers[v].m.info \in Addrs /\ info[workers[v].m.info] # NULL
             /\ info'[workers[v].m.info].gen = workers[v].m.gen =>
                  /\ info[workers[v].m.info].gen = workers[v].m.gen
                  /\ workers[v].m.info # a /\ info'[workers[v].m.info] = info[workers[v].m.info]
  <2>1. workers[v].m.info \in Addrs /\ info[workers[v].m.info] # NULL
    BY <1>6 DEF TypeInv, PointersOK, WorkersOK, Allocated
  <2>2. info'[workers[v].m.info].gen = info[workers[v].m.info].gen
    BY <2>1 DEF EntriesKept
  <2> QED
    BY <1>1, <1>2, <1>6, <2>1, <2>2
<1>7. WorkSound'
  <2> SUFFICES ASSUME NEW v \in Queues
               PROVE  /\ workers'[v].pc \in InCallback =>
                           workers'[v].found = workers'[v].m.info /\ workers'[v].gen = workers'[v].m.gen
                      /\ workers'[v].m # NULL /\ info'[workers'[v].m.info].gen = workers'[v].m.gen =>
                           /\ workers'[v].pc = "create" => info'[workers'[v].m.info].dpi_state = NULL
                           /\ workers'[v].pc \in {"classify", "callback"} \cup InCallback =>
                                info'[workers'[v].m.info].dpi_state # NULL
                           /\ workers'[v].pc \in {"classify", "callback", "update"} =>
                                info'[workers'[v].m.info].class_state = INSPECTING
                           /\ workers'[v].pc \in {"destroy", "report"} =>
                                Finished(info'[workers'[v].m.info].class_state)
    BY DEF WorkSound, Owns, Finished
  <2>1. CASE v = w
    BY <2>1 DEF InCallback, LeavesEntry
  <2>2. CASE v # w
    <3>1. workers'[v] = workers[v]
      BY <1>1, <2>2
    <3>2. ASSUME workers[v].m # NULL, info'[workers[v].m.info].gen = workers[v].m.gen
          PROVE  info'[workers[v].m.info] = info[workers[v].m.info] /\ Owns(v)
      BY <1>6, <2>2, <3>2 DEF Owns
    <3>3. /\ workers[v].pc \in InCallback =>
               workers[v].found = workers[v].m.info /\ workers[v].gen = workers[v].m.gen
          /\ Owns(v) =>
               /\ workers[v].pc = "create" => info[workers[v].m.info].dpi_state = NULL
               /\ workers[v].pc \in {"classify", "callback"} \cup InCallback =>
                    info[workers[v].m.info].dpi_state # NULL
               /\ workers[v].pc \in {"classify", "callback", "update"} =>
                    info[workers[v].m.info].class_state = INSPECTING
               /\ workers[v].pc \in {"destroy", "report"} =>
                    Finished(info[workers[v].m.info].class_state)
      BY <1>0 DEF WorkSound
    <3> QED
      BY <3>1, <3>2, <3>3
  <2> QED
    BY <2>1, <2>2
<1>8. DestroySound'
  <2> SUFFICES ASSUME NEW v \in Queues, NEW f \in Flows \ {it}, workers'[v].pc = "destroy",
                      workers'[v].m # NULL, info'[workers'[v].m.info].gen = workers'[v].m.gen,
                      conn_table[f] = workers'[v].m.info
               PROVE  conns'[info'[workers'[v].m.info].dpi_state].destroys = 0
    BY <1>1 DEF DestroySound, Owns
  <2>1. CASE v = w
    BY <2>1 DEF LeavesEntry
  <2>2. CASE v # w
    <3>1. /\ workers[v].pc = "destroy" /\ workers[v].m # NULL /\ workers'[v].m = workers[v].m
          /\ workers[v].m.info \in Addrs \ {a} /\ info[workers[v].m.info] # NULL
          /\ info[workers[v].m.info].gen = workers[v].m.gen
          /\ info'[workers[v].m.info] = info[workers[v].m.info]
      BY <1>1, <1>6, <2>2
    <3>2. info[workers[v].m.info].dpi_state # NULL
      BY <1>0, <3>1 DEF WorkSound, Owns, InCallback
    <3>3. conns[info[workers[v].m.info].dpi_state].destroys = 0
      BY <1>0, <3>1 DEF DestroySound, Owns
    <3> QED
      BY <1>4, <3>1, <3>2, <3>3
  <2> QED
    BY <2>1, <2>2
<1>9. ReportSound'
  <2> SUFFICES ASSUME NEW i \in DOMAIN updateDPQueue, ~updateDPQueue[i].exit_flag
               PROVE  /\ \A b \in Addrs : info'[b] # NULL /\ info'[b].gen = updateDPQueue[i].gen =>
                           Finished(info'[b].class_state)
                      /\ \A v \in Queues : workers'[v].pc \in {"classify", "callback"} \cup InCallback =>
                           workers'[v].m.gen # updateDPQueue[i].gen
    BY <1>1 DEF ReportSound, Finished
  <2>1. ASSUME NEW b \in Addrs, info'[b] # NULL, info'[b].gen = updateDPQueue[i].gen
        PROVE  Finished(info'[b].class_state)
    <3>1. b # a
      BY <1>2, <1>3, <2>1 DEF Unreported
    <3> QED
      BY <1>0, <1>1, <2>1, <3>1 DEF ReportSound
  <2>2. ASSUME NEW v \in Queues, workers'[v].pc \in {"classify", "callback"} \cup InCallback
        PROVE  workers'[v].m.gen # updateDPQueue[i].gen
    <3>1. CASE v = w
      BY <2>2, <3>1 DEF InCallback, LeavesEntry, Unreported
    <3>2. CASE v # w
      <4>1. workers'[v] = workers[v]
        BY <1>1, <3>2
      <4>2. workers[v].pc \in {"classify", "callback"} \cup InCallback =>
              workers[v].m.gen # updateDPQueue[i].gen
        BY <1>0 DEF ReportSound
      <4> QED
        BY <2>2, <4>1, <4>2
    <3> QED
      BY <3>1, <3>2
  <2> QED
    BY <2>1, <2>2
<1>10. ConnMatchesEntry'
  <2> SUFFICES ASSUME NEW f \in Flows \ {it}, conn_table[f] # NULL, info'[conn_table[f]].dpi_state # NULL
               PROVE  LET i == info'[conn_table[f]]
                          d == conns'[i.dpi_state].destroys
                      IN  \/ ~Finished(i.class_state) /\ d = 0
                          \/ Finished(i.class_state) /\ d = 1
                          \/ /\ Finished(i.class_state) /\ d = 0
                             /\ \E v \in Queues : workers'[v].pc = "destroy"
                                                   /\ workers'[v].found = conn_table[f]
    BY <1>1 DEF ConnMatchesEntry, Finished
  <2>1. CASE conn_table[f] = a
    BY <2>1 DEF LeavesEntry
  <2>2. CASE conn_table[f] # a
    <3>1. conn_table[f] \in Addrs \ {a} /\ info[conn_table[f]] # NULL
      BY <2>2 DEF TypeInv, PointersOK, TableOK, Allocated
    <3>2. info'[conn_table[f]] = info[conn_table[f]]
      BY <1>1, <3>1
    <3>3. conns'[info[conn_table[f]].dpi_state] = conns[info[conn_table[f]].dpi_state]
      BY <1>4, <3>1, <3>2
    <3>4. workers[w].pc = "destroy" => workers[w].found = a
      BY <1>0 DEF WorkSound, InCallback
    <3>5. LET i == info[conn_table[f]]
              d == conns[i.dpi_state].destroys
          IN  \/ ~Finished(i.class_state) /\ d = 0
              \/ Finished(i.class_state) /\ d = 1
              \/ /\ Finished(i.class_state) /\ d = 0
                 /\ \E v \in Queues : workers[v].pc = "destroy" /\ workers[v].found = conn_table[f]
      BY <1>0, <3>2 DEF ConnMatchesEntry
    <3>6. ASSUME NEW v \in Queues, workers[v].pc = "destroy", workers[v].found = conn_table[f]
          PROVE  workers'[v].pc = "destroy" /\ workers'[v].found = conn_table[f]
      BY <1>1, <2>2, <3>4, <3>6
    <3> QED
      BY <3>2, <3>3, <3>5, <3>6
  <2> QED
    BY <2>1, <2>2
<1> QED
  BY <1>5, <1>7, <1>8, <1>9, <1>10

\* Worker w writes, and uses no erased entry when the entry it works on is live.
LEMMA WriteStep ==
  ASSUME TypeInv, OrderInv, NavlInv, EntriesKept, NEW w \in Queues, ConnsOwned',
         UNCHANGED <<updateDPQueue, pkts, consumer, stopper>>,
         ~dangled' => EntriesSound' /\ WorkSound' /\ DestroySound' /\ ReportSound' /\ ConnMatchesEntry',
         dangled => dangled'
  PROVE  NavlInv'
<1>1. ReportsSent' /\ OneReport' /\ ReportsBeforeExit'
  BY DEF NavlInv, ReportsSent, OneReport, ReportsBeforeExit
<1> QED
  BY <1>1 DEF NavlInv, ConnMatchesEntry

\* What a worker that is to use its live entry knows of it.
LEMMA LiveUse ==
  ASSUME TypeInv, OrderInv, NavlInv, ~dangled, NEW w \in Queues,
         workers[w].pc \in {"create"} \cup InCallback,
         workers[w].pc = "create" => LivePointer(workers[w].m.info, workers[w].m.gen),
         workers[w].pc # "create" => LivePointer(workers[w].found, workers[w].gen)
  PROVE  /\ workers[w].m # NULL /\ LivePointer(workers[w].m.info, workers[w].m.gen)
         /\ Unreported(w)
         /\ workers[w].pc # "create" => workers[w].found = workers[w].m.info /\ workers[w].gen = workers[w].m.gen
<1>1. WorkSound /\ EntriesSound /\ ReportSound
  BY DEF NavlInv
<1>2. workers[w].m # NULL
  BY DEF TypeInv, PointersOK, WorkersOK, Working
<1>3. workers[w].pc # "create" => workers[w].found = workers[w].m.info /\ workers[w].gen = workers[w].m.gen
  BY <1>1 DEF WorkSound
<1>4. LivePointer(workers[w].m.info, workers[w].m.gen)
  BY <1>3
<1>5. Unreported(w)
  <2>1. CASE workers[w].pc = "create"
    <3>1. workers[w].m.info \in Addrs /\ info[workers[w].m.info] # NULL /\ Owns(w)
      BY <1>2, <1>4, LiveMessage DEF Owns
    <3>2. info[workers[w].m.info].class_state = INSPECTING
      BY <1>1, <2>1, <3>1 DEF WorkSound, EntriesSound
    <3>3. ~Finished(info[workers[w].m.info].class_state)
      BY <3>2 DEF Finished, INSPECTING, CLASSIFIED, TERMINATED
    <3> QED
      BY <1>1, <3>1, <3>3 DEF ReportSound, Unreported, Owns
  <2>2. CASE workers[w].pc \in InCallback
    BY <1>1, <2>2 DEF ReportSound, Unreported
  <2> QED
    BY <2>1, <2>2
<1> QED
  BY <1>2, <1>3, <1>4, <1>5

\* The worker creates the connection of an entry that has none.
LEMMA CreateNavl ==
  ASSUME TypeInv, OrderInv, NavlInv, NEW w \in Queues, WorkerStep(w), CreateConn(w) PROVE NavlInv'
<1> DEFINE a == workers[w].m.info
           i == [info[a] EXCEPT !.dpi_state = NewConn]
<1>1. /\ workers[w].pc = "create" /\ Moves(w) /\ workers'[w].pc = "pop" /\ workers'[w].m = NULL
      /\ dangled' = (dangled \/ ~LivePointer(a, workers[w].m.gen))
      /\ UNCHANGED <<conn_table, it, updateDPQueue, pkts, consumer, stopper>>
  BY WorkerFrame, ContinueMoves DEF CreateConn, UseMessage
<1>2. dangled => dangled'
  BY <1>1 DEF TypeInv, EngineType
<1>3. CASE UNCHANGED <<conns, info>>
  BY <1>1, <1>2, <1>3, LocalNavl DEF InCallback
<1>4. CASE navl_conn_create(w) /\ info' = [info EXCEPT ![a].dpi_state = NewConn]
  <2>1. a \in Addrs /\ info[a] \in ConnInfos /\ info[a] # NULL
    BY <1>1 DEF TypeInv, PointersOK, WorkersOK, Working, Allocated, TableType
  <2>2. EntriesKept
    BY WriteStepType
  <2>3. /\ Len(conns) \in Nat /\ NewConn = Len(conns) + 1 /\ Len(conns') = Len(conns) + 1
        /\ \A c \in 1 .. Len(conns) : conns'[c] = conns[c]
        /\ conns'[NewConn].handle = w /\ conns'[NewConn].destroys = 0
    <3>1. /\ conns \in Seq([handle : Queues, destroys : 0 .. MaxDestroys])
          /\ [handle |-> w, destroys |-> 0] \in [handle : Queues, destroys : 0 .. MaxDestroys]
      BY DEF TypeInv, EngineType, MaxDestroys
    <3>2. Len(conns) \in Nat /\ conns' = Append(conns, [handle |-> w, destroys |-> 0])
      BY <1>4, <3>1, LenProperties DEF navl_conn_create
    <3> DEFINE x == [handle |-> w, destroys |-> 0]
    <3>3. x.handle = w /\ x.destroys = 0
      OBVIOUS
    <3> HIDE DEF x
    <3>4. /\ Len(Append(conns, x)) = Len(conns) + 1 /\ Append(conns, x)[Len(conns) + 1] = x
          /\ \A c \in 1 .. Len(conns) : Append(conns, x)[c] = conns[c]
      BY <3>1, AppendProperties DEF x
    <3> QED
      BY <3>2, <3>3, <3>4 DEF NewConn, x
  <2>4. NewConn # NULL /\ NewConn \in Nat
    BY <2>3, NavlAssumption
  <2>5. i.dpi_state = NewConn /\ i.class_state = info[a].class_state
    BY <2>1 DEF ConnInfos
  <2>6. info' = [info EXCEPT ![a] = i]
    BY <1>4, <2>1 DEF TypeInv, TableType
  <2> HIDE DEF i, a, NewConn
  <2>7. info'[a].dpi_state = NewConn /\ info'[a].class_state = info[a].class_state
          /\ \A b \in Addrs \ {a} : info'[b] = info[b]
    BY <2>1, <2>5, <2>6 DEF TypeInv, TableType
  <2>8. ConnsOwned'
    <3>1. ASSUME NEW b \in Addrs \ {a}, info'[b] # NULL, info'[b].dpi_state # NULL
          PROVE  info'[b].dpi_state \in 1 .. Len(conns) /\ info'[b].dpi_state # NewConn
      <4>1. info'[b].dpi_state \in 1 .. Len(conns)
        BY <2>7, <3>1 DEF NavlInv, ConnsOwned
      <4> QED
        BY <2>3, <4>1
    <3>2. ASSUME NEW b \in Addrs, info'[b] # NULL, info'[b].dpi_state # NULL
          PROVE  info'[b].dpi_state \in 1 .. Len(conns')
      <4>1. CASE b = a
        BY <2>3, <2>7, <4>1
      <4>2. CASE b # a
        BY <2>3, <3>1, <3>2, <4>2
      <4> QED
        BY <4>1, <4>2
    <3>3. ASSUME NEW b \in Addrs, NEW c \in Addrs, info'[b] # NULL, info'[c] # NULL,
                 info'[b].dpi_state # NULL, info'[b].dpi_state = info'[c].dpi_state
          PROVE  b = c
      <4>1. CASE b = a \/ c = a
        BY <2>7, <3>1, <3>3, <4>1
      <4>2. CASE b # a /\ c # a
        BY <2>7, <3>3, <4>2 DEF NavlInv, ConnsOwned
      <4> QED
        BY <4>1, <4>2
    <3> QED
      BY <3>2, <3>3 DEF ConnsOwned
  <2>9. ASSUME ~dangled'
        PROVE  EntriesSound' /\ WorkSound' /\ DestroySound' /\ ReportSound' /\ ConnMatchesEntry'
    <3>1. /\ ~dangled /\ workers[w].m # NULL /\ LivePointer(a, workers[w].m.gen) /\ Unreported(w)
      BY <1>1, <1>2, <2>9, LiveUse DEF a
    <3>2. Owns(w)
      BY <3>1, LiveMessage DEF Owns, a
    <3>3. info[a].dpi_state = NULL /\ info[a].class_state = INSPECTING
      BY <1>1, <2>1, <3>1, <3>2 DEF NavlInv, WorkSound, EntriesSound, a
    <3>4. WritesEntry(w, a)
      BY <1>1, <2>3, <2>7 DEF WritesEntry
    <3>5. LeavesEntry(w, a)
      <4>1. ~Finished(info'[a].class_state)
        BY <2>7, <3>3 DEF Finished, INSPECTING, CLASSIFIED, TERMINATED
      <4> QED
        BY <1>1, <2>3, <2>4, <2>7, <4>1 DEF LeavesEntry
    <3> QED
      BY <2>1, <2>2, <3>1, <3>4, <3>5, WriteNavl DEF a
  <2> QED
    BY <1>1, <1>2, <2>2, <2>8, <2>9, WriteStep
<1> QED
  BY <1>3, <1>4 DEF CreateConn

\* The callback stores the state of the classification in the entry.
LEMMA UpdateNavl ==
  ASSUME TypeInv, OrderInv, NavlInv, NEW w \in Queues, WorkerStep(w), CallbackUpdate(w) PROVE NavlInv'
<1> DEFINE a == workers[w].found
           n == IF info[a].class_state = INSPECTING THEN 0 ELSE info[a].pkt_ref_cnt - 1
           e == workers[w].error
           s == workers[w].state
           i == [info[a] EXCEPT !.pkt_ref_cnt = n, !.error = e, !.class_state = s]
<1>1. /\ workers[w].pc = "update" /\ dangled' = (dangled \/ ~LivePointer(a, workers[w].gen))
      /\ UNCHANGED <<conn_table, it, updateDPQueue, pkts, consumer, stopper, conns>>
      /\ info' = [info EXCEPT ![a] = i]
      /\ Finished(s) => Goto(w, "destroy")
      /\ ~Finished(s) => Continue(w)
  BY WorkerFrame DEF CallbackUpdate, UseFound, UpdateInfo
<1>2. dangled => dangled'
  BY <1>1 DEF TypeInv, EngineType
<1>3. a \in Addrs /\ info[a] \in ConnInfos /\ info[a] # NULL
  BY <1>1 DEF TypeInv, PointersOK, WorkersOK, InCallback, Allocated, TableType
<1> HIDE DEF n, e, s, a
<1>4. i.dpi_state = info[a].dpi_state /\ i.class_state = s
  BY <1>3 DEF ConnInfos
<1> HIDE DEF i
<1>5. info'[a].dpi_state = info[a].dpi_state /\ info'[a].class_state = s
        /\ \A b \in Addrs \ {a} : info'[b] = info[b]
  BY <1>1, <1>3, <1>4 DEF TypeInv, TableType
<1>6. EntriesKept
  BY WriteStepType
<1>7. ConnsOwned'
  <2>1. \A b \in Addrs : info'[b].dpi_state = info[b].dpi_state /\ (info'[b] # NULL => info[b] # NULL)
    BY <1>3, <1>5
  <2> QED
    BY <1>1, <2>1 DEF NavlInv, ConnsOwned
<1>8. /\ Moves(w)
      /\ \/ ~Finished(s) /\ workers'[w].m = NULL /\ workers'[w].pc = "pop"
         \/ /\ Finished(s) /\ workers'[w].pc = "destroy" /\ workers'[w].m = workers[w].m
            /\ workers'[w].found = a /\ workers'[w].gen = workers[w].gen
  BY <1>1, ContinueMoves, GotoMoves DEF Working, InCallback, a
<1>9. ASSUME ~dangled'
      PROVE  EntriesSound' /\ WorkSound' /\ DestroySound' /\ ReportSound' /\ ConnMatchesEntry'
  <2>1. /\ ~dangled /\ workers[w].m # NULL /\ Unreported(w)
        /\ a = workers[w].m.info /\ workers[w].gen = workers[w].m.gen
        /\ LivePointer(workers[w].m.info, workers[w].m.gen)
    BY <1>1, <1>2, <1>9, LiveUse DEF a, InCallback
  <2>2. Owns(w) /\ info[a].queue = w
    BY <2>1, LiveMessage DEF Owns
  <2>3. info[a].dpi_state # NULL /\ info[a].class_state = INSPECTING
    BY <1>1, <2>1, <2>2 DEF NavlInv, WorkSound, InCallback
  <2>4. conns[info[a].dpi_state].handle = w
    BY <1>3, <2>1, <2>2, <2>3 DEF NavlInv, EntriesSound
  <2>5. ~Finished(info[a].class_state)
    BY <2>3 DEF Finished, INSPECTING, CLASSIFIED, TERMINATED
  <2>6. ASSUME NEW f \in Flows \ {it}, conn_table[f] = a PROVE conns[info[a].dpi_state].destroys = 0
    <3>1. conn_table[f] # NULL
      BY <1>3, <2>6, AddrsAssumption
    <3> QED
      BY <2>1, <2>3, <2>5, <2>6, <3>1 DEF NavlInv, ConnMatchesEntry
  <2>7. WritesEntry(w, a)
    BY <1>1, <1>5, <1>8 DEF WritesEntry
  <2>8. LeavesEntry(w, a)
    <3>1. /\ info'[a].dpi_state # NULL /\ conns'[info'[a].dpi_state].handle = w
          /\ \A f \in Flows \ {it} : conn_table[f] = a => conns'[info'[a].dpi_state].destroys = 0
      BY <1>1, <1>5, <2>3, <2>4, <2>6
    <3> QED
      BY <1>5, <1>8, <2>1, <3>1 DEF LeavesEntry
  <2> QED
    BY <1>3, <1>6, <2>1, <2>7, <2>8, WriteNavl
<1> QED
  BY <1>1, <1>2, <1>6, <1>7, <1>9, WriteStep

\* The callback destroys the connection of a flow whose classification ended.
LEMMA DestroyNavl ==
  ASSUME TypeInv, OrderInv, NavlInv, NEW w \in Queues, WorkerStep(w), CallbackDestroy(w) PROVE NavlInv'
<1> DEFINE a == workers[w].found
           c == info[a].dpi_state
<1>1. /\ workers[w].pc = "destroy" /\ dangled' = (dangled \/ ~LivePointer(a, workers[w].gen))
      /\ UNCHANGED <<conn_table, it, updateDPQueue, pkts, consumer, stopper, info>>
      /\ Goto(w, "report") /\ navl_conn_destroy(c)
  BY WorkerFrame DEF CallbackDestroy, UseFound, tablevars
<1>2. dangled => dangled'
  BY <1>1 DEF TypeInv, EngineType
<1>3. a \in Addrs /\ info[a] \in ConnInfos /\ info[a] # NULL
  BY <1>1 DEF TypeInv, PointersOK, WorkersOK, InCallback, Allocated, TableType
<1> HIDE DEF a, c
<1>4. /\ Len(conns') = Len(conns)
      /\ \A x \in 1 .. Len(conns) :
           /\ conns'[x].handle = conns[x].handle
           /\ x # c => conns'[x] = conns[x]
           /\ x = c /\ conns[x].destroys = 0 => conns'[x].destroys = 1
  BY <1>1, DestroyConns
<1>5. EntriesKept
  BY FinishStepType
<1>6. ConnsOwned'
  BY <1>1, <1>4 DEF NavlInv, ConnsOwned
<1>7. /\ Moves(w) /\ workers'[w].pc = "report" /\ workers'[w].m = workers[w].m
      /\ workers'[w].found = a /\ workers'[w].gen = workers[w].gen
  BY <1>1, GotoMoves DEF Working, InCallback, a
<1>8. ASSUME ~dangled'
      PROVE  EntriesSound' /\ WorkSound' /\ DestroySound' /\ ReportSound' /\ ConnMatchesEntry'
  <2>1. /\ ~dangled /\ workers[w].m # NULL /\ Unreported(w)
        /\ a = workers[w].m.info /\ workers[w].gen = workers[w].m.gen
        /\ LivePointer(workers[w].m.info, workers[w].m.gen)
    BY <1>1, <1>2, <1>8, LiveUse DEF a, InCallback
  <2>2. Owns(w) /\ info[a].queue = w
    BY <2>1, LiveMessage DEF Owns
  <2>3. c # NULL /\ Finished(info[a].class_state)
    BY <1>1, <2>1, <2>2 DEF NavlInv, WorkSound, InCallback, c
  <2>4. c \in 1 .. Len(conns) /\ conns[c].handle = w
    BY <1>3, <2>1, <2>2, <2>3 DEF NavlInv, EntriesSound, ConnsOwned, c
  <2>5. ASSUME NEW f \in Flows \ {it}, conn_table[f] = a PROVE conns'[c].destroys = 1
    <3>1. conns[c].destroys = 0
      BY <1>1, <2>1, <2>2, <2>5 DEF NavlInv, DestroySound, c
    <3> QED
      BY <1>4, <2>4, <3>1
  <2>6. WritesEntry(w, a)
    BY <1>1, <1>4, <1>7 DEF WritesEntry, c
  <2>7. LeavesEntry(w, a)
    <3>1. /\ info'[a].dpi_state = c /\ c # NULL /\ conns'[c].handle = w
          /\ Finished(info'[a].class_state)
      BY <1>1, <1>4, <2>3, <2>4 DEF c
    <3> QED
      BY <1>7, <2>1, <2>5, <3>1 DEF LeavesEntry
  <2> QED
    BY <1>3, <1>5, <2>1, <2>6, <2>7, WriteNavl
<1> QED
  BY <1>1, <1>2, <1>5, <1>6, <1>8, WriteStep

\* The report of an entry is its first, and comes before the exit message.
LEMMA ReportNavl ==
  ASSUME TypeInv, OrderInv, NavlInv, NEW w \in Queues, WorkerStep(w), CallbackReport(w) PROVE NavlInv'
<1> DEFINE a == workers[w].found
           r == DPIFlowData(a)
           n == Len(updateDPQueue)
<1>1. /\ workers[w].pc = "report" /\ dangled' = (dangled \/ ~LivePointer(a, workers[w].gen))
      /\ UNCHANGED <<conn_table, it, conns, pkts, consumer, stopper, info>>
      /\ Continue(w) /\ updateDPQueue' = Append(updateDPQueue, r)
  BY WorkerFrame DEF CallbackReport, UseFound, tablevars
<1>2. dangled => dangled'
  BY <1>1 DEF TypeInv, EngineType
<1>3. a \in Addrs /\ info[a] \in ConnInfos /\ info[a] # NULL
  BY <1>1 DEF TypeInv, PointersOK, WorkersOK, InCallback, Allocated, TableType
<1>4. r \in DPIFlowDatas /\ ~r.exit_flag /\ r.gen = info[a].gen
  BY <1>3 DEF ConnInfos, DPIFlowData, DPIFlowDatas
<1> HIDE DEF a, r
<1>5. /\ n \in Nat /\ DOMAIN updateDPQueue = 1 .. n /\ DOMAIN updateDPQueue' = 1 .. n + 1
      /\ updateDPQueue'[n + 1] = r /\ Len(updateDPQueue') = n + 1
      /\ \A i \in 1 .. n : updateDPQueue'[i] = updateDPQueue[i]
  <2>1. updateDPQueue \in Seq(DPIFlowDatas \cup {ExitMessage}) /\ r \in DPIFlowDatas \cup {ExitMessage}
    BY <1>4 DEF TypeInv, EngineType
  <2>2. /\ Append(updateDPQueue, r) \in Seq(DPIFlowDatas \cup {ExitMessage})
        /\ Len(Append(updateDPQueue, r)) = n + 1 /\ Append(updateDPQueue, r)[n + 1] = r
        /\ \A i \in 1 .. n : Append(updateDPQueue, r)[i] = updateDPQueue[i]
    BY <2>1, AppendProperties
  <2> QED
    BY <1>1, <2>1, <2>2, LenProperties
<1> HIDE DEF n
<1>6. ASSUME NEW i \in DOMAIN updateDPQueue'
      PROVE  \/ i \in DOMAIN updateDPQueue /\ updateDPQueue'[i] = updateDPQueue[i]
             \/ i = n + 1 /\ updateDPQueue'[i] = r
  <2>1. i \in 1 .. n \/ i = n + 1
    BY <1>5, <1>6
  <2> QED
    BY <1>5, <2>1
<1>7. Moves(w) /\ workers'[w].pc = "pop" /\ workers'[w].m = NULL
  BY <1>1, ContinueMoves
<1>8. ConnsOwned'
  BY <1>1 DEF NavlInv, ConnsOwned
<1>9. ReportsSent'
  <2>1. r.gen <= pkts /\ (consumer.pc = "lookup" => r.gen < pkts)
    BY <1>3, <1>4 DEF OrderInv, GenInv
  <2>2. ReportsSent
    BY DEF NavlInv
  <2> QED
    BY <1>1, <1>4, <1>6, <2>1, <2>2 DEF ReportsSent
<1>10. CASE dangled'
  BY <1>8, <1>9, <1>10 DEF NavlInv, OneReport, ReportsBeforeExit, ConnMatchesEntry
<1>11. CASE ~dangled'
  <2>1. /\ ~dangled /\ workers[w].m # NULL /\ Unreported(w)
        /\ a = workers[w].m.info /\ workers[w].gen = workers[w].m.gen
        /\ LivePointer(workers[w].m.info, workers[w].m.gen)
    BY <1>1, <1>2, <1>11, LiveUse DEF a, InCallback
  <2>2. /\ Owns(w) /\ r.gen = workers[w].m.gen /\ stopper \in {"idle", "join_cleanup", "delete", "erase"}
        /\ \A v \in Queues \ {w} : workers[v].m # NULL => workers[v].m.gen # workers[w].m.gen
    BY <1>4, <2>1, LiveMessage DEF Owns
  <2>3. Finished(info[a].class_state)
    BY <1>1, <2>1, <2>2 DEF NavlInv, WorkSound
  <2>4. \A v \in Queues \ {w} : workers'[v] = workers[v]
    BY <1>7 DEF Moves
  <2>5. \A i \in DOMAIN updateDPQueue : ~updateDPQueue[i].exit_flag /\ updateDPQueue[i].gen # r.gen
    BY <2>1, <2>2 DEF Unreported, NavlInv, ReportsSent
  <2>6. EntriesSound' /\ DestroySound'
    <3>1. EntriesSound /\ DestroySound
      BY <2>1 DEF NavlInv
    <3> QED
      BY <1>1, <1>7, <2>4, <3>1 DEF EntriesSound, DestroySound, Owns
  <2>7. WorkSound'
    <3>1. WorkSound
      BY <2>1 DEF NavlInv
    <3>2. ASSUME NEW v \in Queues, v # w
          PROVE  workers'[v] = workers[v] /\ Owns(v)' = Owns(v)
      BY <1>1, <2>4, <3>2 DEF Owns
    <3> QED
      BY <1>1, <1>7, <2>4, <3>1 DEF WorkSound, Owns, InCallback
  <2>8. OneReport'
    <3> SUFFICES ASSUME NEW i \in DOMAIN updateDPQueue', NEW j \in DOMAIN updateDPQueue', i # j
                 PROVE  updateDPQueue'[i].gen # updateDPQueue'[j].gen
      BY DEF OneReport
    <3> QED
      BY <1>6, <2>1, <2>5 DEF NavlInv, OneReport
  <2>9. ReportsBeforeExit'
    <3> SUFFICES ASSUME NEW i \in DOMAIN updateDPQueue' PROVE ~updateDPQueue'[i].exit_flag
      BY DEF ReportsBeforeExit
    <3> QED
      BY <1>4, <1>6, <2>5
  <2>10. ReportSound'
    <3> SUFFICES ASSUME NEW i \in DOMAIN updateDPQueue'
                 PROVE  /\ \A b \in Addrs : info[b] # NULL /\ info[b].gen = updateDPQueue'[i].gen =>
                             Finished(info[b].class_state)
                        /\ \A v \in Queues : workers'[v].pc \in {"classify", "callback"} \cup InCallback =>
                             workers'[v].m.gen # updateDPQueue'[i].gen
      BY <1>1 DEF ReportSound, Finished
    <3>1. ReportSound
      BY <2>1 DEF NavlInv
    <3>2. \A v \in Queues \ {w} : workers[v].pc \in Working => workers[v].m # NULL
      BY DEF TypeInv, PointersOK, WorkersOK
    <3>3. w \in Queues /\ workers'[w].pc \notin {"classify", "callback"} \cup InCallback
      BY <1>7 DEF InCallback
    <3>4. CASE i = n + 1 /\ updateDPQueue'[i] = r
      <4>1. ASSUME NEW b \in Addrs, info[b] # NULL, info[b].gen = r.gen PROVE Finished(info[b].class_state)
        <5>1. b = a
          BY <1>3, <1>4, <4>1 DEF OrderInv, GenInv
        <5> QED
          BY <2>3, <5>1
      <4>2. ASSUME NEW v \in Queues, workers'[v].pc \in {"classify", "callback"} \cup InCallback
            PROVE  workers'[v].m.gen # r.gen
        <5>1. v \in Queues \ {w} /\ workers'[v] = workers[v]
          BY <2>4, <3>3, <4>2
        <5>2. workers[v].m # NULL
          BY <3>2, <4>2, <5>1 DEF Working
        <5> QED
          BY <2>2, <5>1, <5>2
      <4> QED
        BY <3>4, <4>1, <4>2
    <3>5. CASE i \in DOMAIN updateDPQueue /\ updateDPQueue'[i] = updateDPQueue[i]
      BY <2>4, <2>5, <3>1, <3>3, <3>5 DEF ReportSound
    <3> QED
      BY <1>6, <3>4, <3>5
  <2>11. ConnMatchesEntry'
    <3>1. ConnMatchesEntry
      BY DEF NavlInv
    <3> SUFFICES ASSUME NEW f \in Flows \ {it}, conn_table[f] # NULL, info[conn_table[f]].dpi_state # NULL
                 PROVE  LET i == info[conn_table[f]]
                            d == conns[i.dpi_state].destroys
                        IN  \/ ~Finished(i.class_state) /\ d = 0
                            \/ Finished(i.class_state) /\ d = 1
                            \/ /\ Finished(i.class_state) /\ d = 0
                               /\ \E v \in Queues : workers'[v].pc = "destroy"
                                                     /\ workers'[v].found = conn_table[f]
      BY <1>1 DEF ConnMatchesEntry, Finished
    <3>2. \A v \in Queues : workers[v].pc = "destroy" => workers'[v] = workers[v]
      BY <1>1, <2>4
    <3> QED
      BY <2>1, <3>1, <3>2 DEF ConnMatchesEntry
  <2> QED
    BY <1>8, <1>9, <2>6, <2>7, <2>8, <2>9, <2>10, <2>11 DEF NavlInv
<1> QED
  BY <1>10, <1>11

\* Every step keeps entries, connections and reports in agreement.
LEMMA NavlNext ==
  ASSUME TypeInv, OrderInv, NavlInv, [Next]_vars PROVE NavlInv'
<1> DEFINE Early == {"idle", "join_cleanup", "delete", "erase"}
<1>1. ~InsertNew => EntriesKept
  BY TypeNext
<1>2. CASE UNCHANGED vars
  <2>1. /\ UNCHANGED <<workers, dangled, updateDPQueue, pkts, consumer, stopper, conn_table, conns, it>>
        /\ UNCHANGED info
    BY <1>2 DEF vars, tablevars, consumervars, cleanupvars, stopvars, workervars, dpvars
  <2> QED
    BY <2>1, EntriesSame, TableStill, StillNavl DEF StatesKept
<1>3. CASE NextPacket
  <2>1. /\ UNCHANGED <<workers, dangled, updateDPQueue, stopper, conn_table, conns, it, info>>
        /\ pkts' = pkts + 1
    BY <1>3 DEF NextPacket, InsertBegin, tablevars, cleanupvars, stopvars, workervars, dpvars
  <2> QED
    BY <2>1, EntriesSame, TableStill, StillNavl DEF StatesKept
<1>4. CASE ConsumerStep
  <2>1. CASE InsertNew
    BY <1>4, <2>1, InsertNewNavl
  <2>2. CASE ~InsertNew
    <3>1. UNCHANGED <<workers, dangled, updateDPQueue, stopper, conns, it, pkts>>
      BY <1>4, ConsumerFrame
    <3>2. UNCHANGED conn_table /\ (consumer' = consumer \/ consumer'.pc # "lookup")
      <4>1. UNCHANGED conn_table
        BY <1>4, <2>2 DEF ConsumerStep, InsertOrUpdateFlows, InsertFound, InsertCount, InsertPush, tablevars
      <4>2. \/ consumer' = IdleConsumer \/ consumer' = [consumer EXCEPT !.pc = "SIGFPE"]
            \/ consumer' = [consumer EXCEPT !.pc = "push"]
            \/ \E m : consumer' = [consumer EXCEPT !.pc = "count", !.msg = m]
        BY <1>4, <2>2 DEF ConsumerStep, InsertOrUpdateFlows, InsertFound, InsertCount, InsertPush
      <4>3. consumer \in Consumers
        BY DEF TypeInv, TableType
      <4>4. consumer'.pc # "lookup"
        <5>1. ASSUME NEW m, consumer' = [consumer EXCEPT !.pc = "count", !.msg = m]
              PROVE  consumer'.pc # "lookup"
          BY <4>3, <5>1 DEF Consumers
        <5>2. CASE consumer' = IdleConsumer
          BY <5>2 DEF IdleConsumer
        <5>3. CASE consumer' = [consumer EXCEPT !.pc = "SIGFPE"] \/ consumer' = [consumer EXCEPT !.pc = "push"]
          BY <4>3, <5>3 DEF Consumers
        <5> QED
          BY <4>2, <5>1, <5>2, <5>3
      <4> QED
        BY <4>1, <4>4
    <3> QED
      BY <1>1, <1>4, <2>2, <3>1, <3>2, ConsumerStates, TableStill, StillNavl
  <2> QED
    BY <2>1, <2>2
<1>5. CASE CleanerStep
  <2>1. UNCHANGED <<workers, dangled, updateDPQueue, stopper, pkts, consumer, info>>
    BY <1>5, CleanerFrame
  <2> QED
    BY <1>5, <2>1, EntriesSame, CleanerKeeps, StillNavl DEF StatesKept
<1>6. CASE Silence
  <2>1. UNCHANGED <<workers, dangled, updateDPQueue, stopper, pkts, consumer, conn_table, conns, it>>
    BY <1>6 DEF Silence, Age, consumervars, cleanupvars, stopvars, workervars, dpvars
  <2>2. EntriesKept
    BY <1>6, SilenceType
  <2> QED
    BY <1>6, <2>1, <2>2, SilenceStates, TableStill, StillNavl
<1>7. ASSUME NEW w \in Queues, WorkerStep(w) PROVE NavlInv'
  BY <1>7, LookNavl, CreateNavl, UpdateNavl, DestroyNavl, ReportNavl DEF WorkerStep, Worker
<1>8. CASE DataPathStep
  BY <1>8, DataPathNavl
<1>9. CASE StopBegin \/ JoinThreads
  <2>1. UNCHANGED <<workers, dangled, updateDPQueue, pkts, conn_table, conns, it, info>>
    BY <1>9 DEF StopBegin, JoinThreads, tablevars, consumervars, cleanupvars, workervars, dpvars
  <2>2. consumer' = consumer \/ consumer'.pc # "lookup"
    BY <1>9 DEF StopBegin, JoinThreads, consumervars, TypeInv, TableType, Consumers
  <2>3. stopper' \in Early => stopper \in Early
    BY <1>9 DEF StopBegin, StopCleanup, JoinThreads
  <2> QED
    BY <2>1, <2>2, <2>3, EntriesSame, TableStill, StillNavl DEF StatesKept
<1>10. CASE TableStop
  <2>1. CASE FinalUnlock
    BY <1>10, <2>1, FinalUnlockNavl
  <2>2. CASE ~FinalUnlock
    <3>1. UNCHANGED <<workers, dangled, pkts, consumer, info>>
      BY <1>10, StopperFrame
    <3>2. UNCHANGED updateDPQueue /\ (stopper' \in Early => stopper \in Early)
      BY <1>10, <2>2 DEF TableStop, FlowTableStop, FinalLock, FinalDestroy, FinalErase, SendExit, SendExitsDone
    <3> QED
      BY <1>10, <3>1, <3>2, EntriesSame, StopperKeeps, StillNavl DEF StatesKept
  <2> QED
    BY <2>1, <2>2
<1> QED
  BY <1>2, <1>3, <1>4, <1>5, <1>6, <1>7, <1>8, <1>9, <1>10 DEF Next, Terminated

\* The inductive invariant behind what the entries, their navl connections and the
\* reports to the data path have to do with each other.
THEOREM PipelineNavl == Spec => [](TypeInv /\ OrderInv /\ NavlInv)
<1>1. Init => TypeInv /\ OrderInv /\ NavlInv
  BY TypeInit, OrderInit, NavlInvInit
<1>2. TypeInv /\ OrderInv /\ NavlInv /\ [Next]_vars => TypeInv' /\ OrderInv' /\ NavlInv'
  BY TypeNext, OrderNext, NavlNext
<1> QED
  BY <1>1, <1>2, PTL DEF Spec

\* As long as no erased entry was used, an entry is reported to the data path at
\* most once.
THEOREM OneReportHolds == Spec => []OneReport
<1>1. TypeInv /\ OrderInv /\ NavlInv => OneReport
  BY DEF NavlInv
<1> QED
  BY <1>1, PipelineNavl, PTL

\* As long as no erased entry was used, no report is queued behind the exit message.
THEOREM ReportsBeforeExitHolds == Spec => []ReportsBeforeExit
<1>1. TypeInv /\ OrderInv /\ NavlInv => ReportsBeforeExit
  BY DEF NavlInv
<1> QED
  BY <1>1, PipelineNavl, PTL

\* As long as no erased entry was used, a navl connection is open until the entry's
\* classification is finished, and destroyed once when it is.
THEOREM ConnMatchesEntryHolds == Spec => []ConnMatchesEntry
<1>1. TypeInv /\ OrderInv /\ NavlInv => ConnMatchesEntry
  BY DEF NavlInv
<1> QED
  BY <1>1, PipelineNavl, PTL

\* As long as no erased entry was used, a worker classifies a connection with the
\* navl handle that created it.
THEOREM HandleAffinityHolds == Spec => []HandleAffinity
<1>1. ASSUME TypeInv, OrderInv, NavlInv PROVE HandleAffinity
  <2> SUFFICES ASSUME ~dangled, NEW w \in Queues, workers[w].pc = "classify",
                      LivePointer(workers[w].m.info, workers[w].m.gen)
               PROVE  conns[info[workers[w].m.info].dpi_state].handle = w
    BY DEF HandleAffinity
  <2>1. workers[w].m # NULL
    BY <1>1 DEF TypeInv, PointersOK, WorkersOK, Working
  <2>2. /\ workers[w].m.info \in Addrs /\ info[workers[w].m.info] # NULL
        /\ info[workers[w].m.info].queue = w /\ Owns(w)
    BY <1>1, <2>1, LiveMessage DEF Owns
  <2>3. info[workers[w].m.info].dpi_state # NULL
    BY <1>1, <2>2 DEF NavlInv, WorkSound
  <2> QED
    BY <1>1, <2>2, <2>3 DEF NavlInv, EntriesSound
<1>2. TypeInv /\ OrderInv /\ NavlInv => HandleAffinity
  BY <1>1
<1> QED
  BY <1>2, PipelineNavl, PTL

\* Only a callback changes the class_state of an entry that is in the table.
LEMMA FinalStep ==
  ASSUME TypeInv, OrderInv, NavlInv, Next, ~dangled', NEW a \in LiveAddrs,
         Finished(info[a].class_state)
  PROVE  info'[a].class_state = info[a].class_state
<1>1. a \in Addrs /\ info[a] # NULL /\ info[a] \in ConnInfos
  BY DEF LiveAddrs, TypeInv, PointersOK, TableOK, Allocated, TableType
<1>2. CASE UNCHANGED info
  BY <1>2
<1>3. CASE ConsumerStep
  <2>1. CASE InsertNew
    <3>1. UNCHANGED info \/ \E b \in Addrs \ LiveAddrs : \E x : info' = [info EXCEPT ![b] = x]
      BY <2>1 DEF InsertNew, tablevars
    <3> QED
      BY <1>1, <3>1 DEF TypeInv, TableType
  <2>2. CASE ~InsertNew
    BY <1>1, <1>3, <2>2, ConsumerStates DEF StatesKept
  <2> QED
    BY <2>1, <2>2
<1>4. CASE Silence
  BY <1>1, <1>4, SilenceStates DEF StatesKept
<1>5. ASSUME NEW w \in Queues, WorkerStep(w), CreateConn(w) PROVE info'[a].class_state = info[a].class_state
  <2>1. UNCHANGED info \/ info' = [info EXCEPT ![workers[w].m.info].dpi_state = NewConn]
    BY <1>5 DEF CreateConn
  <2> QED
    BY <1>1, <2>1 DEF TypeInv, TableType, ConnInfos
<1>6. ASSUME NEW w \in Queues, WorkerStep(w), CallbackUpdate(w) PROVE info'[a].class_state = info[a].class_state
  <2>1. /\ workers[w].pc = "update"
        /\ dangled' = (dangled \/ ~LivePointer(workers[w].found, workers[w].gen))
        /\ \E x : info' = [info EXCEPT ![workers[w].found] = x]
    BY <1>6 DEF CallbackUpdate, UseFound, UpdateInfo
  <2>2. ~dangled /\ LivePointer(workers[w].found, workers[w].gen)
    BY <2>1 DEF TypeInv, EngineType
  <2>3. /\ workers[w].m # NULL /\ workers[w].found = workers[w].m.info
        /\ LivePointer(workers[w].m.info, workers[w].m.gen)
    BY <2>1, <2>2, LiveUse DEF InCallback
  <2>4. Owns(w)
    BY <2>3, LiveMessage DEF Owns
  <2>5. info[workers[w].found].class_state = INSPECTING
    BY <2>1, <2>2, <2>3, <2>4 DEF NavlInv, WorkSound
  <2>6. a # workers[w].found
    BY <2>5 DEF Finished, INSPECTING, CLASSIFIED, TERMINATED
  <2> QED
    BY <1>1, <2>1, <2>6 DEF TypeInv, TableType
<1>7. ASSUME NEW w \in Queues, WorkerStep(w), ~CreateConn(w), ~CallbackUpdate(w) PROVE UNCHANGED info
  BY <1>7 DEF WorkerStep, Worker, Dequeue, Examine, Classify, CallbackFind, CallbackDestroy,
              CallbackReport, Throw, CatchDecrement, CatchClear, tablevars
<1>8. CASE NextPacket \/ CleanerStep \/ DataPathStep \/ StopBegin \/ TableStop \/ JoinThreads \/ Terminated
  BY <1>2, <1>8, CleanerFrame, StopperFrame
     DEF NextPacket, InsertBegin, DataPathStep, StopBegin, JoinThreads, Terminated, tablevars, vars
<1> QED
  BY <1>2, <1>3, <1>4, <1>5, <1>6, <1>7, <1>8 DEF Next

\* As long as no erased entry was used, a finished classification is final.
THEOREM ClassificationFinalHolds == Spec => ClassificationFinal
<1>1. TypeInv /\ OrderInv /\ NavlInv /\ [Next]_vars =>
        [~dangled' => \A a \in LiveAddrs :
           Finished(info[a].class_state) /\ info'[a].gen = info[a].gen =>
             info'[a].class_state = info[a].class_state]_vars
  BY FinalStep
<1> QED
  BY <1>1, PipelineNavl, PTL DEF Spec, ClassificationFinal

--------------------------------------------------------------------------------
(* The exit messages. *)

\* stop() sends one exit message to each queue, after the last packet, and a worker
\* leaves its loop for no other reason.
DrainInv ==
  /\ \A w \in Queues : workers[w].pc \notin {"catch", "clear", "stuck"}
  /\ stopper \in {"idle", "join_cleanup", "delete", "erase"} => exits = 0
  /\ \A q \in Queues : \A i \in DOMAIN dpiQueues[q] :
       dpiQueues[q][i].exit_flag => i = Len(dpiQueues[q]) /\ q < exits
  /\ \A w \in Queues : workers[w].pc = "done" => dpiQueues[w] = <<>> /\ w < exits

\* A step that touches no queue and lets no worker leave.
LEMMA DrainKept ==
  ASSUME DrainInv, UNCHANGED <<dpiQueues, exits>>,
         stopper' \in {"idle", "join_cleanup", "delete", "erase"} =>
           stopper \in {"idle", "join_cleanup", "delete", "erase"},
         \A w \in Queues : \/ workers'[w].pc = workers[w].pc
                           \/ workers'[w].pc \notin {"catch", "clear", "stuck", "done"}
  PROVE  DrainInv'
BY DEF DrainInv

\* The consumer pushes only before stop(), when no exit message is queued.
LEMMA PushDrain ==
  ASSUME TypeInv, DrainInv, ConsumerStep, InsertPush PROVE DrainInv'
<1> DEFINE q == info[consumer.msg.info].queue
<1>1. UNCHANGED <<workers, exits, stopper>> /\ consumer.pc = "push"
  BY ConsumerFrame DEF InsertPush
<1>2. stopper = "idle" /\ exits = 0
  BY <1>1 DEF TypeInv, LockInv, DrainInv
<1>3. /\ q \in Queues /\ ~consumer.msg.exit_flag
      /\ dpiQueues' \in [Queues -> Seq(ConnMetadatas \cup {ExitMessage})]
      /\ \A v \in Queues : v # q => dpiQueues'[v] = dpiQueues[v]
      /\ Len(dpiQueues'[q]) = Len(dpiQueues[q]) + 1
      /\ \A i \in 1 .. Len(dpiQueues[q]) : dpiQueues'[q][i] = dpiQueues[q][i]
      /\ dpiQueues'[q][Len(dpiQueues[q]) + 1] = consumer.msg
  BY InsertPushQueue DEF ConnMetadatas
<1> HIDE DEF q
<1>4. \A v \in Queues : ~(v < exits)
  BY <1>2, QueuesAssumption DEF Queues
<1>5. ASSUME NEW v \in Queues, NEW i \in DOMAIN dpiQueues'[v] PROVE ~dpiQueues'[v][i].exit_flag
  <2>1. \A j \in DOMAIN dpiQueues[v] : ~dpiQueues[v][j].exit_flag
    BY <1>4 DEF DrainInv
  <2>2. CASE v # q
    BY <1>3, <1>5, <2>1, <2>2
  <2>3. CASE v = q
    <3>1. dpiQueues[q] \in Seq(ConnMetadatas \cup {ExitMessage}) /\ dpiQueues'[q] \in Seq(ConnMetadatas \cup {ExitMessage})
      BY <1>3 DEF TypeInv, EngineType
    <3>2. Len(dpiQueues[q]) \in Nat /\ DOMAIN dpiQueues[q] = 1 .. Len(dpiQueues[q])
            /\ DOMAIN dpiQueues'[q] = 1 .. Len(dpiQueues'[q])
      BY <3>1, LenProperties
    <3>3. i \in 1 .. Len(dpiQueues[q]) \/ i = Len(dpiQueues[q]) + 1
      BY <1>3, <1>5, <2>3, <3>2
    <3> QED
      BY <1>3, <2>1, <2>3, <3>2, <3>3
  <2> QED
    BY <2>2, <2>3
<1>6. \A w \in Queues : workers[w].pc # "done"
  BY <1>4 DEF DrainInv
<1> QED
  BY <1>1, <1>2, <1>5, <1>6 DEF DrainInv

\* An exit message goes to a queue that has none yet.
LEMMA SendExitDrain ==
  ASSUME TypeInv, DrainInv, TableStop, SendExit PROVE DrainInv'
<1>1. exits \in Nat /\ exits < numQueues
  BY DEF SendExit, TypeInv, TableType
<1>2. exits \in Queues
  BY <1>1, QueuesLeft, QueuesAssumption DEF Queues
<1>3. /\ dpiQueues' = [dpiQueues EXCEPT ![exits] = Append(dpiQueues[exits], ExitMessage)]
      /\ UNCHANGED workers /\ exits' = exits + 1 /\ stopper = "exits" /\ stopper' = "exits"
  BY StopperFrame DEF SendExit
<1>4. dpiQueues \in [Queues -> Seq(ConnMetadatas \cup {ExitMessage})]
  BY DEF TypeInv, EngineType
<1>5. /\ \A q \in Queues : q \in Nat /\ (q < exits => q < exits') /\ (q < exits => q # exits)
      /\ exits < exits'
  BY <1>1, <1>3, QueuesAssumption DEF Queues
<1>6. ASSUME NEW q \in Queues, NEW i \in DOMAIN dpiQueues'[q], dpiQueues'[q][i].exit_flag
      PROVE  i = Len(dpiQueues'[q]) /\ q < exits'
  <2>1. CASE q # exits
    <3>1. dpiQueues'[q] = dpiQueues[q]
      BY <1>2, <1>3, <1>4, <2>1
    <3> QED
      BY <1>5, <1>6, <3>1 DEF DrainInv
  <2>2. CASE q = exits
    <3>1. dpiQueues[q] \in Seq(ConnMetadatas \cup {ExitMessage})
      BY <1>4
    <3>2. dpiQueues'[q] = Append(dpiQueues[q], ExitMessage)
      BY <1>2, <1>3, <1>4, <2>2
    <3>3. /\ dpiQueues'[q] \in Seq(ConnMetadatas \cup {ExitMessage})
          /\ Len(dpiQueues'[q]) = Len(dpiQueues[q]) + 1
          /\ \A j \in 1 .. Len(dpiQueues[q]) : dpiQueues'[q][j] = dpiQueues[q][j]
      BY <3>1, <3>2, AppendedExit
    <3>4. Len(dpiQueues[q]) \in Nat /\ DOMAIN dpiQueues[q] = 1 .. Len(dpiQueues[q])
            /\ DOMAIN dpiQueues'[q] = 1 .. Len(dpiQueues'[q])
      BY <3>1, <3>3, LenProperties
    <3>5. i \notin 1 .. Len(dpiQueues[q])
      BY <1>5, <1>6, <2>2, <3>3, <3>4 DEF DrainInv
    <3>6. i = Len(dpiQueues'[q])
      BY <1>6, <3>3, <3>4, <3>5
    <3> QED
      BY <1>5, <2>2, <3>6
  <2> QED
    BY <2>1, <2>2
<1>7. ASSUME NEW w \in Queues, workers[w].pc = "done" PROVE dpiQueues'[w] = <<>> /\ w < exits'
  <2>1. dpiQueues[w] = <<>> /\ w < exits
    BY <1>7 DEF DrainInv
  <2>2. w # exits
    BY <1>5, <2>1
  <2> QED
    BY <1>2, <1>3, <1>4, <1>5, <2>1, <2>2
<1> QED
  BY <1>3, <1>6, <1>7 DEF DrainInv

\* A worker that takes its exit message leaves an empty queue.
LEMMA DequeueDrain ==
  ASSUME TypeInv, DrainInv, NEW w \in Queues, WorkerStep(w), Dequeue(w) PROVE DrainInv'
<1> DEFINE m == Head(dpiQueues[w])
<1>1. /\ workers[w].pc = "pop" /\ dpiQueues[w] # <<>>
      /\ dpiQueues' = [dpiQueues EXCEPT ![w] = Tail(dpiQueues[w])]
      /\ UNCHANGED <<exits, stopper>>
      /\ m.exit_flag => workers' = [workers EXCEPT ![w].pc = "done"]
      /\ ~m.exit_flag => workers' = [workers EXCEPT ![w].pc = "examine", ![w].m = m]
  BY WorkerFrame DEF Dequeue
<1>2. /\ dpiQueues' \in [Queues -> Seq(ConnMetadatas \cup {ExitMessage})]
      /\ \A v \in Queues \ {w} : dpiQueues'[v] = dpiQueues[v]
      /\ Len(dpiQueues[w]) \in Nat /\ Len(dpiQueues'[w]) = Len(dpiQueues[w]) - 1
      /\ m = dpiQueues[w][1] /\ 1 \in DOMAIN dpiQueues[w]
      /\ \A i \in 1 .. Len(dpiQueues[w]) - 1 : dpiQueues'[w][i] = dpiQueues[w][i + 1]
  BY <1>1, TakenFirst
<1> HIDE DEF m
<1>3. dpiQueues[w] \in Seq(ConnMetadatas \cup {ExitMessage}) /\ dpiQueues'[w] \in Seq(ConnMetadatas \cup {ExitMessage})
  BY <1>2 DEF TypeInv, EngineType
<1>4. DOMAIN dpiQueues[w] = 1 .. Len(dpiQueues[w]) /\ DOMAIN dpiQueues'[w] = 1 .. Len(dpiQueues'[w])
  BY <1>3, LenProperties
<1>5. workers \in [Queues -> Workers]
  BY DEF TypeInv, EngineType
<1>6. /\ \A v \in Queues \ {w} : workers'[v] = workers[v]
      /\ workers'[w].pc = IF m.exit_flag THEN "done" ELSE "examine"
  BY <1>1, <1>5 DEF Workers
<1>7. ASSUME m.exit_flag PROVE dpiQueues'[w] = <<>> /\ w < exits
  <2>1. 1 = Len(dpiQueues[w]) /\ w < exits
    BY <1>2, <1>7 DEF DrainInv
  <2>2. Len(dpiQueues'[w]) = 0
    BY <1>2, <2>1
  <2> QED
    BY <1>3, <2>1, <2>2, EmptySeq
<1>8. ASSUME NEW q \in Queues, NEW i \in DOMAIN dpiQueues'[q], dpiQueues'[q][i].exit_flag
      PROVE  i = Len(dpiQueues'[q]) /\ q < exits
  <2>1. CASE q # w
    <3>1. dpiQueues'[q] = dpiQueues[q]
      BY <1>2, <2>1
    <3> QED
      BY <1>8, <3>1 DEF DrainInv
  <2>2. CASE q = w
    <3>1. i \in 1 .. Len(dpiQueues[w]) - 1
      BY <1>2, <1>4, <1>8, <2>2
    <3>2. i + 1 \in DOMAIN dpiQueues[w] /\ dpiQueues[w][i + 1].exit_flag /\ i \in Int
      BY <1>2, <1>4, <1>8, <2>2, <3>1
    <3>3. i + 1 = Len(dpiQueues[w]) /\ w < exits
      BY <3>2 DEF DrainInv
    <3> QED
      BY <1>2, <2>2, <3>2, <3>3
  <2> QED
    BY <2>1, <2>2
<1> QED
  BY <1>1, <1>2, <1>6, <1>7, <1>8 DEF DrainInv

\* Every step preserves DrainInv as long as no worker throws.
LEMMA DrainNext ==
  ASSUME "throw" \notin Faults, TypeInv, DrainInv, [Next]_vars PROVE DrainInv'
<1> DEFINE Early == {"idle", "join_cleanup", "delete", "erase"}
           Same == /\ UNCHANGED <<dpiQueues, exits>> /\ (stopper' \in Early => stopper \in Early)
                   /\ \A w \in Queues : \/ workers'[w].pc = workers[w].pc
                                        \/ workers'[w].pc \notin {"catch", "clear", "stuck", "done"}
<1>1. ASSUME Same PROVE DrainInv'
  BY <1>1, DrainKept
<1>2. CASE UNCHANGED vars
  BY <1>1, <1>2 DEF vars, enginevars, stopvars, workervars
<1>3. CASE NextPacket \/ CleanerStep \/ Silence \/ DataPathStep
  BY <1>1, <1>3, CleanerFrame DEF NextPacket, InsertBegin, Silence, DataPathStep, enginevars, stopvars, workervars
<1>4. CASE ConsumerStep
  <2>1. CASE InsertPush
    BY <1>4, <2>1, PushDrain
  <2>2. CASE ~InsertPush
    <3>1. UNCHANGED dpiQueues
      BY <1>4, <2>2 DEF ConsumerStep, InsertOrUpdateFlows, InsertNew, InsertFound, InsertCount, enginevars
    <3> QED
      BY <1>1, <1>4, <3>1, ConsumerFrame
  <2> QED
    BY <2>1, <2>2
<1>5. CASE StopBegin \/ JoinThreads
  BY <1>1, <1>5 DEF StopBegin, StopCleanup, JoinThreads, enginevars, workervars
<1>6. CASE TableStop
  <2>1. CASE SendExit
    BY <1>6, <2>1, SendExitDrain
  <2>2. CASE ~SendExit
    BY <1>1, <1>6, <2>2, StopperFrame DEF TableStop, FlowTableStop, FinalLock, FinalDestroy, FinalErase,
       FinalUnlock, SendExitsDone
  <2> QED
    BY <2>1, <2>2
<1>7. ASSUME NEW w \in Queues, WorkerStep(w) PROVE DrainInv'
  <2>1. CASE Dequeue(w)
    BY <1>7, <2>1, DequeueDrain
  <2>2. CASE ~Dequeue(w)
    <3>1. ~Throw(w) /\ ~CatchDecrement(w) /\ ~CatchClear(w)
      BY DEF Throw, CatchDecrement, CatchClear, DrainInv
    <3>2. UNCHANGED dpiQueues
      BY <1>7, <2>2, <3>1 DEF WorkerStep, Worker, Examine, CreateConn, Classify, CallbackFind,
         CallbackUpdate, CallbackDestroy, CallbackReport, enginevars
    <3>3. Moves(w) /\ workers'[w].pc \notin {"catch", "clear", "stuck", "done"}
      <4>1. CASE Continue(w)
        BY <4>1, ContinueMoves
      <4>2. ASSUME NEW pc \in Working, Goto(w, pc) PROVE Moves(w) /\ workers'[w].pc = pc
        BY <4>2, GotoMoves
      <4>3. TypeInv'
        BY <1>7, TypeNext DEF Next
      <4>4. workers \in [Queues -> Workers] /\ workers' \in [Queues -> Workers]
        BY <4>3 DEF TypeInv, EngineType
      <4>5. ASSUME Classify(w), ~Continue(w) PROVE Moves(w) /\ workers'[w].pc = "callback"
        <5>1. PICK s, e : workers' = [workers EXCEPT ![w].pc = "callback", ![w].state = s, ![w].error = e]
          BY <4>5 DEF Classify
        <5> QED
          BY <4>4, <5>1 DEF Moves, Workers
      <4>6. ASSUME CallbackFind(w), ~Continue(w) PROVE Moves(w) /\ workers'[w].pc = "update"
        <5>1. PICK a, g : workers' = [workers EXCEPT ![w].pc = "update", ![w].found = a, ![w].gen = g]
          BY <4>6 DEF CallbackFind
        <5> QED
          BY <4>4, <5>1 DEF Moves, Workers
      <4>7. CASE Examine(w)
        BY <4>1, <4>2, <4>7 DEF Examine, Working
      <4>8. CASE CreateConn(w) \/ CallbackReport(w)
        BY <4>1, <4>8 DEF CreateConn, CallbackReport
      <4>9. CASE CallbackUpdate(w) \/ CallbackDestroy(w)
        BY <4>1, <4>2, <4>9 DEF CallbackUpdate, CallbackDestroy, Working, InCallback
      <4> QED
        BY <1>7, <2>2, <3>1, <4>1, <4>5, <4>6, <4>7, <4>8, <4>9 DEF WorkerStep, Worker
    <3> QED
      BY <1>1, <1>7, <3>2, <3>3, WorkerFrame DEF Moves
  <2> QED
    BY <2>1, <2>2
<1> QED
  BY <1>2, <1>3, <1>4, <1>5, <1>6, <1>7 DEF Next, Terminated

\* A worker that was told to exit leaves no packet behind, unless a worker was put
\* out of service by an exception: its queue stays in use.
THEOREM QueuesDrainedHolds ==
  ASSUME "throw" \notin Faults PROVE Spec => []QueuesDrained
<1>1. Init => TypeInv /\ DrainInv
  <2>1. Init => DrainInv
    BY DEF Init, FlowTableInit, DPIEngineInit, IdleWorker, DrainInv
  <2> QED
    BY <2>1, TypeInit
<1>2. TypeInv /\ DrainInv /\ [Next]_vars => TypeInv' /\ DrainInv'
  BY TypeNext, DrainNext
<1>3. DrainInv => QueuesDrained
  BY DEF DrainInv, QueuesDrained
<1> QED
  BY <1>1, <1>2, <1>3, PTL DEF Spec
================================================================================
