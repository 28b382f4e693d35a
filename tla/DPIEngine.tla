------------------------------- MODULE DPIEngine --------------------------------
(***************************************************************************)
(* DPIEngine.cpp: one worker thread per queue runs Dequeue().  A worker    *)
(* follows the raw ConnInfo pointer of each message; nothing but the       *)
(* global dpiengine_lock, taken only around the callback, protects the     *)
(* entry it points to.                                                     *)
(***************************************************************************)
EXTENDS FlowTable

VARIABLES
  workers,          \* queue -> its worker: [pc, m, state, error, found, gen]
  dpiengine_lock,   \* the worker in the callback, or NULL
  dangled           \* history: some worker used an entry that was erased

workervars == <<workers, dpiengine_lock, dangled>>

IdleWorker == [pc |-> "pop", m |-> NULL, state |-> NULL, error |-> FALSE,
               found |-> NULL, gen |-> 0]

DPIEngineInit ==
  /\ workers = [w \in Queues |-> IdleWorker]
  /\ dpiengine_lock = NULL
  /\ dangled = FALSE

\* Worker w reads or writes the entry its message points to.
UseMessage(w) ==
  dangled' = (dangled \/ ~LivePointer(workers[w].m.info, workers[w].m.gen))

\* Worker w reads or writes the entry that find() returned to it.
UseFound(w) ==
  dangled' = (dangled \/ ~LivePointer(workers[w].found, workers[w].gen))

Goto(w, pc) == workers' = [workers EXCEPT ![w].pc = pc]
Continue(w) == workers' = [workers EXCEPT ![w] = IdleWorker]

\* Pop the next message; leave the loop on the exit message.
Dequeue(w) ==
  /\ workers[w].pc = "pop"
  /\ dpiQueues[w] # <<>>
  /\ dpiQueues' = [dpiQueues EXCEPT ![w] = Tail(@)]
  /\ LET m == Head(dpiQueues[w])
     IN  workers' = IF m.exit_flag
                      THEN [workers EXCEPT ![w].pc = "done"]
                      ELSE [workers EXCEPT ![w].pc = "examine", ![w].m = m]
  /\ UNCHANGED <<dpiengine_lock, dangled, tablevars, jammed, numQueues, conns,
                 updateDPQueue>>

\* Mutation: packets of a finished flow are classified too.
Examine_AnyState(w) ==
  LET i == info[workers[w].m.info]
  IN  /\ workers[w].pc = "examine"
      /\ UseMessage(w)
      /\ \/ i.dpi_state = NULL /\ Goto(w, "create")
         \/ i.dpi_state # NULL /\ ~i.error /\ workers[w].m.data /\ Goto(w, "classify")
         \/ i.dpi_state # NULL /\ (i.error \/ ~workers[w].m.data) /\ Continue(w)
      /\ UNCHANGED <<dpiengine_lock, tablevars, enginevars, conns, updateDPQueue>>

\* Look at the entry: create the navl connection for the first packet, classify
\* a later one that has data while the flow is under inspection without error.
Examine(w) ==
  LET i == info[workers[w].m.info]
  IN  /\ workers[w].pc = "examine"
      /\ UseMessage(w)
      /\ \/ /\ i.dpi_state = NULL
            /\ Goto(w, "create")
         \/ /\ i.dpi_state # NULL
            /\ ~i.error /\ workers[w].m.data /\ i.class_state = INSPECTING
            /\ Goto(w, "classify")
         \/ /\ i.dpi_state # NULL
            /\ i.error \/ ~workers[w].m.data \/ i.class_state # INSPECTING
            /\ Continue(w)
      /\ UNCHANGED <<dpiengine_lock, tablevars, enginevars, conns, updateDPQueue>>

\* navl_conn_create() stores the new connection in the entry, or fails.
CreateConn(w) ==
  LET a == workers[w].m.info
  IN  /\ workers[w].pc = "create"
      /\ UseMessage(w)
      /\ Continue(w)
      /\ \/ /\ navl_conn_create(w)
            /\ info' = [info EXCEPT ![a].dpi_state = NewConn]
         \/ "create" \in Faults /\ UNCHANGED <<conns, info>>
      /\ UNCHANGED <<dpiengine_lock, conn_table, enginevars, updateDPQueue>>

\* navl_classify(): call back with a state, or fail.
Classify(w) ==
  /\ workers[w].pc = "classify"
  /\ UseMessage(w)
  /\ \/ \E s \in NavlStates, e \in BOOLEAN :
          /\ e => "error" \in Faults
          /\ workers' = [workers EXCEPT ![w].pc = "callback", ![w].state = s, ![w].error = e]
     \/ "classify" \in Faults /\ Continue(w)
  /\ UNCHANGED <<dpiengine_lock, tablevars, enginevars, conns, updateDPQueue>>

\* navl_classify_callback() locks dpiengine_lock; updateFlowTableDPIData() finds
\* the entry by the key stored in the old one.  find() does not hold ftbl_mutex:
\* while another thread that does changes the table, it may miss the entry.
CallbackFind(w) ==
  LET a == FindInfo(workers[w].m.info)
  IN  /\ workers[w].pc = "callback"
      /\ dpiengine_lock = NULL
      /\ UseMessage(w)
      /\ \/ /\ a = NULL \/ ftbl_mutex # "free"
            /\ Continue(w)
            /\ UNCHANGED dpiengine_lock
         \/ /\ a # NULL
            /\ workers' = [workers EXCEPT ![w].pc = "update", ![w].found = a,
                                           ![w].gen = info[a].gen]
            /\ dpiengine_lock' = w
      /\ UNCHANGED <<tablevars, enginevars, conns, updateDPQueue>>

\* Mutation: the lock is kept when there is nothing to report.
CallbackUpdate_NoUnlock(w) ==
  /\ workers[w].pc = "update"
  /\ UseFound(w)
  /\ UpdateInfo(workers[w].found, workers[w].state, workers[w].error)
  /\ IF Finished(workers[w].state) THEN Goto(w, "destroy") ELSE Continue(w)
  /\ UNCHANGED <<dpiengine_lock, conn_table, enginevars, conns, updateDPQueue>>

\* Record the state; go on to report it if it is final, else unlock and return.
CallbackUpdate(w) ==
  /\ workers[w].pc = "update"
  /\ UseFound(w)
  /\ UpdateInfo(workers[w].found, workers[w].state, workers[w].error)
  /\ IF Finished(workers[w].state)
       THEN Goto(w, "destroy") /\ UNCHANGED dpiengine_lock
       ELSE Continue(w) /\ dpiengine_lock' = NULL
  /\ UNCHANGED <<conn_table, enginevars, conns, updateDPQueue>>

\* Mutation: the connection is not destroyed.
CallbackDestroy_Forgotten(w) ==
  /\ workers[w].pc = "destroy"
  /\ UseFound(w)
  /\ Goto(w, "report")
  /\ UNCHANGED <<dpiengine_lock, tablevars, enginevars, conns, updateDPQueue>>

\* Destroy the navl connection of the classified flow.
CallbackDestroy(w) ==
  /\ workers[w].pc = "destroy"
  /\ UseFound(w)
  /\ navl_conn_destroy(info[workers[w].found].dpi_state)
  /\ Goto(w, "report")
  /\ UNCHANGED <<dpiengine_lock, tablevars, enginevars, updateDPQueue>>

\* Push the result to the data path, unlock and return.
CallbackReport(w) ==
  /\ workers[w].pc = "report"
  /\ UseFound(w)
  /\ updateDPQueue' = Append(updateDPQueue, DPIFlowData(workers[w].found))
  /\ Continue(w)
  /\ dpiengine_lock' = NULL
  /\ UNCHANGED <<tablevars, enginevars, conns>>

\* An allocation throws: while pop() copies the front message, which stays in
\* the queue, or while the callback builds the result, with dpiengine_lock held.
Throw(w) ==
  /\ "throw" \in Faults
  /\ \/ workers[w].pc = "pop" /\ dpiQueues[w] # <<>>
     \/ workers[w].pc = "report"
  /\ Goto(w, "catch")
  /\ UNCHANGED <<dpiengine_lock, dangled, tablevars, enginevars, conns, updateDPQueue>>

\* The handler takes the queue out of service.
CatchDecrement(w) ==
  /\ workers[w].pc = "catch"
  /\ numQueues' = numQueues - 1
  /\ Goto(w, "clear")
  /\ UNCHANGED <<dpiengine_lock, dangled, tablevars, dpiQueues, jammed, conns, updateDPQueue>>

\* Mutation: the queue is counted out once more when it is cleared.
CatchClear_Decrement(w) ==
  /\ workers[w].pc = "clear"
  /\ numQueues' = IF numQueues > 0 THEN numQueues - 1 ELSE 0
  /\ IF dpiQueues[w] = <<>>
       THEN Goto(w, "done") /\ UNCHANGED jammed
       ELSE Goto(w, "stuck") /\ jammed' = jammed \cup {w}
  /\ UNCHANGED <<dpiengine_lock, dangled, tablevars, dpiQueues, conns, updateDPQueue>>

\* Queue::clear() holds mutex_ and calls pop(), which locks mutex_ again: with a
\* message in the queue the worker never returns and the mutex is never released.
CatchClear(w) ==
  /\ workers[w].pc = "clear"
  /\ IF dpiQueues[w] = <<>>
       THEN Goto(w, "done") /\ UNCHANGED jammed
       ELSE Goto(w, "stuck") /\ jammed' = jammed \cup {w}
  /\ UNCHANGED <<dpiengine_lock, dangled, tablevars, dpiQueues, numQueues, conns,
                 updateDPQueue>>

Worker(w) ==
  \/ Dequeue(w)
  \/ Examine(w)
  \/ CreateConn(w)
  \/ Classify(w)
  \/ CallbackFind(w)
  \/ CallbackUpdate(w)
  \/ CallbackDestroy(w)
  \/ CallbackReport(w)
  \/ Throw(w)
  \/ CatchDecrement(w)
  \/ CatchClear(w)
================================================================================
