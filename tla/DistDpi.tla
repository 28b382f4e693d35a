--------------------------------- MODULE DistDpi --------------------------------
(***************************************************************************)
(* DistDpi.cpp, SignalHandler.cpp and Main.cpp around PacketHandler: the   *)
(* thread of DistDpi::start() installs the signal handler, creates the     *)
(* four parts, starts each on a thread of its own and waits; a signal runs *)
(* DistDpi::stop() on the thread it interrupts, which stops the parts one  *)
(* after the other and then lets start() return.                           *)
(*                                                                         *)
(* The packet handler is modelled in full; of the flow table, the engine   *)
(* and the data path only whether their start() has run (up), the rest is  *)
(* in Pipeline.  Not modelled: a second signal, and one that interrupts a  *)
(* thread of the parts.                                                    *)
(***************************************************************************)
EXTENDS PacketHandler

Parts == {"engine", "ftb", "dp_update"}

VARIABLES
  stage,         \* steps of start() done: install, 4 parts, 4 threads
  loop,          \* where start() is in its waiting loop, from stage 9 on
  hdl,           \* steps of PacketHandler::start() done on th[0]
  up,            \* parts whose start() has run
  ftb_running,   \* running_ of the flow table
  handler,       \* where DistDpi::stop() is
  host,          \* the thread the signal interrupted
  mutex,         \* owner of mutex_, or "free"
  released,      \* running_ and notify of DistDpi
  early          \* history: the signal came before all parts were up

startVars == <<stage, loop, hdl, up>>
stopVars == <<ftb_running, handler, host, mutex, released, early>>
distVars == <<startVars, stopVars>>
allVars == <<vars, distVars>>

Created == 5   \* stage from which pkt_hdl_, the last part, exists
Spawned == 9   \* stage from which th has its four threads

DistInit ==
  /\ ring = 0
  /\ notify = FALSE /\ running = FALSE /\ netx_running = FALSE
  /\ netx = "none" /\ consumer = "none" /\ stopper = "idle"
  /\ stage = 0 /\ loop = "test" /\ hdl = 0 /\ up = {}
  /\ ftb_running = FALSE
  /\ handler = "none" /\ host = "none" /\ mutex = "free"
  /\ released = FALSE /\ early = FALSE

\* The process ends in a crash or an exception nobody catches, and all threads
\* with it.
Terminate ==
  /\ consumer' = "abort"
  /\ UNCHANGED <<ring, notify, running, netx_running, netx, stopper>>

--------------------------------------------------------------------------------
(* start(), its threads and main(). *)

\* start() does not run while the handler has interrupted its thread.
Suspended == host = "start" /\ handler # "returned"

StartStage ==
  /\ stage < Spawned /\ ~Suspended
  /\ stage' = stage + 1
  /\ UNCHANGED <<vars, loop, hdl, up, stopVars>>

\* PacketHandler::start() on th[0]: running_, the netx thread, the consumer thread.
HandlerStart ==
  /\ stage > Created /\ hdl < 3
  /\ hdl' = hdl + 1
  /\ running' = (running \/ hdl = 0)
  /\ netx' = IF hdl = 1 THEN "start" ELSE netx
  /\ consumer' = IF hdl = 2 THEN "test" ELSE consumer
  /\ UNCHANGED <<ring, notify, netx_running, stopper, stage, loop, up, stopVars>>

\* DPIEngine::start(), FlowTable::start() and DataPathUpdate::start() on th[1] to th[3].
PartStart(p) ==
  /\ p \notin up
  /\ stage > Created + (CASE p = "engine" -> 1 [] p = "ftb" -> 2 [] p = "dp_update" -> 3)
  /\ up' = up \cup {p}
  /\ ftb_running' = (ftb_running \/ p = "ftb")
  /\ UNCHANGED <<vars, stage, loop, hdl, handler, host, mutex, released, early>>

\* while (!running_), read without the mutex; start() returns and main() with it,
\* which destroys the parts: a thread of the packet handler that was not joined then
\* ends the process.
LoopTest ==
  /\ stage = Spawned /\ ~Suspended /\ loop = "test"
  /\ loop' = IF released THEN "exit" ELSE "lock"
  /\ IF released /\ (netx # "exited" \/ consumer # "exited") THEN Terminate ELSE UNCHANGED vars
  /\ UNCHANGED <<stage, hdl, up, stopVars>>

\* The lock is taken at the top of the body, and again when wait() returns.
LoopLock ==
  /\ ~Suspended /\ loop \in {"lock", "relock"} /\ mutex = "free"
  /\ loop' = "inner" /\ mutex' = "start"
  /\ UNCHANGED <<vars, stage, hdl, up, ftb_running, handler, host, released, early>>

\* while (!notify): the end of the body unlocks, wait() follows else.
LoopInner ==
  /\ ~Suspended /\ loop = "inner"
  /\ IF released THEN loop' = "test" /\ mutex' = "free"
                 ELSE loop' = "towait" /\ UNCHANGED mutex
  /\ UNCHANGED <<vars, stage, hdl, up, ftb_running, handler, host, released, early>>

LoopWait ==
  /\ ~Suspended /\ loop = "towait"
  /\ loop' = "wait" /\ mutex' = "free"
  /\ UNCHANGED <<vars, stage, hdl, up, ftb_running, handler, host, released, early>>

LoopSpurious ==
  /\ ~Suspended /\ loop = "wait"
  /\ loop' = "relock"
  /\ UNCHANGED <<vars, stage, hdl, up, stopVars>>

Loop == LoopTest \/ LoopLock \/ LoopInner \/ LoopWait

--------------------------------------------------------------------------------
(* The signal handler: DistDpi::stop(). *)

Started == stage = Spawned /\ hdl = 3 /\ up = Parts

\* signalreceived() on main's thread or on that of start(); pkt_hdl_ may be null.
Signal(h) ==
  /\ stage > 0 /\ handler = "none"
  /\ host' = h
  /\ early' = ~Started
  /\ handler' = "pkt_hdl"
  /\ IF stage < Created THEN Terminate ELSE UNCHANGED vars
  /\ UNCHANGED <<startVars, ftb_running, mutex, released>>

\* PacketHandler::stop(); threads that do not exist yet are not joined.
StopPacketHandler ==
  /\ handler = "pkt_hdl"
  /\ \/ StopRunning \/ Stop
     \/ /\ \/ stopper = "join_netx" /\ netx = "none"
           \/ stopper = "join_consumer" /\ consumer = "none"
        /\ stopper' = "stopped"
        /\ UNCHANGED <<ring, notify, running, netx_running, netx, consumer>>
  /\ UNCHANGED distVars

\* Mutation: PacketHandler::stop() is left to finish on its own.
StopTable_Early ==
  /\ handler = "pkt_hdl" /\ stopper = "join_netx"
  /\ handler' = "ftb_join"
  /\ ftb_running' = FALSE
  /\ UNCHANGED <<vars, startVars, host, mutex, released, early>>

\* FlowTable::stop() tells its thread to end ...
StopTable ==
  /\ handler = "pkt_hdl" /\ stopper = "stopped"
  /\ handler' = "ftb_join"
  /\ ftb_running' = FALSE
  /\ UNCHANGED <<vars, startVars, host, mutex, released, early>>

\* ... and joins it, as the other parts do with theirs.  Joining what was not
\* started ends the process; a flow table started since then runs on.
Join(pc, p, next) ==
  /\ handler = pc
  /\ \/ p \notin up /\ Terminate /\ UNCHANGED handler
     \/ p \in up /\ (p = "ftb" => ~ftb_running) /\ handler' = next /\ UNCHANGED vars
  /\ UNCHANGED <<startVars, ftb_running, host, mutex, released, early>>

StopParts ==
  \/ Join("ftb_join", "ftb", "engine")
  \/ Join("engine", "engine", "dp_update")
  \/ Join("dp_update", "dp_update", "th")

\* th[0] to th[3] are joined.
JoinTh ==
  /\ handler = "th"
  /\ \/ stage < Spawned /\ Terminate /\ UNCHANGED handler
     \/ Started /\ handler' = "lock" /\ UNCHANGED vars
  /\ UNCHANGED <<startVars, ftb_running, host, mutex, released, early>>

\* Mutation: the flags are set without the mutex.
StopLock_None ==
  /\ handler = "lock"
  /\ handler' = "notify"
  /\ UNCHANGED <<vars, startVars, ftb_running, host, mutex, released, early>>

\* A handler on start()'s own thread waits for ever if that thread has the mutex.
StopLock ==
  /\ handler = "lock" /\ mutex = "free"
  /\ handler' = "notify" /\ mutex' = "handler"
  /\ UNCHANGED <<vars, startVars, ftb_running, host, released, early>>

\* The flags, notify_one() and the end of stop().
StopNotifies ==
  /\ handler = "notify"
  /\ released' = TRUE
  /\ loop' = IF loop = "wait" THEN "relock" ELSE loop
  /\ mutex' = IF mutex = "handler" THEN "free" ELSE mutex
  /\ handler' = "returned"
  /\ UNCHANGED <<vars, stage, hdl, up, ftb_running, host, early>>

DistStop == StopPacketHandler \/ StopTable \/ StopParts \/ JoinTh \/ StopNotifies

--------------------------------------------------------------------------------

\* A packet that makes a new flow is queued through dpiEngine_, which is null until
\* FlowTable::start() has run.
EarlyPacket ==
  /\ consumer = "drain" /\ ring > 0 /\ "ftb" \notin up
  /\ Terminate
  /\ UNCHANGED distVars

Handling ==
  \/ NetxStart
  \/ \E event \in {"packet", "disconnect", "other"} : NetxEvent(event)
  \/ PacketProducer \/ PacketConsumer
  \/ SpuriousWake \/ ConsumerThrow

\* The process has not ended.
Alive == loop # "exit" /\ consumer # "abort"

DistNext ==
  /\ Alive
  /\ \/ StartStage \/ HandlerStart \/ \E p \in Parts : PartStart(p)
     \/ Loop \/ LoopSpurious
     \/ \E h \in {"main", "start"} : Signal(h)
     \/ DistStop \/ StopLock
     \/ EarlyPacket
     \/ Handling /\ UNCHANGED distVars

DistSpec == DistInit /\ [][DistNext]_allVars

\* Threads keep running, and a mutex that is free again and again is got; packets,
\* other events and the signal are up to the environment.
DistFairSpec ==
  /\ DistSpec
  /\ WF_allVars(Alive /\ StartStage)
  /\ WF_allVars(Alive /\ HandlerStart)
  /\ WF_allVars(Alive /\ \E p \in Parts : PartStart(p))
  /\ WF_allVars(Alive /\ Loop)
  /\ WF_allVars(Alive /\ DistStop)
  /\ SF_allVars(Alive /\ StopLock)
  /\ WF_allVars(Alive /\ NetxStart /\ UNCHANGED distVars)
  /\ WF_allVars(Alive /\ PacketProducer /\ UNCHANGED distVars)
  /\ WF_allVars(Alive /\ PacketConsumer /\ UNCHANGED distVars)

--------------------------------------------------------------------------------
(* Properties. *)

\* Once all parts were up, main() returns only after stop() has seen the end of the
\* packet handler's threads: nothing handles packets while the parts are destroyed.
ExitAfterParts ==
  loop = "exit" /\ ~early => consumer # "abort"

\* stop() reaches a consumer that is asleep after stop() set the flag: it leaves its
\* loop, provided that PacketHandler::start() does not set running_ again.
StopWakesSleeper ==
  stopper = "notify" /\ notify /\ consumer = "wait" /\ ~early ~> ConsumerGone

\* After PacketHandler::stop() has returned no packet enters or leaves the ring, so
\* none reaches the flow table, which DistDpi::stop() stops next; provided that the
\* signal did not come before all parts were up.
QuietAfterStop == [][stopper = "stopped" /\ ~early => ring' = ring]_allVars

\* A stop() on another thread that has joined the parts' threads makes start()
\* return, wherever start() is in its loop.
StopReleasesStart ==
  handler = "lock" /\ host = "main" ~> ~Alive
================================================================================
