------------------------------ MODULE DistDpiProofs -----------------------------
(***************************************************************************)
(* Proofs about DistDpi, for a ring of any size, with or without           *)
(* exceptions in the packet handler.                                       *)
(***************************************************************************)
EXTENDS DistDpi, TLAPS

\* How far start() and the packet handler's start() are, and what they have
\* created by then.
StartInv ==
  /\ stage \in 0 .. Spawned /\ hdl \in 0 .. 3 /\ up \subseteq Parts
  /\ hdl >= 2 => netx # "none"
  /\ hdl = 3 => consumer # "none"

\* stop() runs on behalf of a signal and goes on part by part; unless the signal
\* came early, everything it joins had been started.
StopOrder ==
  /\ early \in BOOLEAN /\ released \in BOOLEAN
  /\ handler = "none" => stopper = "idle" /\ ~early
  /\ handler \notin {"none", "pkt_hdl"} => stopper = "stopped"
  /\ released => handler = "returned"
  /\ handler # "none" /\ ~early => Started

\* What PacketHandler::stop() has seen the end of.
JoinedInv ==
  ~early => /\ stopper = "join_consumer" => netx = "exited"
            /\ stopper = "stopped" => netx = "exited" /\ consumer = "exited"

\* The inductive invariant of start(), of the signal handler and of stop().
DistInv == StartInv /\ StopOrder /\ JoinedInv /\ ExitAfterParts

\* Nothing has been started and no signal has come.
LEMMA DistInvInit == DistInit => DistInv
<1> SUFFICES ASSUME DistInit PROVE DistInv
  OBVIOUS
<1>1. StartInv
  BY DEF DistInit, StartInv, Spawned
<1>2. StopOrder /\ JoinedInv /\ ExitAfterParts
  BY DEF DistInit, StopOrder, JoinedInv, ExitAfterParts
<1> QED
  BY <1>1, <1>2 DEF DistInv

\* The steps of start() and of the threads it creates.
LEMMA StartSteps ==
  ASSUME DistInv, Alive,
         StartStage \/ HandlerStart \/ (\E p \in Parts : PartStart(p)) \/ LoopSpurious
           \/ LoopLock \/ LoopInner \/ LoopWait
  PROVE  DistInv'
<1> USE DEF DistInv, StartInv, StopOrder, JoinedInv, ExitAfterParts, Alive, Started, Spawned,
            Created, stopVars, vars
<1>1. CASE StartStage
  BY <1>1 DEF StartStage
<1>2. CASE HandlerStart
  <2>1. hdl \in 0 .. 2 /\ hdl' = hdl + 1 /\ UNCHANGED <<stopper, stage, loop, up, stopVars>>
    BY <1>2 DEF HandlerStart
  <2>2. early \/ handler = "none"
    BY <2>1
  <2>3. (hdl' >= 2 => netx' # "none") /\ (hdl' = 3 => consumer' = "test")
    BY <1>2, <2>1 DEF HandlerStart
  <2> QED
    BY <2>1, <2>2, <2>3
<1>3. ASSUME NEW p \in Parts, PartStart(p) PROVE DistInv'
  BY <1>3 DEF PartStart
<1>4. CASE LoopSpurious
  BY <1>4 DEF LoopSpurious
<1>5. CASE LoopLock
  BY <1>5 DEF LoopLock
<1>6. CASE LoopInner
  BY <1>6 DEF LoopInner
<1>7. CASE LoopWait
  BY <1>7 DEF LoopWait
<1> QED
  BY <1>1, <1>2, <1>3, <1>4, <1>5, <1>6, <1>7

\* start() returns only to find the packet handler's threads joined, if all parts
\* were up when the signal came.
LEMMA LoopTestStep ==
  ASSUME DistInv, Alive, LoopTest PROVE DistInv'
<1> USE DEF DistInv, StartInv, StopOrder, JoinedInv, ExitAfterParts, Alive, Started, Spawned,
            stopVars
<1>1. CASE released /\ (netx # "exited" \/ consumer # "exited")
  <2>1. early
    BY <1>1
  <2> QED
    BY <1>1, <2>1 DEF LoopTest, Terminate
<1>2. CASE ~(released /\ (netx # "exited" \/ consumer # "exited"))
  BY <1>2 DEF LoopTest, vars
<1> QED
  BY <1>1, <1>2

\* The steps of the signal handler.
LEMMA StopSteps ==
  ASSUME DistInv, Alive, (\E h \in {"main", "start"} : Signal(h)) \/ DistStop \/ StopLock
  PROVE  DistInv'
<1> USE DEF DistInv, StartInv, StopOrder, JoinedInv, ExitAfterParts, Alive, Started, Spawned,
            Created, startVars
<1>1. ASSUME NEW h \in {"main", "start"}, Signal(h) PROVE DistInv'
  <2>1. CASE stage < Created
    BY <1>1, <2>1 DEF Signal, Terminate
  <2>2. CASE ~(stage < Created)
    BY <1>1, <2>2 DEF Signal, vars
  <2> QED
    BY <2>1, <2>2
<1>2. CASE StopPacketHandler
  <2>1. UNCHANGED distVars /\ handler = "pkt_hdl"
    BY <1>2 DEF StopPacketHandler
  <2>2. CASE StopRunning
    BY <2>1, <2>2 DEF StopRunning, distVars, stopVars
  <2>3. CASE StopSet
    BY <2>1, <2>3 DEF StopSet, distVars, stopVars
  <2>4. CASE StopNotify
    BY <2>1, <2>4 DEF StopNotify, NotifyOne, distVars, stopVars
  <2>5. CASE StopNetx
    BY <2>1, <2>5 DEF StopNetx, distVars, stopVars
  <2>6. CASE StopJoinNetx
    BY <2>1, <2>6 DEF StopJoinNetx, distVars, stopVars
  <2>7. CASE StopJoinConsumer
    BY <2>1, <2>7 DEF StopJoinConsumer, distVars, stopVars
  <2>8. CASE /\ \/ stopper = "join_netx" /\ netx = "none"
                \/ stopper = "join_consumer" /\ consumer = "none"
             /\ stopper' = "stopped"
             /\ UNCHANGED <<ring, notify, running, netx_running, netx, consumer>>
    <3>1. early
      BY <2>1, <2>8
    <3> QED
      BY <2>1, <2>8, <3>1 DEF distVars, stopVars
  <2> QED
    BY <1>2, <2>2, <2>3, <2>4, <2>5, <2>6, <2>7, <2>8 DEF StopPacketHandler, Stop
<1>3. CASE StopTable
  BY <1>3 DEF StopTable, vars
<1>4. ASSUME NEW p \in Parts, NEW pc \in {"ftb_join", "engine", "dp_update"},
             NEW next \in {"engine", "dp_update", "th"}, Join(pc, p, next)
      PROVE  DistInv'
  <2>1. CASE p \notin up
    BY <1>4, <2>1 DEF Join, Terminate
  <2>2. CASE p \in up
    BY <1>4, <2>2 DEF Join, vars
  <2> QED
    BY <2>1, <2>2
<1>5. CASE JoinTh
  <2>1. CASE stage < Spawned
    BY <1>5, <2>1 DEF JoinTh, Terminate
  <2>2. CASE ~(stage < Spawned)
    BY <1>5, <2>2 DEF JoinTh, vars
  <2> QED
    BY <2>1, <2>2
<1>6. CASE StopNotifies
  BY <1>6 DEF StopNotifies, vars
<1>7. CASE StopLock
  BY <1>7 DEF StopLock, vars
<1> QED
  BY <1>1, <1>2, <1>3, <1>4, <1>5, <1>6, <1>7 DEF DistStop, StopParts, Parts

\* The steps of the packet handler's threads, which end the process only before
\* the flow table has started or by an exception.
LEMMA HandlingSteps ==
  ASSUME DistInv, Alive, EarlyPacket \/ (Handling /\ UNCHANGED distVars)
  PROVE  DistInv'
<1> USE DEF DistInv, StartInv, StopOrder, JoinedInv, ExitAfterParts, Alive, Started, Spawned,
            distVars, startVars, stopVars
<1>1. CASE EarlyPacket
  BY <1>1 DEF EarlyPacket, Terminate
<1>2. CASE Handling /\ UNCHANGED distVars
  <2>1. CASE NetxStart
    BY <1>2, <2>1 DEF NetxStart
  <2>2. ASSUME NEW event \in {"packet", "disconnect", "other"}, NetxEvent(event) PROVE DistInv'
    BY <1>2, <2>2 DEF NetxEvent
  <2>3. CASE PacketProducer
    BY <1>2, <2>3 DEF PacketProducer, ProducerWrite, ProducerSet, ProducerNotify, NotifyOne
  <2>4. CASE PacketConsumer
    BY <1>2, <2>4 DEF PacketConsumer, ConsumerTest, ConsumerWait, ConsumerCheck, ConsumerDrain,
                      ConsumerReset, ConsumerSelfJoin
  <2>5. CASE SpuriousWake
    BY <1>2, <2>5 DEF SpuriousWake
  <2>6. CASE ConsumerThrow
    BY <1>2, <2>6 DEF ConsumerThrow
  <2> QED
    BY <1>2, <2>1, <2>2, <2>3, <2>4, <2>5, <2>6 DEF Handling
<1> QED
  BY <1>1, <1>2

\* Every step keeps the order in which the parts are started and stopped.
LEMMA DistInvNext == DistInv /\ [DistNext]_allVars => DistInv'
<1> SUFFICES ASSUME DistInv, [DistNext]_allVars PROVE DistInv'
  OBVIOUS
<1>1. CASE DistNext
  <2>1. Alive
    BY <1>1 DEF DistNext
  <2>2. CASE StartStage \/ HandlerStart \/ (\E p \in Parts : PartStart(p)) \/ LoopSpurious
    BY <2>1, <2>2, StartSteps
  <2>3. CASE Loop
    BY <2>1, <2>3, StartSteps, LoopTestStep DEF Loop
  <2>4. CASE (\E h \in {"main", "start"} : Signal(h)) \/ DistStop \/ StopLock
    BY <2>1, <2>4, StopSteps
  <2>5. CASE EarlyPacket \/ (Handling /\ UNCHANGED distVars)
    BY <2>1, <2>5, HandlingSteps
  <2> QED
    BY <1>1, <2>2, <2>3, <2>4, <2>5 DEF DistNext
<1>2. CASE UNCHANGED allVars
  BY <1>2 DEF allVars, vars, distVars, startVars, stopVars, DistInv, StartInv, StopOrder,
              JoinedInv, ExitAfterParts, Started
<1> QED
  BY <1>1, <1>2

\* The order of stopping as an invariant, for a signal at any moment.
THEOREM DistInvariant == DistSpec => []DistInv
BY DistInvInit, DistInvNext, PTL DEF DistSpec

\* main() destroys the parts only after the packet handler's threads have ended.
THEOREM ExitAfterPartsHolds == DistSpec => []ExitAfterParts
<1>1. DistInv => ExitAfterParts
  BY DEF DistInv
<1> QED
  BY <1>1, DistInvariant, PTL

\* No packet enters or leaves the ring once PacketHandler::stop() has returned, so
\* none reaches a flow table that is being stopped.
THEOREM QuietAfterStopHolds == DistSpec => QuietAfterStop
<1>1. DistInv /\ [DistNext]_allVars => [stopper = "stopped" /\ ~early => ring' = ring]_allVars
  <2> SUFFICES ASSUME DistInv, DistNext, stopper = "stopped", ~early PROVE ring' = ring
    BY DEF allVars, vars
  <2>1. netx = "exited" /\ consumer = "exited"
    BY DEF DistInv, JoinedInv
  <2>2. CASE StartStage \/ HandlerStart \/ (\E p \in Parts : PartStart(p)) \/ Loop \/ LoopSpurious
    BY <2>2 DEF StartStage, HandlerStart, PartStart, Loop, LoopTest, LoopLock, LoopInner, LoopWait,
                LoopSpurious, Terminate, vars
  <2>3. CASE (\E h \in {"main", "start"} : Signal(h)) \/ DistStop \/ StopLock
    BY <2>3 DEF Signal, DistStop, StopPacketHandler, StopRunning, Stop, StopSet, StopNotify,
                StopNetx, StopJoinNetx, StopJoinConsumer, StopTable, StopParts, Join, JoinTh,
                StopNotifies, StopLock, Terminate, vars
  <2>4. CASE EarlyPacket \/ (Handling /\ UNCHANGED distVars)
    BY <2>1, <2>4 DEF EarlyPacket, Handling, NetxStart, NetxEvent, PacketProducer, ProducerWrite,
                ProducerSet, ProducerNotify, PacketConsumer, ConsumerTest, ConsumerWait,
                ConsumerCheck, ConsumerDrain, ConsumerReset, ConsumerSelfJoin, SpuriousWake,
                ConsumerThrow
  <2> QED
    BY <2>2, <2>3, <2>4 DEF DistNext
<1> QED
  BY <1>1, DistInvariant, PTL DEF DistSpec, QuietAfterStop
================================================================================
