----------------------------- MODULE PacketHandler ------------------------------
(***************************************************************************)
(* PacketHandler.cpp: the netx thread receives packets in its select loop  *)
(* and pushes them into the ring (PacketProducer); the consumer thread     *)
(* sleeps on m_cv until the global flag notify is set, drains the ring     *)
(* into the flow table and clears the flag (PacketConsumer); stop() tells  *)
(* both to leave and joins them.                                           *)
(*                                                                         *)
(* Only the consumer ever locks m_mutex: the producer and stop() set       *)
(* notify and call notify_one() without it, so their steps fall anywhere   *)
(* between the consumer's test of notify, its wait() and its store of      *)
(* false.  The ring, a bounded FIFO (ProducerConsumerQueue), is its length *)
(* here.                                                                   *)
(***************************************************************************)
EXTENDS Naturals

CONSTANTS
  Capacity,   \* records the ring can hold: its size minus one
  MayThrow    \* whether handling a packet may throw

ASSUME CapacityAssumption == Capacity \in Nat \ {0} /\ MayThrow \in BOOLEAN

VARIABLES
  ring,          \* number of packets in queue_
  notify,        \* ::notify
  running,       \* running_ of the packet handler
  netx_running,  \* running_ of the netx service
  netx,          \* where the netx thread is
  consumer,      \* where the consumer thread is
  stopper        \* where the thread calling stop() is

vars == <<ring, notify, running, netx_running, netx, consumer, stopper>>

\* start() has set running_ and created the two threads.
Init ==
  /\ ring = 0
  /\ notify = FALSE
  /\ running = TRUE
  /\ netx_running = FALSE
  /\ netx = "start"
  /\ consumer = "test"
  /\ stopper = "idle"

\* m_cv.notify_one(): nobody but the consumer ever waits.
NotifyOne == consumer' = IF consumer = "wait" THEN "test" ELSE consumer

--------------------------------------------------------------------------------
(* The netx thread: selectEventLoop() and PacketProducer(). *)

\* start_netx_service(): a library or socket call fails and the thread ends, or
\* selectEventLoop() begins, which sets its running_ even if stop came first.
NetxStart ==
  /\ netx = "start"
  /\ \/ netx' = "exited" /\ UNCHANGED netx_running
     \/ netx' = "select" /\ netx_running' = TRUE
  /\ UNCHANGED <<ring, notify, running, consumer, stopper>>

\* select() returns; without running_ the loop ends, else a packet goes to
\* PacketProducer() and a disconnection of the library ends the loop too.
NetxEvent(event) ==
  /\ netx = "select"
  /\ netx' = IF ~netx_running \/ event = "disconnect" THEN "exited"
             ELSE IF event = "packet" THEN "write" ELSE "select"
  /\ UNCHANGED <<ring, notify, running, netx_running, consumer, stopper>>

\* queue_.write(): busy-wait while the ring is full.
ProducerWrite ==
  /\ netx = "write"
  /\ ring < Capacity
  /\ ring' = ring + 1
  /\ netx' = "set"
  /\ UNCHANGED <<notify, running, netx_running, consumer, stopper>>

ProducerSet ==
  /\ netx = "set"
  /\ notify' = TRUE
  /\ netx' = "notify"
  /\ UNCHANGED <<ring, running, netx_running, consumer, stopper>>

ProducerNotify ==
  /\ netx = "notify"
  /\ NotifyOne
  /\ netx' = "select"
  /\ UNCHANGED <<ring, notify, running, netx_running, stopper>>

PacketProducer ==
  \/ ProducerWrite
  \/ ProducerSet
  \/ ProducerNotify

--------------------------------------------------------------------------------
(* The consumer thread: PacketConsumer(). *)

\* while (!notify): go on, or head for wait().
ConsumerTest ==
  /\ consumer = "test"
  /\ consumer' = IF notify THEN "check" ELSE "towait"
  /\ UNCHANGED <<ring, notify, running, netx_running, netx, stopper>>

\* m_cv.wait(): only from here on can a notification reach the consumer.
ConsumerWait ==
  /\ consumer = "towait"
  /\ consumer' = "wait"
  /\ UNCHANGED <<ring, notify, running, netx_running, netx, stopper>>

SpuriousWake ==
  /\ consumer = "wait"
  /\ consumer' = "test"
  /\ UNCHANGED <<ring, notify, running, netx_running, netx, stopper>>

\* Mutation: the consumer never looks at running_.
ConsumerCheck_Forever ==
  /\ consumer = "check"
  /\ consumer' = "drain"
  /\ UNCHANGED <<ring, notify, running, netx_running, netx, stopper>>

ConsumerCheck ==
  /\ consumer = "check"
  /\ consumer' = IF running THEN "drain" ELSE "exited"
  /\ UNCHANGED <<ring, notify, running, netx_running, netx, stopper>>

\* Mutation: one packet per notification.
ConsumerDrain_One ==
  /\ consumer = "drain"
  /\ ring' = IF ring = 0 THEN 0 ELSE ring - 1
  /\ consumer' = "reset"
  /\ UNCHANGED <<notify, running, netx_running, netx, stopper>>

\* Mutation: the packet is looked at but not removed from the ring.
ConsumerDrain_Peek ==
  /\ consumer = "drain"
  /\ consumer' = IF ring = 0 THEN "reset" ELSE "drain"
  /\ UNCHANGED <<ring, notify, running, netx_running, netx, stopper>>

\* One turn of the loop that reads a packet and classifies it, or its end.
ConsumerDrain ==
  /\ consumer = "drain"
  /\ IF ring = 0
       THEN consumer' = "reset" /\ UNCHANGED ring
       ELSE ring' = ring - 1 /\ UNCHANGED consumer
  /\ UNCHANGED <<notify, running, netx_running, netx, stopper>>

\* notify = false, whatever happened since the ring was found empty.
ConsumerReset ==
  /\ consumer = "reset"
  /\ notify' = FALSE
  /\ consumer' = "test"
  /\ UNCHANGED <<ring, running, netx_running, netx, stopper>>

\* classifyFlows() throws; the handler calls stop(), which sets the flags ...
ConsumerThrow ==
  /\ MayThrow
  /\ consumer = "drain"
  /\ ring > 0
  /\ ring' = ring - 1
  /\ running' = FALSE
  /\ notify' = TRUE
  /\ netx_running' = FALSE
  /\ consumer' = "catch"
  /\ UNCHANGED <<netx, stopper>>

\* ... joins the netx thread and then itself, which throws again and ends the
\* process (std::terminate).
ConsumerSelfJoin ==
  /\ consumer = "catch"
  /\ netx = "exited"
  /\ consumer' = "abort"
  /\ UNCHANGED <<ring, notify, running, netx_running, netx, stopper>>

PacketConsumer ==
  \/ ConsumerTest
  \/ ConsumerWait
  \/ ConsumerCheck
  \/ ConsumerDrain
  \/ ConsumerReset
  \/ ConsumerSelfJoin

--------------------------------------------------------------------------------
(* stop(), on the thread that handles the signal. *)

StopRunning ==
  /\ stopper = "idle"
  /\ running' = FALSE
  /\ stopper' = "set"
  /\ UNCHANGED <<ring, notify, netx_running, netx, consumer>>

StopSet ==
  /\ stopper = "set"
  /\ notify' = TRUE
  /\ stopper' = "notify"
  /\ UNCHANGED <<ring, running, netx_running, netx, consumer>>

StopNotify ==
  /\ stopper = "notify"
  /\ NotifyOne
  /\ stopper' = "netx"
  /\ UNCHANGED <<ring, notify, running, netx_running, netx>>

\* stop_netx_service().
StopNetx ==
  /\ stopper = "netx"
  /\ netx_running' = FALSE
  /\ stopper' = "join_netx"
  /\ UNCHANGED <<ring, notify, running, netx, consumer>>

StopJoinNetx ==
  /\ stopper = "join_netx"
  /\ netx = "exited"
  /\ stopper' = "join_consumer"
  /\ UNCHANGED <<ring, notify, running, netx_running, netx, consumer>>

\* Mutation: stop() does not wait for the consumer.
StopJoinConsumer_None ==
  /\ stopper = "join_consumer"
  /\ stopper' = "stopped"
  /\ UNCHANGED <<ring, notify, running, netx_running, netx, consumer>>

StopJoinConsumer ==
  /\ stopper = "join_consumer"
  /\ consumer = "exited"
  /\ stopper' = "stopped"
  /\ UNCHANGED <<ring, notify, running, netx_running, netx, consumer>>

Stop ==
  \/ StopSet
  \/ StopNotify
  \/ StopNetx
  \/ StopJoinNetx
  \/ StopJoinConsumer

Next ==
  \/ NetxStart
  \/ \E event \in {"packet", "disconnect", "other"} : NetxEvent(event)
  \/ PacketProducer
  \/ PacketConsumer
  \/ SpuriousWake
  \/ ConsumerThrow
  \/ StopRunning
  \/ Stop

Spec == Init /\ [][Next]_vars

\* Threads keep running; packets, other events and the decision to stop are up
\* to the environment.
Fairness ==
  /\ WF_vars(NetxStart)
  /\ WF_vars(PacketProducer)
  /\ WF_vars(PacketConsumer)
  /\ WF_vars(Stop)

FairSpec == Spec /\ Fairness

--------------------------------------------------------------------------------
(* Properties. *)

\* The consumer thread has left its loop, for good or by an exception.
ConsumerGone == consumer \in {"exited", "catch", "abort"}

\* A notification that finds the consumer asleep and the flag still set is not
\* wasted: the consumer goes on to empty the ring, or it leaves because the handler
\* was stopped, or the next packet is already there.
WakeDrains ==
  netx = "notify" /\ notify /\ consumer = "wait"
    ~> ConsumerGone \/ ring = 0 \/ netx = "write"

\* The busy wait of PacketProducer() ends whenever the consumer is draining.
BusyWaitEnds ==
  netx = "write" /\ consumer = "drain" ~> netx # "write" \/ ConsumerGone

\* "After pushing in the queue, notifies the consumer thread that there is data in
\* the queue" (PacketHandler.h:64-65): while there is a packet in the ring, the
\* consumer thread goes on to read it, unless the handler is stopped.
PacketsHandled == ring > 0 ~> consumer = "drain" \/ ~running
================================================================================
