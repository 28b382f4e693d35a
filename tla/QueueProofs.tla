------------------------------- MODULE QueueProofs ------------------------------
(***************************************************************************)
(* Proofs about Queue, for any number of threads and items.                *)
(***************************************************************************)
EXTENDS Queue, SequenceTheorems, TLAPS

\* What the steps of the threads preserve: the parts of TypeOK about threads, who
\* holds mutex_, who waits, and that no wakeup is lost.
WakeInv ==
  /\ waiting \subseteq Poppers
  /\ pc \in [Threads -> {"idle", "test", "wait", "relock", "notify", "clear",
                         "selflock", "done"}]
  /\ MutexHeld
  /\ NoLostWakeup

\* The threads start outside the queue.
LEMMA WakeInvInit == Init => WakeInv
BY QueueAssumption DEF Init, WakeInv, MutexHeld, NoLostWakeup, Threads

\* Every step of a popper, a pusher or a clearer preserves it.
LEMMA WakeInvNext == WakeInv /\ [Next]_vars => WakeInv'
<1> SUFFICES ASSUME WakeInv, [Next]_vars PROVE WakeInv'
  OBVIOUS
<1> USE QueueAssumption DEF WakeInv, MutexHeld, NoLostWakeup, Threads, Goto
<1>1. ASSUME NEW p \in Poppers, PopLock(p) PROVE WakeInv'
  BY <1>1 DEF PopLock
<1>2. ASSUME NEW p \in Poppers, PopWait(p) PROVE WakeInv'
  BY <1>2 DEF PopWait
<1>3. ASSUME NEW p \in Poppers, PopTake(p) PROVE WakeInv'
  BY <1>3 DEF PopTake
<1>4. ASSUME NEW p \in Poppers, SpuriousWake(p) PROVE WakeInv'
  BY <1>4 DEF SpuriousWake
<1>5. ASSUME NEW t \in Pushers, Push(t) PROVE WakeInv'
  BY <1>5 DEF Push
<1>6. ASSUME NEW t \in Pushers, PushNotify(t) PROVE WakeInv'
  <2>1. CASE waiting = {}
    BY <1>6, <2>1 DEF PushNotify
  <2>2. CASE waiting # {}
    BY <1>6, <2>2 DEF PushNotify
  <2> QED
    BY <2>1, <2>2
<1>7. ASSUME NEW p \in Poppers, ClearLock(p) PROVE WakeInv'
  BY <1>7 DEF ClearLock
<1>8. ASSUME NEW p \in Poppers, ClearEmpty(p) PROVE WakeInv'
  BY <1>8 DEF ClearEmpty
<1>9. ASSUME NEW p \in Poppers, ClearPop(p) PROVE WakeInv'
  BY <1>9 DEF ClearPop
<1>10. CASE UNCHANGED vars
  BY <1>10 DEF vars
<1> QED
  BY <1>1, <1>2, <1>3, <1>4, <1>5, <1>6, <1>7, <1>8, <1>9, <1>10
     DEF Next, Popper, Clearer

\* mutex_ is held by the one thread between its lock and its unlock, however many
\* threads use the queue.
THEOREM MutexHeldAlways == Spec => []MutexHeld
<1>1. WakeInv => MutexHeld
  BY DEF WakeInv
<1> QED
  BY WakeInvInit, WakeInvNext, <1>1, PTL DEF Spec

\* Notifying after unlocking loses no wakeup, however many threads use the queue.
THEOREM NoWakeupLost == Spec => []NoLostWakeup
<1>1. WakeInv => NoLostWakeup
  BY DEF WakeInv
<1> QED
  BY WakeInvInit, WakeInvNext, <1>1, PTL DEF Spec

\* Fifo, item by item: the n-th item popped is item n, and the items in the queue
\* continue the count.
OrderInv ==
  /\ popped \in Seq(Nat)
  /\ queue \in Seq(Nat)
  /\ pushed = Len(popped) + Len(queue)
  /\ \A i \in 1 .. Len(popped) : popped[i] = i
  /\ \A i \in 1 .. Len(queue) : queue[i] = Len(popped) + i

\* Only taking an item and pushing one touch the items, and both keep their order.
LEMMA OrderInvNext == OrderInv /\ [Next]_vars => OrderInv'
<1> SUFFICES ASSUME OrderInv, [Next]_vars PROVE OrderInv'
  OBVIOUS
<1>1. ASSUME NEW p \in Poppers, PopTake(p) PROVE OrderInv'
  <2>1. /\ Head(queue) = queue[1] /\ Head(queue) \in Nat
        /\ Tail(queue) \in Seq(Nat) /\ Len(Tail(queue)) = Len(queue) - 1
        /\ \A i \in 1 .. Len(queue) - 1 : Tail(queue)[i] = queue[i + 1]
    BY <1>1 DEF PopTake, OrderInv
  <2>2. Len(queue) \in Nat \ {0} /\ Len(popped) \in Nat
    BY <1>1, EmptySeq DEF PopTake, OrderInv
  <2>3. queue[1] = Len(popped) + 1
    BY <2>2 DEF OrderInv
  <2>4. /\ popped' \in Seq(Nat) /\ Len(popped') = Len(popped) + 1
        /\ \A i \in 1 .. Len(popped) : popped'[i] = popped[i]
        /\ popped'[Len(popped) + 1] = queue[1]
    BY <1>1, <2>1 DEF PopTake, OrderInv
  <2> QED
    BY <1>1, <2>1, <2>2, <2>3, <2>4 DEF PopTake, OrderInv
<1>2. ASSUME NEW t \in Pushers, Push(t) PROVE OrderInv'
  <2>1. Len(queue) \in Nat /\ Len(popped) \in Nat /\ pushed \in Nat
    BY DEF OrderInv
  <2>2. /\ queue' \in Seq(Nat) /\ Len(queue') = Len(queue) + 1
        /\ \A i \in 1 .. Len(queue) : queue'[i] = queue[i]
        /\ queue'[Len(queue) + 1] = pushed + 1
    BY <1>2, <2>1 DEF Push, OrderInv
  <2> QED
    BY <1>2, <2>1, <2>2 DEF Push, OrderInv
<1>3. CASE UNCHANGED <<queue, pushed, popped>>
  BY <1>3 DEF OrderInv
<1> QED
  BY <1>1, <1>2, <1>3
     DEF Next, vars, Popper, Clearer, PopLock, PopWait, SpuriousWake, PushNotify,
         ClearLock, ClearEmpty, ClearPop

\* Items leave in the order they entered and none is lost or duplicated, however
\* many threads push, pop, wake without reason or call clear().
THEOREM FifoHolds == Spec => []Fifo
<1>1. Init => OrderInv
  BY DEF Init, OrderInv
<1>2. OrderInv => Fifo
  <2> SUFFICES ASSUME OrderInv PROVE Fifo
    OBVIOUS
  <2> DEFINE count == [n \in 1 .. pushed |-> n]
  <2>1. Len(queue) \in Nat /\ Len(popped) \in Nat /\ pushed \in Nat
    BY DEF OrderInv
  <2>2. count \in Seq(Nat) /\ Len(count) = pushed
    BY <2>1
  <2>3. /\ popped \o queue \in Seq(Nat) /\ Len(popped \o queue) = pushed
        /\ \A i \in 1 .. pushed : (popped \o queue)[i] = i
    BY <2>1, ConcatProperties DEF OrderInv
  <2> HIDE DEF count
  <2>4. \A i \in 1 .. pushed : count[i] = i
    BY DEF count
  <2>5. popped \o queue = count
    BY <2>2, <2>3, <2>4, SeqEqual
  <2> QED
    BY <2>5 DEF Fifo, count
<1> QED
  BY <1>1, OrderInvNext, <1>2, PTL DEF Spec
================================================================================
