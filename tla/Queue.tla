---------------------------------- MODULE Queue ---------------------------------
(***************************************************************************)
(* include/Queue.h: the blocking queue between FlowTable and the DPI       *)
(* workers and between FlowTable and DataPathUpdate.  mutex_ guards        *)
(* queue_; pop() waits on cond_ while queue_ is empty; push() unlocks      *)
(* before it notifies.  A worker whose loop throws calls clear().          *)
(***************************************************************************)
EXTENDS Naturals, Sequences

CONSTANTS
  Poppers,    \* threads that call pop(), and clear() when they fail
  Pushers,    \* threads that call push()
  None,       \* no thread
  MaxItems    \* bound: items pushed, numbered 1 .. MaxItems

ASSUME QueueAssumption ==
  /\ None \notin Poppers \cup Pushers
  /\ Poppers \cap Pushers = {}
  /\ Poppers # {}
  /\ MaxItems \in Nat

Threads == Poppers \cup Pushers

VARIABLES
  queue,      \* queue_
  mutex,      \* mutex_: the thread that holds it, or None
  waiting,    \* threads blocked in cond_.wait()
  pc,         \* thread -> where it is
  pushed,     \* number of items pushed: item n is the n-th
  popped      \* history: the items popped, in order

vars == <<queue, mutex, waiting, pc, pushed, popped>>

Init ==
  /\ queue = <<>>
  /\ mutex = None
  /\ waiting = {}
  /\ pc = [t \in Threads |-> "idle"]
  /\ pushed = 0
  /\ popped = <<>>

Goto(t, l) == pc' = [pc EXCEPT ![t] = l]

\* unique_lock: on entry to pop() and again when a wait() ends.
PopLock(p) ==
  /\ pc[p] \in {"idle", "relock"}
  /\ mutex = None
  /\ mutex' = p
  /\ Goto(p, "test")
  /\ UNCHANGED <<queue, waiting, pushed, popped>>

\* Mutation: pop() does not test again after a wait().
PopTake_NoRetest(p) ==
  /\ pc[p] \in {"test", "relock"}
  /\ pc[p] = "test" => queue # <<>>
  /\ pc[p] = "relock" => mutex = None
  /\ popped' = IF queue = <<>> THEN popped \o <<0>> ELSE Append(popped, Head(queue))
  /\ queue' = IF queue = <<>> THEN <<>> ELSE Tail(queue)
  /\ mutex' = None
  /\ Goto(p, "idle")
  /\ UNCHANGED <<waiting, pushed>>

\* The queue is empty: wait() releases mutex_ and blocks in one step.
PopWait(p) ==
  /\ pc[p] = "test"
  /\ queue = <<>>
  /\ mutex' = None
  /\ waiting' = waiting \cup {p}
  /\ Goto(p, "wait")
  /\ UNCHANGED <<queue, pushed, popped>>

\* Take the front item, release mutex_ and return.
PopTake(p) ==
  /\ pc[p] = "test"
  /\ queue # <<>>
  /\ popped' = Append(popped, Head(queue))
  /\ queue' = Tail(queue)
  /\ mutex' = None
  /\ Goto(p, "idle")
  /\ UNCHANGED <<waiting, pushed>>

\* A wait() may end without a notification.
SpuriousWake(p) ==
  /\ p \in waiting
  /\ waiting' = waiting \ {p}
  /\ Goto(p, "relock")
  /\ UNCHANGED <<queue, mutex, pushed, popped>>

\* push(): lock, append, unlock; the notification is still to come.
Push(t) ==
  /\ pc[t] = "idle"
  /\ mutex = None
  /\ pushed < MaxItems
  /\ pushed' = pushed + 1
  /\ queue' = Append(queue, pushed + 1)
  /\ Goto(t, "notify")
  /\ UNCHANGED <<mutex, waiting, popped>>

\* Mutation: push() notifies only when the queue was empty before.
PushNotify_FirstOnly(t) ==
  /\ pc[t] = "notify"
  /\ IF waiting = {} \/ Len(queue) # 1
       THEN Goto(t, "idle") /\ UNCHANGED waiting
       ELSE \E p \in waiting : /\ waiting' = waiting \ {p}
                               /\ pc' = [pc EXCEPT ![t] = "idle", ![p] = "relock"]
  /\ UNCHANGED <<queue, mutex, pushed, popped>>

\* cond_.notify_one(): wake one waiting thread, if there is one.
PushNotify(t) ==
  /\ pc[t] = "notify"
  /\ IF waiting = {}
       THEN Goto(t, "idle") /\ UNCHANGED waiting
       ELSE \E p \in waiting : /\ waiting' = waiting \ {p}
                               /\ pc' = [pc EXCEPT ![t] = "idle", ![p] = "relock"]
  /\ UNCHANGED <<queue, mutex, pushed, popped>>

\* clear(): take mutex_.
ClearLock(p) ==
  /\ pc[p] = "idle"
  /\ mutex = None
  /\ mutex' = p
  /\ Goto(p, "clear")
  /\ UNCHANGED <<queue, waiting, pushed, popped>>

\* With nothing to clear: unlock, notify_all() and return.  The thread that
\* cleared its queue ends.
ClearEmpty(p) ==
  /\ pc[p] = "clear"
  /\ queue = <<>>
  /\ mutex' = None
  /\ waiting' = {}
  /\ pc' = [t \in Threads |-> IF t = p THEN "done"
                              ELSE IF t \in waiting THEN "relock" ELSE pc[t]]
  /\ UNCHANGED <<queue, pushed, popped>>

\* With something to clear: clear() calls pop(), which locks the mutex_ that the
\* calling thread already holds, and never returns.
ClearPop(p) ==
  /\ pc[p] = "clear"
  /\ queue # <<>>
  /\ Goto(p, "selflock")
  /\ UNCHANGED <<queue, mutex, waiting, pushed, popped>>

Popper(p) ==
  \/ PopLock(p)
  \/ PopWait(p)
  \/ PopTake(p)

Clearer(p) ==
  \/ ClearEmpty(p)
  \/ ClearPop(p)

Next ==
  \/ \E p \in Poppers : Popper(p) \/ SpuriousWake(p) \/ ClearLock(p) \/ Clearer(p)
  \/ \E t \in Pushers : Push(t) \/ PushNotify(t)

Spec == Init /\ [][Next]_vars

\* A thread that can go on eventually does; the mutex need not be fair, since
\* whoever gets it instead takes an item too.
Fairness ==
  /\ \A p \in Poppers : WF_vars(Popper(p) \/ Clearer(p))
  /\ \A t \in Pushers : WF_vars(PushNotify(t))

FairSpec == Spec /\ Fairness

--------------------------------------------------------------------------------
(* Properties. *)

TypeOK ==
  /\ queue \in Seq(1 .. MaxItems)
  /\ mutex \in Poppers \cup {None}
  /\ waiting \subseteq Poppers
  /\ pc \in [Threads -> {"idle", "test", "wait", "relock", "notify", "clear",
                         "selflock", "done"}]
  /\ pushed \in 0 .. MaxItems
  /\ popped \in Seq(1 .. MaxItems)

\* The thread that holds mutex_ is the only one between locking and unlocking,
\* and a thread that waits for a notification does not hold it.
MutexHeld ==
  \A p \in Poppers :
    /\ mutex = p <=> pc[p] \in {"test", "clear", "selflock"}
    /\ p \in waiting <=> pc[p] = "wait"

\* No wakeup is lost although push() notifies after it unlocked: if a popper waits
\* while there is an item, and the others wait too or are gone, a notification is
\* still on its way.
NoLostWakeup ==
  /\ queue # <<>>
  /\ waiting # {}
  /\ \A p \in Poppers : pc[p] \in {"wait", "done"}
  => \E t \in Pushers : pc[t] = "notify"

\* Items leave in the order they entered, none is lost or duplicated, whoever
\* pushes and pops.
Fifo == popped \o queue = [n \in 1 .. pushed |-> n]

\* Every item that was pushed is eventually popped, unless a popper failed and
\* called clear().
EveryItemPopped ==
  \A n \in 1 .. MaxItems :
    pushed >= n ~> \/ Len(popped) >= n
                   \/ \E p \in Poppers : pc[p] \in {"clear", "selflock", "done"}

\* "Take a lock and clear all values from the queue" (Queue.h:57-58): a thread
\* that calls clear() returns from it with the queue cleared.
ClearReturns == \A p \in Poppers : pc[p] = "clear" ~> pc[p] = "done"
================================================================================
