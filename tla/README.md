# distdpi in TLA+

distdpi is an agent that receives a copy of the packets of virtual machines from
VMware's netx/dvfilter library, sorts them into connections and lets the navl
library classify each connection. This directory models the agent's own code: the
callbacks that take packets in, the parsing of their headers, the threads and the
queues between them, the flow table they share, and how the agent starts and stops. The
TLC configurations check the models on small instances; the `*Proofs` modules hold theorems that TLAPS checks for every value of the constants.

Paths below are relative to the repository.

## The system

```
netx thread            consumer thread          DPI workers (one per queue)     data path thread
selectEventLoop        PacketConsumer           Dequeue                          GetDPIFlowData
  ProcessPacket          classifyFlows            navl_conn_create
  PacketProducer --ring--> InsertOrUpdateFlows    navl_classify
                 notify      |  --Queue per worker--> callback ---Queue---------->
                             v                      |
                         conn_table <---------------+        cleanup thread: cleanupFlows
```

| Component | State | Operations | Interacts through |
|---|---|---|---|
| `ProducerConsumerQueue` (ring) | slots, `readIndex_`, `writeIndex_` | `write`, `read`, `frontPtr`/`popFront`, destructor | lock-free between the netx and the consumer thread |
| `Queue` | `queue_`, `mutex_`, `cond_` | `push`, `pop`, `clear` | FlowTable to workers; workers and FlowTable to DataPathUpdate |
| `ConnKey` | none (values) | `ConnKeyHasher`, `ConnKeyEqual` | the flow table's `unordered_map` |
| `PacketHandler` | the ring, `notify`, `m_cv`, `running_` | `PacketProducer`, `PacketConsumer`, `stop`, header parsing | netx thread, FlowTable |
| `FlowTable` | `conn_table`, `numQueues_`, `ftbl_mutex`, `running_` | `InsertOrUpdateFlows`, `updateFlowTableDPIData`, `cleanupFlows`, `stop` | consumer, cleanup, workers and stopping thread share the entries by pointer |
| `DPIEngine` | one queue and one navl handle per worker, `dpiengine_lock` | `Dequeue`, `navl_classify_callback`, `stop` | raw `ConnInfo *` in messages |
| `DataPathUpdate` | `updateDPQueue_` | `GetDPIFlowData`, `stop` | results popped and dropped |
| `DistDpi`, `SignalHandler` | the parts, `running_`, `notify` | `start`, `stop`, signal handler | stops and joins the parts in order |
| `netx_sample_service` | `running_`, filter list, filter state, CLI channel, `conn_set_g` | event loop, filter callbacks, packet callback with copy and NAPT, saved state, ioctls, CLI commands | calls `PacketProducer` |
| `net-protos.h` | none (values) | header kinds, encapsulated type, VLAN tag | the packet callback |
| navl, dvfilter, netx libraries | external | | |

What is hard about it:

* `notify` and `m_cv` are used without the mutex by everybody but the consumer
  (`PacketHandler.cpp:88-89`, `:245-246`), so wakeups can be lost.
* Queued messages and workers hold raw pointers into `conn_table`. Only
  `pkt_ref_cnt` is meant to keep an entry alive, and workers do not take
  `ftbl_mutex`.
* A worker that throws decrements `numQueues_`, which is a modulus, a loop bound and
  an emptiness test for other threads, and calls `Queue::clear()`, which locks a mutex
  twice.
* Shutdown is a chain of flags, exit messages and joins across six kinds of threads.
* The ring is lock-free, and its indices wrap.
* The signal handler is installed before the parts exist, and runs `stop()`, with its
  locks and joins, on whatever thread it interrupted.
* Headers are found by moving a pointer and an unsigned length along a frame, of which
  only one length is tested; in the service the frame is in fragments, lengths are 16
  bits wide in places, and references into a packet are cached.

`PROJECT.json` lists these hazards line by line with the properties that watch them.

## Modules

| Module | Models | Correspondence |
|---|---|---|
| `BoundedFifo` | the promise of the ring | abstract specification: offer, accept, refuse when full, take, drop, discard |
| `ProducerConsumerQueue` | `include/ProducerConsumerQueue.h` | one action per atomic load or store and per construction, move or destruction of a record. `wpc`/`rpc` are the two threads' places, `currentWrite`/`currentRead` their local copies of the indices. `NoRecord` in a slot is raw memory |
| `Queue` | `include/Queue.h` | `pc` per thread; `wait` releases `mutex` and blocks in one step, `PushNotify` comes after the unlock; a spurious wakeup may happen at any time |
| `ConnKey` | `ConnKey`, `ConnKeyHasher`, `ConnKeyEqual` | sums modulo `Word`; the map is a set of stored keys searched by bucket (`Find`) |
| `ClassifyFlows` | `classifyFlows`, `populateFlowTable`, extending `ConnKey` | one action per header; `ptr` is an offset into the frame, `len` counts modulo `Word`. A frame is its size and the fields that are read; reading behind its end leads to `undefined`, appending a wrapped length to `throw` or `undefined` |
| `NetxService` | `netx_sample_service.c`: event loop, filter callbacks, replies, control channel | one action per callback, reply or message, since one thread handles all of them. A filter object is named by its handle; `filterList` keeps the entries above the count; `heap` tells which blocks of connection records are allocated and for how many. A descriptor is open (`openFds`) and held by the channel or by another part of the process (`otherFds`, external); a client that leaves is closed in two steps, `Disconnect` and `CloseAgain`. `overflowed` and `stolen` are history variables |
| `PktHandle` | packets of the dvfilter library (external) | a packet is the offsets at which its fragments begin; a pointer to a byte is that byte's offset in the frame |
| `PacketCopy` | `CopyPacket` | one action per turn of the loop over the fragments of both packets; `out` is what has been written where |
| `NetProtos` | `net-protos.h` | an `Eth_Header` gives the 16-bit word at each offset the structures name; `ntohs` swaps bytes |
| `FilterCallbacks` | the callbacks of one filter: packets, saved state, ioctls | extends the last two. A callback is one action, except for the copy of a packet. `call` keeps the packet of the last `ProcessPacket`, what was parsed of it, what became of it and its TCP header (`NULL` when nothing is known of it any more); `buffer` is the state the library keeps |
| `PacketHandler` | `PacketHandler.cpp`, and the flag and ends of `selectEventLoop` | the ring is reduced to its length, as `BoundedFifo` permits; test, wait, drain and reset of the consumer and set and notify of the others are separate steps |
| `DistDpi` | `DistDpi.cpp`, `SignalHandler.cpp`, `Main.cpp` around `PacketHandler` | `stage` counts the statements of `start()`, `hdl` those of `PacketHandler::start()`, `handler` is where `stop()` is, `host` the thread it runs on. Of the other parts only whether they were started is kept |
| `Navl` | how the code uses navl (external) | connections numbered by creation, with their handle and a count of destroys |
| `DataPathUpdate` | `DataPathUpdate.cpp` | one action, one turn of its loop |
| `FlowTable` | `FlowTable.cpp` | `conn_table` maps a flow to the address of its entry and `info` is the memory at each address. Erasing frees the address but leaves the old contents, which stale pointers go on reading until the address is reused. `gen` numbers insertions |
| `DPIEngine` | `DPIEngine.cpp` | one action per access of a worker to the entry; `dangled` records whether an erased entry was ever used |
| `Pipeline` | composition of the last four, and the stop order of `DistDpi::stop` | `NextPacket`, `ConsumerStep`, `CleanerStep`, `WorkerStep`, `DataPathStep`, `TableStop`, `JoinThreads` |
| `MCPipeline`, `MCNetxService`, `MCClassifyFlows`, `MCFilterCallbacks` | the hash table, symmetry sets, frames and filter states of the checked instances | |
| `ProducerConsumerQueueProofs`, `QueueProofs`, `ClassifyFlowsProofs` (and `ConnKey`), `FilterCallbacksProofs` (and `PacketCopy`), `NetxServiceProofs`, `DistDpiProofs`, `PipelineProofs`, `PipelineNavlProofs` | theorems about the module of that name | the last two share one subject: types, locks and packet order in the first; navl connections, reports and exit messages in the second |

A definition whose name has an underscore suffix and whose comment starts with
"Mutation:" is a wrong version of the definition below it. No specification uses
these; putting one in the place of the real definition makes a named property fail.

### Abstractions

* In `Pipeline` a `Queue` is a sequence: push and pop are single steps, which the
  checks of `Queue` support, and a queue whose mutex a failed `clear()` keeps is
  `jammed`.
* A flow stands for a `ConnKey` up to `ConnKeyEqual`; that the table works on these
  classes is what `ConnKey` shows. Packet data is only empty or not.
* The default action of the service is a setting (`Actions`). `start_netx_service` sets
  `g_action = ACTION_COPY` (line 1825), with which a packet is handed over and freed;
  the option that would keep `ACTION_PUNT` is commented out. Both are checked, since
  everything below line 1295 of the callback only runs under the second.
* `PktDirectRef`'s backing buffer and `CopyPacketData` are left out: the buffer is only
  filled for requests of 128 bytes and more (line 605), and the longest is 40.
* A field read through a wrong reference has any value a frame can hold there
  (`ProtocolAt`, `PortsAt`). A port and a checksum written through one (lines 1209-1229)
  land elsewhere in the packet or behind it; of the packet's TCP header nothing is known
  afterwards, and what the writes do to other memory is not followed.
* The workers' `conn_table.find()` (`FlowTable.cpp:148`) runs without `ftbl_mutex` while
  other threads insert and erase under it, which is a data race. It is modelled as a
  lookup that may miss the entry whenever another thread holds `ftbl_mutex`
  (`CallbackFind`). That a walk through a bucket which is being changed may also crash or
  never end is not modelled.
* Other threads of the process, those of the libraries, open and close descriptors at any
  time (`OtherOpen`, `OtherClose`); the kernel may give out any number that is not open.
* Time is one bit per entry: silent for ten seconds or not (`Age`). `cleanupFlows`
  reads the clock once, so entries do not age while it scans.
* Reads and writes of the fields of one entry by one worker between two calls are one
  step. The steps of a worker are the points where another thread can make a
  difference: lookup, update, destroy and report.
* Atomic operations of the ring are sequentially consistent steps. The code uses
  acquire and release on exactly the two indices, each stored by one thread only, so
  every load the other thread's check depends on is ordered.

## Runs

| Run | Instance | Shows |
|---|---|---|
| `ring` | 4 slots, 2 values | the invariants of the ring, and that it implements `BoundedFifo` with 3 records. 4 slots are enough for full, empty and wrap-around with both threads in between |
| `queue` | 2 poppers, 2 pushers, 4 items | mutual exclusion, order, no lost wakeup, every item popped |
| `queue_clear` | 1 popper, 1 pusher | **fails**: `clear()` on a non-empty queue never returns |
| `classify_flows` | 2 addresses, 2 ports, 3 protocols, 132 frames, lengths modulo 128, 2 or 3 buckets, 2 entries | payload and reads of the header parser; both directions of a connection have one entry and find it. Addresses 0 and 120 make the hash wrap at 128, frames are at most 62 bytes so that a length below zero is as far from a valid one as in 32 bits |
| `filter_callbacks` | 11 fragmentations, 4 framings, 8 filter states, 16-bit words modulo 128 | packets parsed right, copied completely and translated with a right checksum, the two assertions on a packet's way, saved state restored. Fragments end before the end of the Ethernet header, behind it, behind the IP header and inside the TCP header; one frame is longer than 128 bytes and one is 128 bytes long, so that its 16-bit length is 0; ports and checksums are 0, 1 and 127, which makes both folds of the checksum carry; `ihl` is 1, 5 or 6, and a header length below 5 puts the transport header where the IP header is |
| `distdpi` | ring of 2, exceptions, one signal | what the notification still guarantees, and stopping from any point of the start |
| `packet_handler_wakeup` | ring of 3 | **fails**: a packet stays in the ring after a lost notification. `stop()` signals in the same way and is exposed to the same race |
| `netx_service` | 3 filters, list size 3 (room for 2), 2 descriptors, 2 blocks, 2 connections | the list is sound always and complete until it was full, no client's descriptor is leaked, descriptors are owned until a second `close()` hits somebody else's, records fit their count. Two listed filters give the two cases of removal, the last position and another one; the third filter overflows the list |
| `pipeline_shutdown` | 1 flow, 2 addresses, 1 worker, 3 packets, all rare events but exceptions | one report per entry, none behind the exit message, connection and entry agree, classification is final, queues drained, stopping terminates |
| `pipeline_workers` | 2 flows, 2 addresses, 2 workers, 3 packets, ageing and exceptions | packets of a flow stay in order on one worker, entries in use by the consumer stay in the table, workers are in the callback one at a time, the consumer divides by zero only when all workers have failed |
| `pipeline_entries` | 1 flow, 1 worker, 3 packets | **fails**: a classified entry is erased while a packet that is still in a queue points to it |
| `pipeline_conns` | 1 flow, 1 worker, 3 packets, stop | **fails**: after a stop a navl connection is destroyed twice or not at all |

Three packets are the fewest for which a flow has one packet that creates its
connection, one that classifies it and one still queued; with two addresses an
entry's memory can be reused or not. Both numbers are bounds of the runs, not of the
code (`MaxPkts`, `Addrs`). The other bounds are `MaxItems` (items pushed in `Queue`),
`MaxDestroys` (a third destroy of one connection is not counted), and in `NetxService`
`MaxConns` (connections per reply), `MaxPending` (unanswered requests of one kind) and
`Blocks` (a block that is leaked is not available again; without a free block
`malloc()` fails, as it may at any time). `MaxFlows` bounds the entries of
`ClassifyFlows`, `MaxRand` the bytes `GetSavedStateLen` adds (127 in the code).

Several properties of `pipeline_shutdown` begin with "as long as no erased entry was
used" (`~dangled`). Once a worker has followed a dangling pointer, which
`pipeline_entries` shows it can, the memory may belong to another entry and the code
promises nothing. Without the condition the properties would only repeat that
finding.

Deadlock is not checked where the system may come to rest: `ring` and `queue` (the
object was destroyed, or nobody pushes any more), `distdpi` (nothing arrives),
`classify_flows` (a frame was read behind its end), `filter_callbacks` (an assertion
failed, or the packet handler was given a null pointer),
`pipeline_workers` (an exception in a worker can block every thread for ever) and
`netx_service` (the service has ended).

### Fairness

A thread that can take a step takes it (weak fairness per thread), which is what the
operating system's scheduler gives. Nothing is assumed about packets, other events of
the select loop, silence, failures or the decision to stop. In particular
`select()` has no timeout (`netx_sample_service.c:1695`), so after `stop_netx_service()`
the netx thread only leaves at its next event, and none is promised. In `Queue` a mutex
is not assumed to be fair. In `DistDpi` a thread that waits for a mutex which is free
again and again gets it (strong fairness of `StopLock`): the only other thread that
takes this mutex is the one in `start()`, which gives it up in `wait()` and keeps
coming back only through spurious wakeups.

The properties of `distdpi` about stopping hold for a signal that comes when all parts
are up (`~early`), and `StopReleasesStart` for one that interrupts another thread than
that of `start()`. The other cases are in the model and are listed below.

### What the runs say about the code

* `Queue::clear()` deadlocks on itself (`Queue.h:61-63`).
* A notification of the packet consumer can be lost (`PacketHandler.cpp:88-89`, `:113`,
  `:245-246`): packets wait for the next packet, or `stop()` never returns.
* `pkt_ref_cnt` does not count the packets in the pipeline (`FlowTable.cpp:154`, and
  nothing counts a flow's first packet), so entries are erased under queued pointers.
* `CreateFilter` does not store a filter when the list is full, yet `DestroyFilter`
  shortens the list for it (`netx_sample_service.c:722`, `:780`): a live filter
  disappears from the list each time, and finally `ASSERT(filterListCount > 0)` fails.
  `AbortNeedsOverflow` shows that this is the only way to fail it, and the run reaches it.
* The final cleanup does not pair `navl_conn_create` with `navl_conn_destroy`
  (`FlowTable.cpp:51`).
* The descriptor of a control client that leaves is closed twice, in `CliChannelEvent`
  (`netx_sample_service.c:1501`, `:1505`) and again in `selectEventLoop` (line 1710). If
  another part of the process got the number in between, its descriptor is closed; the
  run reaches this (`stolen`), and `ClientFdsOwned` shows that it is the only way a
  descriptor loses its owner.

Behaviour that the models contain although no document contradicts it: a stop that
comes before `selectEventLoop` has started is overwritten (`running_ = 1`, line 1662);
an exception in the consumer ends the process because it joins itself
(`PacketHandler.cpp:116`); `numQueues_` can be zero when it is used as a divisor
(`FlowTable.cpp:107`, `:126`); an exception in a callback leaves `dpiengine_lock`
locked (`DPIEngine.cpp:40`); the second message of a control client is received
behind the buffer, and the first one is handled again if the process survives
(`netx_sample_service.c:1498`); a second reply with connections leaks the records of
the first (line 221).

A signal before all parts are up ends the process (`pkt_hdl_` is null, or a part's thread
cannot be joined yet) or leaves the agent running, since `PacketHandler::start` and
`FlowTable::start` set `running_` again (`DistDpi.cpp:46-56`). A signal that interrupts
the thread of `start()` between locking and waiting blocks on its own mutex (line 32). A
packet before `FlowTable::start` has run follows a null pointer (`FlowTable.cpp:110`).

In the callbacks of a filter: a reference served from the cached region is wrong when
that region does not start the packet (`netx_sample_service.c:577`), which happens when
the second fragment begins with the IP header; ports are then read, and by `PerformNAPT`
written, elsewhere in the packet or behind it. `frameLen` is 16 bits wide (lines 1145 and
1257), so a frame of 64 KiB and more is not translated and is handed over truncated. The
packet handler is given the first fragment and the length of the whole frame (lines
1281-1287). If that fragment is shorter than 26 bytes it is given a null pointer instead,
and the copy in `PacketProducer` (`PacketHandler.cpp:83`) ends the process (`ProcessNull`).
`PacketAssertsHold` is about the two assertions on a packet's way, lines 1205 and 1337; it
does not speak of the one on the list of filters (line 772, `AbortNeedsOverflow`), on the
endpoint type (line 656) or on the payload of an ioctl (line 1392).

Four places where these callbacks do not do what a comment says. The models contain them,
and the properties leave them out by name:

* An ioctl without payload has a `NULL` payload by `include/dvfilterlib.h:269-271`;
  `ASSERT(payload)` (line 1392) ends the service then (`"empty_ioctl"`, which the run
  reaches).
* A restore request may have length zero by `include/dvfilterlib.h:221-223`;
  `RestoreState` answers it with an error (line 870, `restored = "empty"`).
* The comment of `PerformNAPT` (lines 1133-1134) says that the destination port of a TCP
  packet is rewritten; of packets to the switch the code rewrites the source port (lines
  1213-1214), as `Rewrite` does. It is the port of the virtual machine in both directions.
* A tagged 802.3 frame is recognised (`include/net-protos.h`), but its tag is not read:
  line 1000 tests for the framing `802_1PQ` alone, so VLAN and priority stay 0
  (`TagUnread`).

In the header parser the length wraps exactly when the headers do not fit into the
datagram (`PayloadMatches`); the string is then appended with almost 4 GiB and throws,
which ends the process (`PacketHandler.cpp:225` and `:116`).

## Proofs

`ProducerConsumerQueueProofs`, for every `Size >= 2` and every set `Records`.
`SlotDiscipline` and `NoSlotRace` are not inductive: that a slot is free when
`WriteConstruct` runs follows from the test made one step before, which the consumer's
moves can only make more true. `RingInv` says this: each thread's copy of its own
index is current, the outcome of each check persists until publication, and the
constructed slots are exactly those in the distance between the indices, plus the one
being published and minus the one already destroyed. `IndexArithmetic` collects the
facts about wrapping that the steps need; `RingInvInit` and `RingInvNext` show that
`RingInv` is inductive (one step per action), and `RingInvariant`,
`SlotDisciplineHolds`, `NoSlotRaceHolds` and `NoRecordLeakedHolds` follow.

`QueueProofs`, for every set of threads and every number of items: `MutexHeld` and
`NoLostWakeup`, by the invariant `WakeInv`, which adds to both where poppers and
pushers can be. The argument for the wakeup: a popper starts to wait only with an
empty queue, so an item that a waiting popper has not seen was pushed since, and its
pusher has not notified yet or has woken some popper that is not back at waiting.

`Fifo` of the same module is proved item by item (`OrderInv`): the n-th item popped is
item n and the queue continues the count.

The ring implements `BoundedFifo` with capacity `Size - 1` (`ImplementsFifo`). The mapping
reads the records from `readIndex_` on, and the first one from the consumer's hand
between its destruction and the store to `readIndex_` (`FromSlot`). Besides `RingInv` this
needs `CarryInv`: what is published is what was offered, and what is destroyed is what was
moved. `FromSlotKept`, `FromSlotAppend` and `FromSlotTail` say what a step at either end
does to that sequence; with them each step of a thread is a step of the FIFO
(`ProducerRefines`, `ConsumerRefines`). That a slot is at the distance its place in the
sequence says is `SlotAt`.

`ClassifyFlowsProofs`, for all sets of addresses, ports and protocols, every set of bucket
counts and all frames: `ConnKeyEqual` is an equivalence, equal keys have equal hashes,
hence `OneEntryPerFlow` and `FindsItsFlow` of `ConnKey`; the parser implements `ConnKey`
(`ImplementsConnKey`), so that these hold of what it inserts; and `PayloadMatches` and
`ReadsInside`. The last two are not inductive: `ClassifyInv` adds `AtHeader`, which says
how far pointer and length are at each header, and that once the total length of the
datagram replaces the length, they add up to the end of the datagram, or exceed it by one
wrap. `MinusValue` is the wrap.

`NetxServiceProofs`, for every number of handles, list size of at least two,
descriptors and blocks: all invariants of `netx_service`. `ListInv` is inductive as it
stands because its parts need each other: that removal by the last element keeps the
list complete needs that no filter is listed twice, and that the count assertion holds
without overflow needs that the filter being destroyed is listed. `ClientInv` joins the
two facts about the control channel; ownership of descriptors needs that between the two
closes of a disconnect the channel has none and that only the loop's copy can name one
that was given out again (`OthersKeepFds`, `ClientKeeps`). `CreateKeeps` and `DestroyKeeps` hold the argument
about the list, `ReplyKeeps` and `AcceptKeeps` the rest.

`FilterCallbacksProofs`, for packets of any length in any fragments, every width of the
16-bit words and every filter state: all invariants of `filter_callbacks`.

* The copy. `WritesInPlace` and `CopyComplete` are not inductive. `CopyInv` adds that the
  position in each packet is where its current fragment says, that both positions stand
  for the same byte of the frame, which is also the number of bytes copied, and that
  everything below it has been written. From this a turn never crosses the end of a
  fragment, uses up one of the two, and meets the end of a fragment list only when the
  frame has been copied. This is proved of `CopySpec`, the loop on its own with any packets
  and lengths. `FilterCallbacks` implements `CopySpec` (`ImplementsCopySpec`), and calls it
  so that a copy never runs out of fragments (`CopyExact`).
* The headers. `EthReferenced`, `IpReferenced` and `TransportReferenced` say which byte of
  the packet each reference of `PktDirectRef` stands for, and when it is served from the
  cached region; `HeaderRead` which header kind and which fields `net-protos.h` finds in a
  frame. `ParsePacketReads` and `PerformNAPTEnds` put them together:
  what is parsed of a frame in one fragment is what its fields say, the tag of a tagged 802.3
  frame excepted (`ReadIsReference`), and a port is written to a wrong place only if the IP
  header starts the second fragment.
* The checksum. `CsumUpdated` and `FoldedTwice` show for every word size that two folds
  suffice and that the result agrees with the old sum, less the old port plus the new one,
  modulo `Word16 - 1`; `RewriteValid` concludes that a valid checksum stays valid.
* `FilterInv` joins these with what a call leaves in the filter and in the saved state.

Of a packet in several fragments, `ParsedRight` is claimed only if its IP header length is
at least 5 words, the smallest legal one. The proof needs the condition: with a shorter
length the transport header that is read lies inside the IP header, can be taken from the
cached region, and is then read at the wrong place. The filter does not test `ihl`.

`DistDpiProofs`, for a ring of any size, with and without exceptions: `ExitAfterParts` and
the action property `QuietAfterStop`. `DistInv` adds what start() has created at each stage,
that a part which `stop()` has gone past has been joined, and that a signal which is not
early found all parts started.

`PipelineProofs` and `PipelineNavlProofs`, for any number of flows, addresses, workers and
packets and all combinations of rare events: every safety property of the two passing
pipeline runs. Five invariants, all proved under the first, and `NavlInv` under `OrderInv` too:

* `TypeInv`: types; `LockInv`, who is in the critical section of `ftbl_mutex` and that nobody
  else has changed the table meanwhile; every pointer held anywhere points to memory that
  was an entry once; and `QueuesCounted`, that `numQueues_` is at least the number of
  workers in service, although every worker that throws decrements it.
* `OrderInv`: `FlowOrder` and `InsertedEntryLive` need that all messages of one entry are
  held by the worker of the entry's queue, in the order of their packet numbers, including
  the one being worked on and the one the consumer is about to push (`HeldOrder`,
  `LastCounted`). Generations are what tells an entry from a later one at its address.
* `FailInv`: `DivisionNeedsAllFailed` and `CallbackExclusive`. `numQueues_` stays zero after
  the division, and by `QueuesCounted` a count of zero leaves no worker in service;
  `dpiengine_lock` names the worker that is in the callback or threw there.
* `NavlInv`: `OneReport`, `ReportsBeforeExit`, `ConnMatchesEntry`, `HandleAffinity` and the
  action property `ClassificationFinal`. The worker tests an entry and acts on it some
  steps later, while the consumer and the cleanup thread go on; `WorkSound` says that what
  it saw is still so, because only the worker of the entry's queue changes it. All of this
  is claimed until an erased entry is used (`~dangled`).
* `DrainInv`: `QueuesDrained`, for runs without exceptions in a worker (`"throw" \notin
  Faults`), since a worker that throws leaves its queue as it is: an exit message is the
  last of its queue, and a worker ends for no other reason.

The assumptions are the named `ASSUME`s of the modules. From the code: `SizeAssumption`
(asserted by the constructor); `QueuesAssumption` (there is a worker); `NetxAssumption` (the
list has two elements or more; the code allocates 100); `QueueAssumption` (pushing and
popping threads are distinct, as in the agent); in `FrameAssumption` and `FilterAssumption`
the widths of header fields: `ihl` and `doff` have 4 bits, a VLAN tag 16, a frame is shorter
than the word its length is kept in, and a word counts to 120 at least, two headers of 15
words (it counts to 2^32); a filter's state is not empty (`StateLen`);
and a frame whose TCP checksum is not completed later arrives with a valid one. About the representation: `RecordsAssumption`, `NullAssumption`
and parts of others (a placeholder is no value), `KeyAssumption` (fields are naturals),
`CopyAssumption` (fragments are not empty and packets are made of them), `AddrsAssumption`
(as many addresses as flows, so that an insertion finds memory; the code does not handle
`bad_alloc`), `BoundsAssumption` and `NavlAssumption`.

Only model-checked: the liveness properties `EveryItemPopped`, `StopTerminates`, `WakeDrains`,
`StopWakesSleeper`, `BusyWaitEnds` and `StopReleasesStart`, since the prover handles neither
fairness nor `ENABLED`; and the four violations, which are counterexamples. `RingInv`,
`NoSlotRace`, `MutexHeld`, `OneEntryPerFlow` and the type invariants are proved and not
checked again by a run.

## Not modelled

* `PktRateMeasurer` (never started), the `FREEBSD` variant of the header parser.
* A second signal, and a signal delivered to a thread of the parts.
* In `netx_sample_service.c`: the refresh of a filter's configuration
  (`UpdateFilterConfiguration`), which only `LookupFilter` reads and nobody calls; the
  contents of ioctl replies and that a short payload gets none; logging; the backing
  buffer (see above). A control message is taken to arrive whole (`MSG_WAITALL`).
* Libraries that are not in the repository (navl beyond `Navl`, dvfilter, netx), the
  function table of `navl_externals_posix.c`, and the classes nothing instantiates
  (`Timer.h`, `Server.h`, `UnixServer.h`, `PacketHandlerOptions.h`).

## Plan

1. Entries whose `pkt_ref_cnt` was raised after their classification: state and prove when
   they are erased.
2. `PacketHandler` reduces the ring to its length, and `Pipeline` a `Queue` to a sequence:
   state the sequence as an abstract specification that `Queue` implements, as `BoundedFifo`
   is for the ring.
3. Shorter proofs in `PipelineNavlProofs`: the steps of the callback share most of their
   argument.
