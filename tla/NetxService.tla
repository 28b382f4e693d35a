------------------------------ MODULE NetxService -------------------------------
(***************************************************************************)
(* netx_sample_service.c: the single thread of the service sits in         *)
(* selectEventLoop() and, one event at a time, runs the callbacks of the   *)
(* dvfilter library (filters come and go, with the virtual machines), the  *)
(* replies of the netx library to earlier requests, and the commands of    *)
(* one control client at a time.                                           *)
(*                                                                         *)
(* A filter object is named by the handle it was created for.  filterList  *)
(* is the array with its size and count, the entries above the count       *)
(* included.  What the callbacks do to packets, saved state and ioctls is  *)
(* FilterCallbacks.                                                        *)
(***************************************************************************)
EXTENDS Naturals

CONSTANTS
  Handles,         \* handles of the dvfilter library
  Names,           \* filter names, NoName not among them
  NoName,          \* the empty name
  None,            \* a null pointer
  filterListSize,  \* elements allocated for filterList
  Fds,             \* descriptors of the process that accept() and others use
  Blocks,          \* memory for connection records; bounds leaked blocks
  MaxConns,        \* bound: connections a reply can report
  MaxPending       \* bound: requests of one kind without a reply yet

ASSUME NetxAssumption ==
  /\ filterListSize \in Nat \ {0, 1}
  /\ NoName \notin Names
  /\ None \notin Handles \cup Names \cup Fds \cup Blocks \cup {NoName}
  /\ MaxConns \in Nat
  /\ MaxPending \in Nat

VARIABLES
  service,         \* "start", "run", "closing", "exited", "aborted" or "undefined"
  filters,         \* name of the filter object of each handle, or None
  filterList,      \* the array of filter pointers
  filterListCount,
  overflowed,      \* history: some filter was created while the list was full
  cliChannel,      \* descriptor and message buffer of the control client
  cliChannelFd,    \* the loop's own copy of a descriptor it is about to close
  openFds,         \* descriptors that are open in the process
  otherFds,        \* descriptors that other parts of the process hold
  stolen,          \* history: the loop closed a descriptor of another part
  pending,         \* requests per kind that the netx library has not answered
  num_conn_g,
  conn_set_g,      \* the block of connection records, or None
  num_conn_set_g,
  heap             \* records each block has room for, None when it is free

filterVars == <<filters, filterList, filterListCount, overflowed>>
cliVars == <<cliChannel, cliChannelFd, openFds, otherFds, stolen>>
connVars == <<pending, num_conn_g, conn_set_g, num_conn_set_g, heap>>
vars == <<service, filterVars, cliVars, connVars>>

Indices == 0 .. filterListSize - 1

\* Commands that change the state of the service; "other" stands for the rest.
Commands == {"count", "all_brief", "set_brief", "other"}

Requests == {"count", "all_brief"}

\* InitCliChannel(): no descriptor and an empty buffer.
InitCliChannel == [fd |-> None, msg |-> None]

Init ==
  /\ service = "start"
  /\ filters = [h \in Handles |-> None]
  /\ filterList = [i \in Indices |-> None]
  /\ filterListCount = 0
  /\ overflowed = FALSE
  /\ cliChannel = InitCliChannel
  /\ cliChannelFd = None
  /\ openFds = {}
  /\ otherFds = {}
  /\ stolen = FALSE
  /\ pending = [r \in Requests |-> 0]
  /\ num_conn_g = 0
  /\ conn_set_g = None
  /\ num_conn_set_g = 0
  /\ heap = [b \in Blocks |-> None]

--------------------------------------------------------------------------------
(* The service as a whole. *)

\* start_netx_service(): an allocation, a library or a socket call fails, or the
\* event loop begins.
Start ==
  /\ service = "start"
  /\ service' \in {"run", "exited"}
  /\ UNCHANGED <<filterVars, cliVars, connVars>>

\* running_ was cleared or the library disconnected: the list is freed and the
\* thread ends; filters, client descriptor and records are left as they are.
LeaveLoop ==
  /\ service = "run"
  /\ service' = "exited"
  /\ UNCHANGED <<filterVars, cliVars, connVars>>

--------------------------------------------------------------------------------
(* Filters. *)

\* Positions of filterList that are in use.
Listed == {i \in Indices : i < filterListCount}

\* One element below the size already counts as full.
ListIsFull == filterListCount + 1 = filterListSize

\* Mutation: the new filter is stored but not counted.
CreateFilter_Uncounted(h, name) ==
  /\ service = "run"
  /\ filters[h] = None
  /\ filters' = [filters EXCEPT ![h] = name]
  /\ filterList' = IF ListIsFull THEN filterList
                   ELSE [filterList EXCEPT ![filterListCount] = h]
  /\ overflowed' = (overflowed \/ ListIsFull)
  /\ UNCHANGED <<service, filterListCount, cliVars, connVars>>

\* CreateFilter(), when it succeeds: with a full list the filter exists but is not
\* stored.  An empty name equals failedFilterName, and the creation then fails
\* without a trace, as it does without memory.
CreateFilter(h, name) ==
  /\ service = "run"
  /\ filters[h] = None
  /\ filters' = [filters EXCEPT ![h] = name]
  /\ filterList' = IF ListIsFull THEN filterList
                   ELSE [filterList EXCEPT ![filterListCount] = h]
  /\ filterListCount' = IF ListIsFull THEN filterListCount ELSE filterListCount + 1
  /\ overflowed' = (overflowed \/ ListIsFull)
  /\ UNCHANGED <<service, cliVars, connVars>>

\* The loop of DestroyFilter(): the last element replaces h, last being its index.
ReplaceByLast(h, last) ==
  [i \in Indices |-> IF i \in Listed /\ filterListCount > 1 /\ filterList[i] = h
                       THEN filterList[last] ELSE filterList[i]]

\* Mutation: the count is decremented, the element stays.
DestroyFilter_NoSwap(h) ==
  /\ service = "run"
  /\ filters[h] # None
  /\ filterListCount > 0
  /\ filters' = [filters EXCEPT ![h] = None]
  /\ filterListCount' = filterListCount - 1
  /\ UNCHANGED <<service, filterList, overflowed, cliVars, connVars>>

\* Mutation: the count is decremented first.
DestroyFilter_CountFirst(h) ==
  /\ service = "run"
  /\ filters[h] # None
  /\ filterListCount > 0
  /\ filters' = [filters EXCEPT ![h] = None]
  /\ filterList' = IF filterListCount > 1
                     THEN ReplaceByLast(h, filterListCount - 2) ELSE filterList
  /\ filterListCount' = filterListCount - 1
  /\ UNCHANGED <<service, overflowed, cliVars, connVars>>

\* DestroyFilter(): ASSERT(filterListCount > 0), then one element less, whether or
\* not the filter was stored.
DestroyFilter(h) ==
  /\ service = "run"
  /\ filters[h] # None
  /\ \/ /\ filterListCount = 0
        /\ service' = "aborted"
        /\ UNCHANGED filterVars
     \/ /\ filterListCount > 0
        /\ filters' = [filters EXCEPT ![h] = None]
        /\ filterList' = ReplaceByLast(h, filterListCount - 1)
        /\ filterListCount' = filterListCount - 1
        /\ UNCHANGED <<service, overflowed>>
  /\ UNCHANGED <<cliVars, connVars>>

--------------------------------------------------------------------------------
(* Replies of the netx library. *)

Answered(r) ==
  /\ service = "run"
  /\ pending[r] > 0
  /\ pending' = [pending EXCEPT ![r] = @ - 1]

\* The request timed out: the payload is too short for a header.
ReplyTimeout(r) ==
  /\ Answered(r)
  /\ UNCHANGED <<service, filterVars, cliVars, num_conn_g, conn_set_g,
                 num_conn_set_g, heap>>

\* NETXCMD_GET_CONNTRACK_COUNT.
CountReply(n) ==
  /\ Answered("count")
  /\ num_conn_g' = n
  /\ UNCHANGED <<service, filterVars, cliVars, conn_set_g, num_conn_set_g, heap>>

\* Mutation: without memory the old records are kept.
BriefReply_KeepOld(n) ==
  /\ Answered("all_brief")
  /\ num_conn_set_g' = n
  /\ \/ \E b \in Blocks :
          /\ heap[b] = None
          /\ heap' = [heap EXCEPT ![b] = n]
          /\ conn_set_g' = b
     \/ UNCHANGED <<conn_set_g, heap>>
  /\ UNCHANGED <<service, filterVars, cliVars, num_conn_g>>

\* NETXCMD_GET_CONNTRACK_ALL_BRIEF: a new block is filled, or malloc() fails; the
\* old block, if there is one, is forgotten and stays allocated.
BriefReply(n) ==
  /\ Answered("all_brief")
  /\ num_conn_set_g' = n
  /\ \/ \E b \in Blocks :
          /\ heap[b] = None
          /\ heap' = [heap EXCEPT ![b] = n]
          /\ conn_set_g' = b
     \/ conn_set_g' = None /\ UNCHANGED heap
  /\ UNCHANGED <<service, filterVars, cliVars, num_conn_g>>

--------------------------------------------------------------------------------
(* The control client. *)

\* External: the libraries of the process, on threads of their own, open and close
\* descriptors; the kernel gives out any number that is not open.
OtherOpen(fd) ==
  /\ service \in {"run", "closing"}
  /\ fd \notin openFds
  /\ openFds' = openFds \cup {fd}
  /\ otherFds' = otherFds \cup {fd}
  /\ UNCHANGED <<service, filterVars, cliChannel, cliChannelFd, stolen, connVars>>

OtherClose(fd) ==
  /\ service \in {"run", "closing"}
  /\ fd \in otherFds
  /\ openFds' = openFds \ {fd}
  /\ otherFds' = otherFds \ {fd}
  /\ UNCHANGED <<service, filterVars, cliChannel, cliChannelFd, stolen, connVars>>

\* accept(), which selectEventLoop() calls only without a client.
Accept(fd) ==
  /\ service = "run"
  /\ cliChannel.fd = None
  /\ fd \notin openFds
  /\ cliChannel' = [InitCliChannel EXCEPT !.fd = fd]
  /\ openFds' = openFds \cup {fd}
  /\ UNCHANGED <<service, filterVars, cliChannelFd, otherFds, stolen, connVars>>

\* recv() fails or reports the end of the connection: CliChannelEvent() closes the
\* descriptor and returns -1.
Disconnect ==
  /\ service = "run"
  /\ cliChannel.fd # None
  /\ service' = "closing"
  /\ cliChannelFd' = cliChannel.fd
  /\ cliChannel' = [cliChannel EXCEPT !.fd = None]
  /\ openFds' = openFds \ {cliChannel.fd}
  /\ UNCHANGED <<filterVars, otherFds, stolen, connVars>>

\* selectEventLoop() closes its copy of the descriptor once more, whatever it names
\* by now, and resets the channel.
CloseAgain ==
  /\ service = "closing"
  /\ service' = "run"
  /\ openFds' = openFds \ {cliChannelFd}
  /\ stolen' = (stolen \/ cliChannelFd \in openFds)
  /\ cliChannelFd' = None
  /\ cliChannel' = InitCliChannel
  /\ UNCHANGED <<filterVars, otherFds, connVars>>

\* A message after the first is received behind the buffer, which is undefined: the
\* process may end, or the first message is there to be handled again.
Effective(m) == IF cliChannel.msg = None THEN m ELSE cliChannel.msg

Found(name) == \E i \in Listed : filters[filterList[i]] = name

\* Mutation: the channel is reset but its descriptor stays open.
RejectMessage_NotClosed(m) ==
  /\ service = "run"
  /\ cliChannel.fd # None
  /\ ~Found(Effective(m).name)
  /\ cliChannel' = InitCliChannel
  /\ UNCHANGED <<service, cliChannelFd, openFds, otherFds, stolen, filterVars, connVars>>

\* A message without a filter name or for a filter that is not listed: the loop closes
\* the descriptor and resets the channel.
RejectMessage(m) ==
  /\ service = "run"
  /\ cliChannel.fd # None
  /\ ~Found(Effective(m).name)
  /\ cliChannel' = InitCliChannel
  /\ openFds' = openFds \ {cliChannel.fd}
  /\ UNCHANGED <<service, cliChannelFd, otherFds, stolen, filterVars, connVars>>

OverrunMessage ==
  /\ service = "run"
  /\ cliChannel.fd # None
  /\ cliChannel.msg # None
  /\ service' = "undefined"
  /\ UNCHANGED <<filterVars, cliVars, connVars>>

\* The command of a message for a listed filter.  The channel stays open, with the
\* message in the buffer, whether or not the command succeeds.
ExecuteMessage(m, cmd) ==
  /\ service = "run"
  /\ cliChannel.fd # None
  /\ Found(Effective(m).name)
  /\ Effective(m).cmd = cmd
  /\ cliChannel' = [cliChannel EXCEPT !.msg = Effective(m)]
  /\ UNCHANGED <<service, filterVars, cliChannelFd, openFds, otherFds, stolen>>

\* A command that fails, or that changes nothing in the service.  The library
\* refuses counts that are not positive; without records "set_brief" does nothing.
CommandOnly(m) ==
  \E cmd \in Commands :
    /\ ExecuteMessage(m, cmd)
    /\ UNCHANGED connVars

SendRequest(r) ==
  /\ pending[r] < MaxPending
  /\ pending' = [pending EXCEPT ![r] = @ + 1]
  /\ UNCHANGED <<num_conn_g, conn_set_g, num_conn_set_g, heap>>

GetConnCount(m) ==
  /\ ExecuteMessage(m, "count")
  /\ SendRequest("count")

GetConnInfoBrief(m) ==
  /\ ExecuteMessage(m, "all_brief")
  /\ num_conn_g > 0
  /\ SendRequest("all_brief")

\* Mutation: the freed block is not forgotten.
SetConnInfoBrief_Dangling(m) ==
  /\ ExecuteMessage(m, "set_brief")
  /\ conn_set_g # None
  /\ num_conn_set_g > 0
  /\ heap' = [heap EXCEPT ![conn_set_g] = None]
  /\ UNCHANGED <<pending, num_conn_g, conn_set_g, num_conn_set_g>>

\* The records of the last reply are sent, with the new action, and freed.
SetConnInfoBrief(m) ==
  /\ ExecuteMessage(m, "set_brief")
  /\ conn_set_g # None
  /\ num_conn_set_g > 0
  /\ heap' = [heap EXCEPT ![conn_set_g] = None]
  /\ conn_set_g' = None
  /\ UNCHANGED <<pending, num_conn_g, num_conn_set_g>>

--------------------------------------------------------------------------------

Messages == [name : Names \cup {NoName}, cmd : Commands]

FilterCallback ==
  \E h \in Handles :
    \/ \E name \in Names : CreateFilter(h, name)
    \/ DestroyFilter(h)

LibReply ==
  \/ \E r \in Requests : ReplyTimeout(r)
  \/ \E n \in 0 .. MaxConns : CountReply(n) \/ BriefReply(n)

CliChannelEvent ==
  \/ Disconnect
  \/ CloseAgain
  \/ OverrunMessage
  \/ \E m \in Messages :
       \/ RejectMessage(m)
       \/ CommandOnly(m)
       \/ GetConnCount(m)
       \/ GetConnInfoBrief(m)
       \/ SetConnInfoBrief(m)

Next ==
  \/ Start
  \/ LeaveLoop
  \/ FilterCallback
  \/ LibReply
  \/ \E fd \in Fds : Accept(fd) \/ OtherOpen(fd) \/ OtherClose(fd)
  \/ CliChannelEvent

Spec == Init /\ [][Next]_vars

--------------------------------------------------------------------------------
(* Properties. *)

TypeOK ==
  /\ service \in {"start", "run", "closing", "exited", "aborted", "undefined"}
  /\ filters \in [Handles -> Names \cup {None}]
  /\ filterList \in [Indices -> Handles \cup {None}]
  /\ filterListCount \in 0 .. filterListSize - 1
  /\ overflowed \in BOOLEAN
  /\ cliChannel \in [fd : Fds \cup {None}, msg : Messages \cup {None}]
  /\ cliChannelFd \in Fds \cup {None}
  /\ service = "closing" <=> cliChannelFd # None
  /\ openFds \subseteq Fds /\ otherFds \subseteq Fds
  /\ stolen \in BOOLEAN
  /\ pending \in [Requests -> 0 .. MaxPending]
  /\ num_conn_g \in 0 .. MaxConns
  /\ conn_set_g \in Blocks \cup {None}
  /\ num_conn_set_g \in 0 .. MaxConns
  /\ heap \in [Blocks -> 0 .. MaxConns \cup {None}]

\* CliChannelEvent() and LookupFilter() follow every pointer in filterList up to the
\* count: each belongs to a filter that has not been freed, and to a different one.
ListedFiltersLive ==
  /\ \A i \in Listed : filterList[i] # None /\ filters[filterList[i]] # None
  /\ \A i, j \in Listed : filterList[i] = filterList[j] => i = j

\* As long as no filter was created with a full list, every filter can be found:
\* removal by the last element loses none.
EveryFilterListed ==
  ~overflowed => \A h \in Handles :
    filters[h] # None => \E i \in Listed : filterList[i] = h

\* The assertion of DestroyFilter() on the count can only fail after a filter was
\* created with a full list.
AbortNeedsOverflow == service = "aborted" => overflowed

\* On every path out of CliChannelEvent() a client's descriptor is kept or closed, so
\* that none stays open behind it, and it is the client's own: as long as the second
\* close() after a disconnect has not hit a descriptor that another part got in
\* between, the descriptors the channel and the others hold are open and distinct.
ClientFdsOwned ==
  /\ openFds \subseteq otherFds \cup {cliChannel.fd}
  /\ ~stolen => otherFds \subseteq openFds /\ cliChannel.fd \in (openFds \ otherFds) \cup {None}

\* conn_set_g, when not null, is allocated and has room for exactly num_conn_set_g
\* records, the number that CliChannelEvent() writes to and passes on.
ConnSetSized == conn_set_g # None => heap[conn_set_g] = num_conn_set_g
================================================================================
