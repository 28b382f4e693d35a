---------------------------- MODULE NetxServiceProofs ----------------------------
(***************************************************************************)
(* Theorems about NetxService for every number of handles, list size,      *)
(* client descriptors and memory blocks.                                   *)
(***************************************************************************)
EXTENDS NetxService, TLAPS

\* The filter list: sound always, complete until it was full.
ListInv ==
  /\ ListedFiltersLive
  /\ EveryFilterListed
  /\ AbortNeedsOverflow

\* Between its two close() calls the loop has no client.
ClosingFd == service = "closing" => cliChannel.fd = None

\* Client descriptors and connection records.
ClientInv == ClientFdsOwned /\ ConnSetSized /\ ClosingFd

\* The inductive invariant of the filter list and of the client connections.
NetxInv == TypeOK /\ ListInv /\ ClientInv

\* A message handled from the buffer or from the client is a message.
LEMMA EffectiveIsMessage ==
  ASSUME TypeOK, NEW m \in Messages PROVE Effective(m) \in Messages
  BY DEF TypeOK, Effective

\* The initial state satisfies all parts of the invariant.
LEMMA NetxInvInit == Init => NetxInv
<1> SUFFICES ASSUME Init PROVE NetxInv
  OBVIOUS
<1> USE NetxAssumption DEF Init
<1>1. TypeOK
  <2>1. cliChannel \in [fd : Fds \cup {None}, msg : Messages \cup {None}]
    BY DEF InitCliChannel
  <2>2. /\ filters \in [Handles -> Names \cup {None}]
        /\ filterList \in [Indices -> Handles \cup {None}]
        /\ heap \in [Blocks -> 0 .. MaxConns \cup {None}]
    OBVIOUS
  <2>3. /\ 0 \in 0 .. filterListSize - 1
        /\ 0 \in 0 .. MaxConns
        /\ 0 \in 0 .. MaxPending
    OBVIOUS
  <2>4. pending \in [Requests -> 0 .. MaxPending]
    BY <2>3
  <2> QED
    BY <2>1, <2>2, <2>3, <2>4 DEF TypeOK
<1>2. ListInv
  <2>1. Listed = {}
    BY DEF Listed, Indices
  <2> QED
    BY <2>1 DEF ListInv, ListedFiltersLive, EveryFilterListed, AbortNeedsOverflow
<1>3. ClientInv
  BY DEF ClientInv, ClientFdsOwned, ConnSetSized, ClosingFd, InitCliChannel
<1> QED
  BY <1>1, <1>2, <1>3 DEF NetxInv

\* A successful CreateFilter() keeps types and list: the new filter goes behind the
\* listed ones, or the list was full.
LEMMA CreateKeeps ==
  ASSUME TypeOK, ListInv, NEW h \in Handles, NEW name \in Names,
         CreateFilter(h, name)
  PROVE  TypeOK' /\ ListInv'
<1> USE NetxAssumption DEF CreateFilter, ListIsFull, cliVars, connVars
<1>1. TypeOK'
  BY DEF TypeOK, Indices
<1>2. filterListCount \in Nat /\ filterListCount \in Indices
  BY DEF TypeOK, Indices
<1>3. CASE ListIsFull
  BY <1>3, <1>2 DEF TypeOK, ListInv, ListedFiltersLive, EveryFilterListed,
                    AbortNeedsOverflow, Listed, Indices
<1>4. CASE ~ListIsFull
  <2>1. Listed' = Listed \cup {filterListCount} /\ filterListCount \notin Listed
    BY <1>4, <1>2 DEF Listed, Indices
  <2>2. /\ filterList'[filterListCount] = h
        /\ \A i \in Listed : filterList'[i] = filterList[i] /\ filterList[i] # h
    BY <1>4, <1>2, <2>1 DEF TypeOK, ListInv, ListedFiltersLive, Listed
  <2>3. ListedFiltersLive'
    BY <2>1, <2>2 DEF TypeOK, ListInv, ListedFiltersLive, Listed
  <2>4. EveryFilterListed'
    BY <1>4, <2>1, <2>2 DEF TypeOK, ListInv, EveryFilterListed
  <2>5. AbortNeedsOverflow'
    BY DEF AbortNeedsOverflow
  <2> QED
    BY <1>1, <2>3, <2>4, <2>5 DEF ListInv
<1> QED
  BY <1>1, <1>3, <1>4

\* DestroyFilter() keeps types and list: if the filter was listed the last element
\* takes its place, if not the last element is lost, which needs an overflow; and
\* with an empty list there was one.
LEMMA DestroyKeeps ==
  ASSUME TypeOK, ListInv, NEW h \in Handles, DestroyFilter(h)
  PROVE  TypeOK' /\ ListInv'
<1> USE NetxAssumption DEF DestroyFilter, cliVars, connVars, filterVars
<1>1. CASE filterListCount = 0
  <2>1. TypeOK'
    BY <1>1 DEF TypeOK
  <2>2. overflowed
    BY <1>1 DEF ListInv, EveryFilterListed, Listed, Indices
  <2> QED
    BY <1>1, <2>1, <2>2 DEF TypeOK, ListInv, ListedFiltersLive, EveryFilterListed,
                            AbortNeedsOverflow, Listed
<1>2. CASE filterListCount > 0
  <2> DEFINE last == filterListCount - 1
  <2>1. /\ filters' = [filters EXCEPT ![h] = None]
        /\ filterList' = ReplaceByLast(h, last)
        /\ filterListCount' = last
        /\ UNCHANGED <<service, overflowed>>
    BY <1>2
  <2>2. last \in Listed /\ last \in Indices /\ last \in Nat
    BY <1>2 DEF TypeOK, Listed, Indices
  <2>3. TypeOK'
    BY <1>2, <2>1, <2>2 DEF TypeOK, ReplaceByLast, Indices
  <2>4. Listed' = Listed \ {last}
    BY <2>1, <2>2 DEF TypeOK, Listed, Indices
  <2>5. \A i \in Listed' :
          /\ filterListCount > 1
          /\ filterList'[i] = IF filterList[i] = h THEN filterList[last] ELSE filterList[i]
    BY <2>1, <2>2, <2>4 DEF TypeOK, ReplaceByLast, Listed, Indices
  <2>6. ListedFiltersLive'
    <3>1. \A i \in Listed' : filterList'[i] # h /\ filterList'[i] # None
      BY <2>2, <2>4, <2>5 DEF ListInv, ListedFiltersLive
    <3>2. \A i \in Listed' : filters[filterList'[i]] # None
      BY <2>2, <2>4, <2>5 DEF ListInv, ListedFiltersLive
    <3>3. \A i, j \in Listed' : filterList'[i] = filterList'[j] => i = j
      BY <2>2, <2>4, <2>5 DEF ListInv, ListedFiltersLive
    <3>4. \A i \in Listed' : filterList'[i] \in Handles
      BY <2>3, <3>1 DEF TypeOK, Listed
    <3> QED
      BY <2>1, <3>1, <3>2, <3>3, <3>4 DEF TypeOK, ListedFiltersLive
  <2>7. EveryFilterListed'
    <3> SUFFICES ASSUME ~overflowed', NEW g \in Handles, filters'[g] # None
                 PROVE  \E i \in Listed' : filterList'[i] = g
      BY DEF EveryFilterListed
    <3>1. g # h /\ filters[g] # None /\ ~overflowed
      BY <2>1 DEF TypeOK
    <3>2. PICK i \in Listed : filterList[i] = g
      BY <3>1 DEF ListInv, EveryFilterListed
    <3>3. PICK k \in Listed : filterList[k] = h
      BY <3>1 DEF ListInv, EveryFilterListed
    <3>4. CASE i = last
      BY <2>4, <2>5, <3>1, <3>2, <3>3, <3>4
    <3>5. CASE i # last
      BY <2>4, <2>5, <3>1, <3>2, <3>5
    <3> QED
      BY <3>4, <3>5
  <2> QED
    BY <2>1, <2>3, <2>6, <2>7 DEF ListInv, AbortNeedsOverflow
<1> QED
  BY <1>1, <1>2 DEF TypeOK

\* A step that leaves the filter variables and the service's state alone, or only
\* ends the service, keeps the list.
LEMMA OthersKeepList ==
  ASSUME ListInv, UNCHANGED filterVars, service' = service \/ service' # "aborted"
  PROVE  ListInv'
  BY DEF ListInv, ListedFiltersLive, EveryFilterListed, AbortNeedsOverflow, Listed,
         filterVars

\* Replies keep types, descriptors and the size of the records.
LEMMA ReplyKeeps ==
  ASSUME TypeOK, ClientInv, LibReply
  PROVE  TypeOK' /\ ClientInv' /\ UNCHANGED <<service, filterVars>>
<1> USE NetxAssumption DEF Answered, filterVars, cliVars
<1>1. ASSUME NEW r \in Requests, ReplyTimeout(r)
      PROVE  TypeOK' /\ ClientInv' /\ UNCHANGED <<service, filterVars>>
  BY <1>1 DEF ReplyTimeout, TypeOK, ClientInv, ClientFdsOwned, ConnSetSized, ClosingFd
<1>2. ASSUME NEW n \in 0 .. MaxConns, CountReply(n)
      PROVE  TypeOK' /\ ClientInv' /\ UNCHANGED <<service, filterVars>>
  BY <1>2 DEF CountReply, TypeOK, ClientInv, ClientFdsOwned, ConnSetSized, ClosingFd, Requests
<1>3. ASSUME NEW n \in 0 .. MaxConns, BriefReply(n)
      PROVE  TypeOK' /\ ClientInv' /\ UNCHANGED <<service, filterVars>>
  BY <1>3 DEF BriefReply, TypeOK, ClientInv, ClientFdsOwned, ConnSetSized, ClosingFd, Requests
<1> QED
  BY <1>1, <1>2, <1>3 DEF LibReply

\* A new client is the only one, and its descriptor was nobody's.
LEMMA AcceptKeeps ==
  ASSUME TypeOK, ClientInv, NEW fd \in Fds, Accept(fd)
  PROVE  TypeOK' /\ ClientInv' /\ UNCHANGED <<service, filterVars>>
<1> USE NetxAssumption DEF Accept, InitCliChannel, filterVars, connVars
<1>1. cliChannel' = [fd |-> fd, msg |-> None] /\ openFds' = openFds \cup {fd}
  OBVIOUS
<1>2. TypeOK'
  BY <1>1 DEF TypeOK
<1>3. ClientInv'
  BY <1>1 DEF ClientInv, ClientFdsOwned, ConnSetSized, ClosingFd, TypeOK
<1> QED
  BY <1>2, <1>3

\* Descriptors of other parts of the process come and go beside the client's.
LEMMA OthersKeepFds ==
  ASSUME TypeOK, ClientInv, NEW fd \in Fds, OtherOpen(fd) \/ OtherClose(fd)
  PROVE  TypeOK' /\ ClientInv' /\ UNCHANGED <<service, filterVars>>
<1> USE NetxAssumption DEF OtherOpen, OtherClose, filterVars, connVars
<1>1. TypeOK'
  BY DEF TypeOK
<1>2. ClientFdsOwned'
  BY DEF ClientInv, ClientFdsOwned, TypeOK
<1> QED
  BY <1>1, <1>2 DEF ClientInv, ConnSetSized, ClosingFd

\* Whatever the client sends, its descriptor is kept or closed, and records are freed
\* only together with the pointer to them.
LEMMA ClientKeeps ==
  ASSUME TypeOK, ClientInv, CliChannelEvent
  PROVE  /\ TypeOK' /\ ClientInv' /\ UNCHANGED filterVars
         /\ service' = service \/ service' # "aborted"
<1> DEFINE Goal == /\ TypeOK' /\ ClientInv' /\ UNCHANGED filterVars
                   /\ service' = service \/ service' # "aborted"
<1> USE NetxAssumption
<1>1. CASE Disconnect
  <2>1. /\ cliChannel' = [cliChannel EXCEPT !.fd = None] /\ cliChannelFd' = cliChannel.fd
        /\ cliChannel.fd \in Fds /\ openFds' = openFds \ {cliChannel.fd} /\ service' = "closing"
        /\ UNCHANGED <<filterVars, otherFds, stolen, connVars>>
    BY <1>1 DEF Disconnect, TypeOK
  <2>2. TypeOK'
    BY <2>1 DEF TypeOK, filterVars, connVars
  <2>3. ClientInv'
    BY <2>1 DEF TypeOK, ClientInv, ClientFdsOwned, ConnSetSized, ClosingFd, connVars
  <2> QED
    BY <2>1, <2>2, <2>3
<1>2. CASE CloseAgain
  <2>1. /\ cliChannel' = InitCliChannel /\ cliChannelFd' = None /\ cliChannelFd \in Fds
        /\ openFds' = openFds \ {cliChannelFd} /\ service' = "run"
        /\ stolen' = (stolen \/ cliChannelFd \in openFds)
        /\ UNCHANGED <<filterVars, otherFds, connVars>>
    BY <1>2 DEF CloseAgain, TypeOK
  <2>2. TypeOK'
    BY <2>1 DEF TypeOK, InitCliChannel, filterVars, connVars
  <2>3. ClientFdsOwned'
    <3>1. cliChannel.fd = None
      BY <1>2 DEF CloseAgain, ClientInv, ClosingFd
    <3> QED
      BY <2>1, <3>1 DEF InitCliChannel, TypeOK, ClientInv, ClientFdsOwned
  <2>4. ConnSetSized' /\ ClosingFd'
    BY <2>1 DEF ClientInv, ConnSetSized, ClosingFd, connVars
  <2> QED
    BY <2>1, <2>2, <2>3, <2>4 DEF ClientInv
<1>3. CASE OverrunMessage
  BY <1>3 DEF OverrunMessage, TypeOK, ClientInv, ClientFdsOwned, ConnSetSized, ClosingFd,
              filterVars, cliVars, connVars
<1>4. ASSUME NEW m \in Messages, RejectMessage(m) PROVE Goal
  <2>1. /\ cliChannel' = InitCliChannel /\ openFds' = openFds \ {cliChannel.fd}
        /\ UNCHANGED <<service, cliChannelFd, otherFds, stolen, filterVars, connVars>>
    BY <1>4 DEF RejectMessage
  <2>2. TypeOK'
    BY <2>1 DEF InitCliChannel, TypeOK, filterVars, connVars
  <2>3. ClientInv'
    BY <2>1 DEF InitCliChannel, ClientInv, ClientFdsOwned, ConnSetSized, ClosingFd, TypeOK,
                connVars
  <2> QED
    BY <2>1, <2>2, <2>3
<1>5. ASSUME NEW m \in Messages, NEW cmd \in Commands, ExecuteMessage(m, cmd)
      PROVE  /\ cliChannel' \in [fd : Fds \cup {None}, msg : Messages \cup {None}]
             /\ ClientFdsOwned' /\ ClosingFd'
             /\ UNCHANGED <<service, filterVars, cliChannelFd, openFds, otherFds, stolen>>
  BY <1>5, EffectiveIsMessage DEF ExecuteMessage, TypeOK, ClientInv, ClientFdsOwned, ClosingFd
<1>6. ASSUME NEW m \in Messages, CommandOnly(m) PROVE Goal
  BY <1>5, <1>6 DEF CommandOnly, TypeOK, ClientInv, ConnSetSized, filterVars, connVars
<1>7. ASSUME NEW m \in Messages, GetConnCount(m) PROVE Goal
  BY <1>5, <1>7 DEF GetConnCount, SendRequest, Commands, Requests, TypeOK, ClientInv,
                    ConnSetSized, filterVars
<1>8. ASSUME NEW m \in Messages, GetConnInfoBrief(m) PROVE Goal
  BY <1>5, <1>8 DEF GetConnInfoBrief, SendRequest, Commands, Requests, TypeOK,
                    ClientInv, ConnSetSized, filterVars
<1>9. ASSUME NEW m \in Messages, SetConnInfoBrief(m) PROVE Goal
  BY <1>5, <1>9 DEF SetConnInfoBrief, Commands, TypeOK, ClientInv, ConnSetSized,
                    filterVars
<1> QED
  BY <1>1, <1>2, <1>3, <1>4, <1>6, <1>7, <1>8, <1>9 DEF CliChannelEvent

\* The invariant is inductive.
LEMMA NetxInvNext == NetxInv /\ [Next]_vars => NetxInv'
<1> SUFFICES ASSUME NetxInv, [Next]_vars PROVE NetxInv'
  OBVIOUS
<1> USE DEF NetxInv
<1>1. ASSUME service' # "aborted" \/ service' = service,
             UNCHANGED <<filterVars, cliVars, connVars>>,
             service' \in {"start", "run", "exited", "aborted", "undefined"} \/ service' = service,
             service = "closing" => service' = "closing"
      PROVE  NetxInv'
  BY <1>1, OthersKeepList DEF TypeOK, ClientInv, ClientFdsOwned, ConnSetSized, ClosingFd,
                              filterVars, cliVars, connVars
<1>2. CASE Start
  BY <1>1, <1>2 DEF Start
<1>3. CASE LeaveLoop
  BY <1>1, <1>3 DEF LeaveLoop
<1>4. CASE FilterCallback
  <2>1. PICK h \in Handles : (\E name \in Names : CreateFilter(h, name)) \/ DestroyFilter(h)
    BY <1>4 DEF FilterCallback
  <2>2. UNCHANGED <<cliVars, connVars>>
    BY <2>1 DEF CreateFilter, DestroyFilter
  <2>3. ClientInv'
    BY <2>1, <2>2 DEF CreateFilter, DestroyFilter, ClientInv, ClientFdsOwned, ConnSetSized, ClosingFd, cliVars, connVars
  <2> QED
    BY <2>1, <2>3, CreateKeeps, DestroyKeeps
<1>5. CASE LibReply
  BY <1>5, ReplyKeeps, OthersKeepList
<1>6. ASSUME NEW fd \in Fds, Accept(fd) PROVE NetxInv'
  BY <1>6, AcceptKeeps, OthersKeepList
<1>9. ASSUME NEW fd \in Fds, OtherOpen(fd) \/ OtherClose(fd) PROVE NetxInv'
  BY <1>9, OthersKeepFds, OthersKeepList
<1>7. CASE CliChannelEvent
  BY <1>7, ClientKeeps, OthersKeepList
<1>8. CASE UNCHANGED vars
  BY <1>1, <1>8 DEF vars, TypeOK
<1> QED
  BY <1>2, <1>3, <1>4, <1>5, <1>6, <1>7, <1>8, <1>9 DEF Next

\* The invariant holds in every state of the service.
THEOREM NetxInvariant == Spec => []NetxInv
  BY NetxInvInit, NetxInvNext, PTL DEF Spec

\* Every state is type correct.
THEOREM TypeCorrect == Spec => []TypeOK
<1>1. NetxInv => TypeOK
  BY DEF NetxInv
<1> QED
  BY <1>1, NetxInvariant, PTL

\* filterList never points to a freed filter, whatever filters come and go, also
\* after an overflow.
THEOREM ListedFiltersLiveHolds == Spec => []ListedFiltersLive
<1>1. NetxInv => ListedFiltersLive
  BY DEF NetxInv, ListInv
<1> QED
  BY <1>1, NetxInvariant, PTL

\* Until a filter is created with a full list, every filter is listed.
THEOREM EveryFilterListedHolds == Spec => []EveryFilterListed
<1>1. NetxInv => EveryFilterListed
  BY DEF NetxInv, ListInv
<1> QED
  BY <1>1, NetxInvariant, PTL

\* DestroyFilter()'s assertion on the count holds unless the list was once full.
THEOREM AbortNeedsOverflowHolds == Spec => []AbortNeedsOverflow
<1>1. NetxInv => AbortNeedsOverflow
  BY DEF NetxInv, ListInv
<1> QED
  BY <1>1, NetxInvariant, PTL

\* No client's descriptor is leaked, and until the second close() after a disconnect
\* hits a descriptor of another part, every part has the descriptors it opened.
THEOREM ClientFdsOwnedHolds == Spec => []ClientFdsOwned
<1>1. NetxInv => ClientFdsOwned
  BY DEF NetxInv, ClientInv
<1> QED
  BY <1>1, NetxInvariant, PTL

\* The records of conn_set_g are allocated and as many as num_conn_set_g says.
THEOREM ConnSetSizedHolds == Spec => []ConnSetSized
<1>1. NetxInv => ConnSetSized
  BY DEF NetxInv, ClientInv
<1> QED
  BY <1>1, NetxInvariant, PTL
================================================================================
