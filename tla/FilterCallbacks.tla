----------------------------- MODULE FilterCallbacks ----------------------------
(***************************************************************************)
(* The callbacks of netx_sample_service.c for one filter: packets, saved   *)
(* state and ioctls.  The service has one thread, so a callback is one     *)
(* step; only the copy of a packet (PacketCopy) takes several.             *)
(*                                                                         *)
(* The default action is a setting.  start_netx_service() sets g_action to *)
(* ACTION_COPY, its option for the other value being commented out; with   *)
(* ACTION_PUNT the filter forwards packets itself, as its state says, and  *)
(* that state comes from a buffer an agent saved earlier.  The list of     *)
(* filters is in NetxService.                                              *)
(*                                                                         *)
(* A frame is its fragments and the header fields that are read.  A        *)
(* reference into a packet is the offset of the byte it points to.         *)
(***************************************************************************)
EXTENDS NetProtos, PacketCopy

CONSTANTS
  NULL,
  Actions,    \* settings of g_action to examine; {"ACTION_COPY"} in the code
  Frames,     \* frames the dvfilter library can deliver
  States,     \* contents of a saved state
  Word16,     \* uint16_t values: 2^16 in the code
  StateLen,   \* sizeof(filterState)
  MaxRand     \* bound: bytes GetSavedStateLen() adds, 127 in the code

Framings == {"DIX", "802_1PQ", "802_3", "802_1PQ_802_3"}
Directions == {"FROM_SWITCH", "TO_SWITCH"}

FrameType ==
  [pkt : Packets,
   framing : Framings, etherType : {ETH_TYPE_IPV4, ETH_TYPE_IPV6, ETH_TYPE_ARP}, tci : Nat,
   ihl : Nat, protocol : Nat,
   source : 0 .. Word16 - 1, dest : 0 .. Word16 - 1, check : 0 .. Word16 - 1,
   rest : Nat,              \* what else the TCP checksum sums up
   mustCsum : BOOLEAN]      \* the checksum is completed later

StateType ==
  [filterToSwitch : BOOLEAN, filterFromSwitch : BOOLEAN, filterICMP : BOOLEAN,
   filterUDPPortNBO : 0 .. Word16 - 1, filterTCPPortNBO : 0 .. Word16 - 1,
   copyPackets : BOOLEAN, delayPacketsMs : Nat, reorderPackets : BOOLEAN,
   dnaptPortNBO : 0 .. Word16 - 1]

\* A ones-complement sum is right when it is a multiple of Word16 - 1.
ChecksumValid(rest, tcp) ==
  LET sum == rest + tcp.source + tcp.dest + tcp.check
  IN \E k \in 0 .. sum : sum = k * (Word16 - 1)

TcpType == [source : 0 .. Word16 - 1, dest : 0 .. Word16 - 1, check : 0 .. Word16 - 1]

Tcp(f) == [source |-> f.source, dest |-> f.dest, check |-> f.check]

ASSUME FilterAssumption ==
  /\ Actions \subseteq {"ACTION_PUNT", "ACTION_COPY"}
  /\ Word16 \in Nat \ {0, 1}
  /\ StateLen \in Nat \ {0} /\ MaxRand \in Nat
  /\ Frames \subseteq FrameType
  /\ \A p \in Packets : DVFilter_GetPktLen(p) \in CopyLens
  /\ \A f \in Frames : f.tci < 65536
  /\ \A f \in Frames : f.mustCsum \/ ChecksumValid(f.rest, Tcp(f))
  /\ States \subseteq StateType
  /\ NULL \notin Nat \cup States \cup TcpType

VARIABLES
  g_action,
  state,      \* f->state, or NULL without a filter
  buffer,     \* the state the library keeps: its length and its contents
  restored,   \* history: "none", or how the last RestoreState() ended: "ok", "error",
              \* or "empty", an error too, for a request without a buffer
  call,       \* the packet ProcessPacket() was called with and what it did, or NULL
  service     \* "run", or what ended it: "assert", "empty_ioctl" or "null_packet"

ownVars == <<g_action, state, buffer, restored>>
allVars == <<ownVars, call, service, copyVars>>

ZeroState ==
  [filterToSwitch |-> FALSE, filterFromSwitch |-> FALSE, filterICMP |-> FALSE,
   filterUDPPortNBO |-> 0, filterTCPPortNBO |-> 0, copyPackets |-> FALSE,
   delayPacketsMs |-> 0, reorderPackets |-> FALSE, dnaptPortNBO |-> 0]

Init ==
  /\ CopyInit
  /\ g_action \in Actions
  /\ state = NULL
  /\ buffer \in {NULL} \cup [len : {StateLen}, state : States]
  /\ restored = "none"
  /\ call = NULL
  /\ service = "run"

--------------------------------------------------------------------------------
(* References into packets. *)

\* Where the headers of a frame really are.
IpStart(f) == CASE f.framing = "DIX" -> 14 [] f.framing = "802_1PQ" -> 18
                [] f.framing = "802_3" -> 22 [] f.framing = "802_1PQ_802_3" -> 26
TransportStart(f) ==
  IpStart(f) + (IF f.etherType = ETH_TYPE_IPV6 THEN IPv6Hdr_Size ELSE 4 * f.ihl)

\* The framings with a VLAN tag.
Tagged(f) == f.framing \in {"802_1PQ", "802_1PQ_802_3"}

\* The words of a frame's Ethernet header, as its framing lays them out: the type
\* comes last, behind a tag, a length and an LLC header where there are any.
EthHeader(f) ==
  [o \in {12, 14, 16, 20, 24} |->
     IF o = IpStart(f) - 2 THEN ntohs(f.etherType)
     ELSE IF Tagged(f) /\ o = 12 THEN ntohs(ETH_TYPE_802_1PQ)
     ELSE IF Tagged(f) /\ o = 14 THEN ntohs(f.tci)
     ELSE IF o = (IF Tagged(f) THEN 16 ELSE 12) THEN ntohs(46)
     ELSE 0]

\* DirectContextInit(): no region is mapped.
NoDirect == [offset |-> 0, len |-> 0]

\* PktDirectRef(): the region mapped last serves a later request, with a pointer
\* that is only right if that region starts the packet; else a new one is mapped.
\* The backing buffer is for 128 bytes and more, which nobody asks for.
PktDirectRef(p, offset, length, direct) ==
  IF direct.len > 0 /\ offset >= direct.offset /\ offset + length < direct.offset + direct.len
    THEN [ref |-> direct.offset + offset, direct |-> direct]
  ELSE IF DirectRange(p, offset, length)
    THEN [ref |-> offset, direct |-> [offset |-> offset, len |-> LengthLeft(p, offset)]]
  ELSE [ref |-> NULL, direct |-> direct]

\* Fields read through a reference: those of the header if it is there, else
\* whatever the memory holds.
AnyProtocol == {g.protocol : g \in Frames}
AnyPorts == {<<g.source, g.dest>> : g \in Frames}
ProtocolAt(f, ref) == IF ref = IpStart(f) THEN {f.protocol} ELSE AnyProtocol
PortsAt(f, ref) == IF ref = TransportStart(f) THEN {<<f.source, f.dest>>} ELSE AnyPorts

--------------------------------------------------------------------------------
(* ParsePacket() and FilterPacket(). *)

NoInfo == [ethtype |-> 0, protocol |-> 0, srcPort |-> 0, dstPort |-> 0,
           vlanID |-> 0, priority |-> 0]

\* What ParsePacket() may put into pktInfo: up to the header it cannot reference.
ParsePacket(f) ==
  LET eth  == PktDirectRef(f.pkt, 0, Eth_Header_Size, NoDirect)
      eh   == EthHeader(f)
      enc  == EthEncapsulatedPktType(eh)
      link == [NoInfo EXCEPT !.ethtype = enc.typeNBO,
                 !.vlanID = IF EthHeaderType(eh) = "802_1PQ" THEN EthVlanTagGetVlanID(eh[14]) ELSE 0,
                 !.priority = IF EthHeaderType(eh) = "802_1PQ" THEN EthVlanTagPriority(eh[14]) ELSE 0]
      v6   == enc.typeNBO = ETH_TYPE_IPV6_NBO
      ip   == PktDirectRef(f.pkt, enc.offset, IF v6 THEN IPv6Hdr_Size ELSE IPHdr_Size, eth.direct)
      next == enc.offset + (IF v6 THEN IPv6Hdr_Size ELSE 4 * f.ihl)
      Transport(p) == PktDirectRef(f.pkt, next, IF p = IPPROTO_UDP THEN UDPHdr_Size ELSE TCPHdr_Size,
                                   ip.direct)
  IN IF eth.ref = NULL THEN {NoInfo}
     ELSE IF enc.typeNBO \notin {ETH_TYPE_IPV4_NBO, ETH_TYPE_IPV6_NBO} \/ ip.ref = NULL THEN {link}
     ELSE UNION {IF p \in {IPPROTO_UDP, IPPROTO_TCP} /\ Transport(p).ref # NULL
                   THEN {[link EXCEPT !.protocol = p, !.srcPort = ports[1], !.dstPort = ports[2]] :
                           ports \in PortsAt(f, Transport(p).ref)}
                   ELSE {[link EXCEPT !.protocol = p]} : p \in ProtocolAt(f, ip.ref)}

\* Mutation: a TCP port of zero is not taken as "no filter".
FilterPacket_ZeroPort(info, s) ==
  /\ info.ethtype \in {ETH_TYPE_IPV4_NBO, ETH_TYPE_IPV6_NBO}
  /\ \/ info.protocol \in {IPPROTO_ICMP, IPPROTO_ICMPV6} /\ s.filterICMP
     \/ info.protocol = IPPROTO_UDP /\ s.filterUDPPortNBO # 0
          /\ s.filterUDPPortNBO \in {info.srcPort, info.dstPort}
     \/ info.protocol = IPPROTO_TCP
          /\ s.filterTCPPortNBO \in {info.srcPort, info.dstPort}

\* FilterPacket() returns MATCH.
FilterPacket(info, s) ==
  /\ info.ethtype \in {ETH_TYPE_IPV4_NBO, ETH_TYPE_IPV6_NBO}
  /\ \/ info.protocol \in {IPPROTO_ICMP, IPPROTO_ICMPV6} /\ s.filterICMP
     \/ info.protocol = IPPROTO_UDP /\ s.filterUDPPortNBO # 0
          /\ s.filterUDPPortNBO \in {info.srcPort, info.dstPort}
     \/ info.protocol = IPPROTO_TCP /\ s.filterTCPPortNBO # 0
          /\ s.filterTCPPortNBO \in {info.srcPort, info.dstPort}

--------------------------------------------------------------------------------
(* PerformNAPT(). *)

\* A sum in 32 bits folded into 16: the carry is added to the low half.
Fold(csum) == (csum % Word16) + (csum \div Word16)

\* Mutation: the carry of the first fold is lost.
Csum_OneFold(check, old, new) ==
  Word16 - 1 - (Fold((Word16 - 1 - check) + new + (Word16 - 1 - old)) % Word16)

\* HC' = ~(~HC + ~m + m'), where ~ is Word16 - 1 minus its argument.
Csum(check, old, new) ==
  Word16 - 1 - (Fold(Fold((Word16 - 1 - check) + new + (Word16 - 1 - old))) % Word16)

\* The TCP header with the port of the virtual machine replaced.
Rewrite(f, newport, d) ==
  LET old == IF d = "FROM_SWITCH" THEN f.dest ELSE f.source
  IN [source |-> IF d = "FROM_SWITCH" THEN f.source ELSE newport,
      dest   |-> IF d = "FROM_SWITCH" THEN newport ELSE f.dest,
      check  |-> IF f.mustCsum THEN f.check ELSE Csum(f.check, old, newport)]

\* frameLen is 16 bits wide.
FrameLen(f) == DVFilter_GetPktLen(f.pkt) % Word16

Unchanged(f) == [tcp |-> Tcp(f), assert |-> FALSE]

\* What PerformNAPT() may do: it parses the frame again, with tests of its length.
\* Through a reference that is wrong it writes a port and a checksum elsewhere into
\* the packet or behind it, and nothing is known of the TCP header afterwards.
PerformNAPT(f, newport, d) ==
  LET eth  == PktDirectRef(f.pkt, 0, Eth_Header_Size, NoDirect)
      enc  == EthEncapsulatedPktType(EthHeader(f))
      size == IF enc.typeNBO = ETH_TYPE_IPV6_NBO THEN IPv6Hdr_Size ELSE IPHdr_Size
      ip   == PktDirectRef(f.pkt, enc.offset, size, eth.direct)
      next == enc.offset + (IF enc.typeNBO = ETH_TYPE_IPV6_NBO THEN IPv6Hdr_Size ELSE 4 * f.ihl)
      tcp  == PktDirectRef(f.pkt, next, TCPHdr_Size, ip.direct)
  IN IF \/ eth.ref = NULL
        \/ enc.typeNBO \notin {ETH_TYPE_IPV4_NBO, ETH_TYPE_IPV6_NBO}
        \/ ip.ref = NULL
        \/ FrameLen(f) < enc.offset + size
       THEN {Unchanged(f)}
     ELSE {IF p # IPPROTO_TCP \/ FrameLen(f) < next + TCPHdr_Size THEN Unchanged(f)
           ELSE IF tcp.ref = NULL THEN [Unchanged(f) EXCEPT !.assert = TRUE]
           ELSE IF tcp.ref # TransportStart(f) THEN [Unchanged(f) EXCEPT !.tcp = NULL]
           ELSE [Unchanged(f) EXCEPT !.tcp = Rewrite(f, newport, d)] : p \in ProtocolAt(f, ip.ref)}

--------------------------------------------------------------------------------
(* ProcessPacket(). *)

\* A callback can begin.
Idle == service = "run" /\ state # NULL /\ call = NULL

\* The packet handler (ptrcb) gets the first byte of the frame and its length.  Without
\* a reference to that byte it copies from a null pointer, unless the length is zero.
Handover(f) ==
  PktDirectRef(f.pkt, 0, Eth_Header_Size, NoDirect).ref # NULL \/ FrameLen(f) = 0

\* A callback for a packet: what was parsed of it, what became of it (fate; "held"
\* while it is copied, then its copy is sent) and its TCP header, NULL if unknown.
Call(f, info, fate) == [frame |-> f, info |-> info, fate |-> fate, tcp |-> Tcp(f)]

Filtered(d) == IF d = "TO_SWITCH" THEN state.filterToSwitch ELSE state.filterFromSwitch

\* The first fragment is too short for a reference to the Ethernet header: the copy
\* in PacketProducer() kills the process.
ProcessNull(f) ==
  /\ Idle /\ ~Handover(f)
  /\ service' = "null_packet"
  /\ UNCHANGED <<ownVars, call, copyVars>>

\* ACTION_COPY: the packet handler has its copy, the packet is dropped.
ProcessCopied(f) ==
  /\ Idle /\ Handover(f) /\ g_action = "ACTION_COPY"
  /\ call' = Call(f, NoInfo, "freed")
  /\ UNCHANGED <<ownVars, service, copyVars>>

\* Packets of a direction that is not filtered, and packets without a match.
ProcessForward(f, d) ==
  /\ Idle /\ Handover(f) /\ g_action = "ACTION_PUNT"
  /\ \/ ~Filtered(d) /\ call' = Call(f, NoInfo, "sent")
     \/ /\ Filtered(d)
        /\ \E info \in ParsePacket(f) : ~FilterPacket(info, state) /\ call' = Call(f, info, "sent")
  /\ UNCHANGED <<ownVars, service, copyVars>>

\* The guard of the steps for packets that are filtered; copying comes first.
Filtering(f, d, copying) ==
  /\ Idle /\ Handover(f) /\ g_action = "ACTION_PUNT" /\ Filtered(d)
  /\ state.copyPackets = copying

\* The results of parsing a frame that are a match.
Matches(f) == {info \in ParsePacket(f) : FilterPacket(info, state)}

\* DVFilter_AllocPkt() fails.
ProcessNoMemory(f, d) ==
  /\ Filtering(f, d, TRUE)
  /\ \E info \in Matches(f) : call' = Call(f, info, "freed")
  /\ UNCHANGED <<ownVars, service, copyVars>>

\* A packet of the same length is allocated, and CopyPacket() begins.
ProcessCopy(f, d) ==
  /\ Filtering(f, d, TRUE)
  /\ \E info \in Matches(f) : call' = Call(f, info, "held")
  /\ \E p \in Packets :
       /\ DVFilter_GetPktLen(p) = DVFilter_GetPktLen(f.pkt)
       /\ CopyPacket(p, f.pkt, DVFilter_GetPktLen(f.pkt))
  /\ UNCHANGED <<ownVars, service>>

\* CopyPacket() has returned: the packet is freed and the copy sent, which
\* reordering and delaying do as well; or the assertion on its status fails.
ProcessCopyDone ==
  /\ service = "run" /\ call # NULL /\ call.fate = "held"
  /\ \/ status = "ok" /\ call' = [call EXCEPT !.fate = "sent"]
                      /\ UNCHANGED service
     \/ status \in {"error", "assert"} /\ service' = "assert" /\ UNCHANGED call
  /\ UNCHANGED <<ownVars, copyVars>>

\* "NOT IMPLEMENTED ... no-op"
ProcessReorderOrDelay(f, d) ==
  /\ Filtering(f, d, FALSE)
  /\ \E info \in Matches(f) : call' = Call(f, info, "sent")
  /\ state.reorderPackets \/ state.delayPacketsMs # 0
  /\ UNCHANGED <<ownVars, service, copyVars>>

\* The packet is sent whatever PerformNAPT() returns.
ProcessNAPT(f, d) ==
  /\ Filtering(f, d, FALSE)
  /\ \E info \in Matches(f), r \in PerformNAPT(f, state.dnaptPortNBO, d) :
       /\ call' = [Call(f, info, IF r.assert THEN "held" ELSE "sent") EXCEPT !.tcp = r.tcp]
       /\ service' = IF r.assert THEN "assert" ELSE "run"
  /\ ~state.reorderPackets /\ state.delayPacketsMs = 0 /\ state.dnaptPortNBO # 0
  /\ UNCHANGED <<ownVars, copyVars>>

ProcessDrop(f, d) ==
  /\ Filtering(f, d, FALSE)
  /\ \E info \in Matches(f) : call' = Call(f, info, "freed")
  /\ ~state.reorderPackets /\ state.delayPacketsMs = 0 /\ state.dnaptPortNBO = 0
  /\ UNCHANGED <<ownVars, service, copyVars>>

ProcessPacket(f, d) ==
  \/ ProcessNull(f) \/ ProcessCopied(f) \/ ProcessForward(f, d)
  \/ ProcessNoMemory(f, d) \/ ProcessCopy(f, d)
  \/ ProcessReorderOrDelay(f, d) \/ ProcessNAPT(f, d) \/ ProcessDrop(f, d)

\* ProcessPacket() returns.
ProcessReturn ==
  /\ service = "run" /\ call # NULL /\ call.fate # "held"
  /\ call' = NULL
  /\ CopyForget
  /\ UNCHANGED <<ownVars, service>>

--------------------------------------------------------------------------------
(* The life of the filter and its state. *)

\* CreateFilter(), as far as the filter itself goes: calloc() clears its state.
CreateFilter ==
  /\ service = "run" /\ state = NULL
  /\ state' = ZeroState
  /\ restored' = "none"
  /\ UNCHANGED <<g_action, buffer, service, call, copyVars>>

DestroyFilter ==
  /\ Idle
  /\ state' = NULL
  /\ UNCHANGED <<g_action, buffer, restored, service, call, copyVars>>

\* Mutation: the length is left at that of the buffer.
SaveState_BufferLen(len) ==
  /\ Idle
  /\ buffer' = IF len < StateLen THEN buffer ELSE [len |-> len, state |-> state]
  /\ UNCHANGED <<g_action, state, restored, service, call, copyVars>>

\* GetSavedStateLen() asks for StateLen bytes and a random number more, then
\* SaveState() is called with a buffer of that length and returns the bytes used.
SaveState(len) ==
  /\ Idle
  /\ buffer' = IF len < StateLen THEN buffer ELSE [len |-> StateLen, state |-> state]
  /\ UNCHANGED <<g_action, state, restored, service, call, copyVars>>

\* What RestoreState() can be called with: what the library keeps, or no buffer at all.
RestoreRequests == {[len |-> 0, state |-> NULL]} \cup ({buffer} \ {NULL})

RestoreState(buf) ==
  /\ Idle
  /\ IF buf.len = StateLen
       THEN state' = buf.state /\ restored' = "ok"
       ELSE UNCHANGED state /\ restored' = IF buf.len = 0 THEN "empty" ELSE "error"
  /\ UNCHANGED <<g_action, buffer, service, call, copyVars>>

\* ProcessFilterIoctlRequest(): an empty payload is a null pointer and fails an
\* assertion; any other request changes nothing here, with a reply or without one.
ProcessFilterIoctlRequest(payloadLen) ==
  /\ Idle
  /\ service' = IF payloadLen = 0 THEN "empty_ioctl" ELSE "run"
  /\ UNCHANGED <<ownVars, call, copyVars>>

--------------------------------------------------------------------------------

Next ==
  \/ \E f \in Frames, d \in Directions : ProcessPacket(f, d)
  \/ (CopyCycle \/ CopyReturn) /\ UNCHANGED <<ownVars, call, service>>
  \/ ProcessCopyDone \/ ProcessReturn
  \/ CreateFilter \/ DestroyFilter
  \/ \E r \in 0 .. MaxRand : SaveState(StateLen + r)
  \/ \E buf \in RestoreRequests : RestoreState(buf)
  \/ \E payloadLen \in {0, 1} : ProcessFilterIoctlRequest(payloadLen)

Spec == Init /\ [][Next]_allVars

--------------------------------------------------------------------------------
(* Properties. *)

\* The whole headers of a frame are in its first fragment, with a byte to spare.
InOneFragment(f) ==
  f.pkt.n >= 1 /\ TransportStart(f) + TCPHdr_Size < FragLength(f.pkt, 0)

\* The IP header of a frame starts its second fragment: the region PktDirectRef()
\* keeps then does not start the packet, and the next reference is wrong.
RegionInside(f) == FragLength(f.pkt, 0) = IpStart(f)

\* What a frame is about, from its own fields.
ReferenceInfo(f) ==
  [ethtype |-> ntohs(f.etherType),
   protocol |-> IF f.etherType = ETH_TYPE_ARP THEN 0 ELSE f.protocol,
   srcPort |-> IF f.etherType # ETH_TYPE_ARP /\ f.protocol \in {IPPROTO_TCP, IPPROTO_UDP}
                 THEN f.source ELSE 0,
   dstPort |-> IF f.etherType # ETH_TYPE_ARP /\ f.protocol \in {IPPROTO_TCP, IPPROTO_UDP}
                 THEN f.dest ELSE 0,
   vlanID |-> IF Tagged(f) THEN f.tci % 4096 ELSE 0,
   priority |-> IF Tagged(f) THEN f.tci \div 8192 ELSE 0]

\* The tag of a tagged 802.3 frame is not looked at.
TagUnread(f, k) == f.framing = "802_1PQ_802_3" /\ k \in {"vlanID", "priority"}

\* ParsePacket() finds the type, protocol and ports of a frame in each of the four
\* framings, and its tag in the framing 802_1PQ; the tag of a tagged 802.3 frame it
\* leaves at zero.  Of a frame in several fragments it finds these or less, unless
\* the IP header starts the second one or says it is shorter than any IP header.
ParsedRight ==
  call # NULL /\ call.info # NoInfo =>
    /\ InOneFragment(call.frame) =>
         \A k \in DOMAIN NoInfo :
           call.info[k] = IF TagUnread(call.frame, k) THEN 0 ELSE ReferenceInfo(call.frame)[k]
    /\ ~RegionInside(call.frame) /\ call.frame.ihl >= 5 =>
         \A k \in DOMAIN NoInfo : call.info[k] \in {NoInfo[k], ReferenceInfo(call.frame)[k]}

\* The TCP checksum of a packet stays right through the incremental update of
\* PerformNAPT(); only a packet whose IP header starts the second fragment may have
\* been written to in the wrong place, and nothing is said of its checksum.
ChecksumKept ==
  call # NULL =>
    IF call.tcp = NULL THEN RegionInside(call.frame)
    ELSE call.frame.mustCsum \/ ChecksumValid(call.frame.rest, call.tcp)

\* The two assertions on a packet's way hold: CopyPacket() succeeds whenever
\* ProcessPacket() calls it (line 1337), and PerformNAPT() can reference the TCP header
\* of every packet that matched (line 1205).  It says nothing of the assertions on the
\* payload of an ioctl, which an empty payload fails ("empty_ioctl"), on the endpoint
\* type and on the list of filters.
PacketAssertsHold == service # "assert"

\* What a filter saved is accepted when it is restored, whatever length the library
\* was asked for, over any order of saving, destroying, creating and restoring.  A
\* request without a buffer ("empty") carries nothing that was saved.
SavedStateRestores == restored # "error"
================================================================================
