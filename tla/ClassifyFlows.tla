------------------------------ MODULE ClassifyFlows -----------------------------
(***************************************************************************)
(* PacketHandler::classifyFlows() and populateFlowTable(): from a frame to *)
(* the key and the payload that go to the flow table, whose map is that of *)
(* ConnKey.  Headers are found by moving a pointer and a 32-bit length     *)
(* along the frame; only the IP header's own lengths are ever tested.      *)
(*                                                                         *)
(* A frame is its size and the header fields the code reads; pointers are  *)
(* offsets from its first byte.  A read behind the end of the frame is     *)
(* undefined and ends the behaviour in "undefined".                        *)
(***************************************************************************)
EXTENDS ConnKey, FiniteSets

CONSTANTS
  Frames,    \* frames the netx service can deliver
  MaxFlows   \* bound: entries of the table

TCP == 6
UDP == 17

FrameType ==
  [size : Nat,          \* bytes
   tags : Nat,          \* VLAN tags in front of the ether type
   ip : BOOLEAN,        \* the ether type is ETH_P_IP
   version : Nat, ihl : 0 .. 15, tot_len : Nat, doff : 0 .. 15,
   key : ConnKeys]      \* addresses, ports and protocol as the headers give them

ASSUME FrameAssumption ==
  /\ Frames \subseteq FrameType
  /\ \A f \in Frames : f.size < Word /\ f.tot_len < Word
  /\ Word >= 120          \* two headers of 15 words
  /\ 0 \in Addresses /\ 0 \in Ports /\ 0 \in Protos
  /\ MaxFlows \in Nat

VARIABLES
  frame,  \* mdata->pkt
  ptr,    \* eth_type, then iph, then ptr: an offset into the frame
  len,
  key,
  pc      \* "idle", the header under the pointer, "insert", "throw", "undefined"

framevars == <<frame, ptr, len, key, pc>>
allvars == <<framevars, vars>>

\* Unsigned 32-bit subtraction.
Minus(a, b) == (a + Word - b) % Word

NoKey == [srcaddr |-> 0, dstaddr |-> 0, srcport |-> 0, dstport |-> 0, ipproto |-> 0]

NoFrame == [size |-> 0, tags |-> 0, ip |-> FALSE, version |-> 0, ihl |-> 0,
            tot_len |-> 0, doff |-> 0, key |-> NoKey]

Inside(n) == ptr + n <= frame.size

ClassifyInit ==
  /\ Init
  /\ frame = NoFrame /\ ptr = 0 /\ len = 0 /\ key = NoKey /\ pc = "idle"

\* classifyFlows() returns and its variables are gone.
Return ==
  /\ frame' = NoFrame /\ ptr' = 0 /\ len' = 0 /\ key' = NoKey /\ pc' = "idle"

--------------------------------------------------------------------------------

\* queue_.read(): the next frame; the pointer goes to the first ether type.
ReadFrame(f) ==
  /\ pc = "idle"
  /\ frame' = f
  /\ ptr' = 12
  /\ len' = Minus(f.size, 12)
  /\ key' = NoKey
  /\ pc' = "ether"
  /\ UNCHANGED vars

\* Mutation: the pointer to shorts is advanced by the bytes of a tag.
StripVlan_Bytes ==
  /\ pc = "ether" /\ Inside(2)
  /\ ptr < 12 + 4 * frame.tags
  /\ ptr' = ptr + 8
  /\ len' = Minus(len, 4)
  /\ UNCHANGED <<frame, key, pc, vars>>

\* One turn of the loop over VLAN tags.
StripVlan ==
  /\ pc = "ether" /\ Inside(2)
  /\ ptr < 12 + 4 * frame.tags
  /\ ptr' = ptr + 4
  /\ len' = Minus(len, 4)
  /\ UNCHANGED <<frame, key, pc, vars>>

\* Anything but an IP packet is ignored.
EtherType ==
  /\ pc = "ether" /\ Inside(2)
  /\ ptr >= 12 + 4 * frame.tags
  /\ \/ ~frame.ip /\ Return
     \/ frame.ip /\ pc' = "ip" /\ ptr' = ptr + 2 /\ len' = Minus(len, 2)
                 /\ UNCHANGED <<frame, key>>
  /\ UNCHANGED vars

\* "Do basic sanity of the ip header"
Sane == frame.ihl >= 5 /\ frame.version = 4 /\ len >= frame.tot_len

IgnoreIp ==
  /\ pc = "ip" /\ Inside(4)
  /\ ~Sane
  /\ Return
  /\ UNCHANGED vars

\* Mutation: padding behind the datagram is kept.
IpHeader_KeepsPadding ==
  /\ pc = "ip" /\ Inside(20)
  /\ Sane
  /\ key' = [NoKey EXCEPT !.srcaddr = frame.key.srcaddr, !.dstaddr = frame.key.dstaddr,
                          !.ipproto = frame.key.ipproto]
  /\ len' = Minus(len, 4 * frame.ihl)
  /\ ptr' = ptr + 4 * frame.ihl
  /\ pc' = "transport"
  /\ UNCHANGED <<frame, vars>>

IpHeader ==
  /\ pc = "ip" /\ Inside(20)
  /\ Sane
  /\ key' = [NoKey EXCEPT !.srcaddr = frame.key.srcaddr, !.dstaddr = frame.key.dstaddr,
                          !.ipproto = frame.key.ipproto]
  /\ len' = Minus(frame.tot_len, 4 * frame.ihl)
  /\ ptr' = ptr + 4 * frame.ihl
  /\ pc' = "transport"
  /\ UNCHANGED <<frame, vars>>

\* Bytes of the transport header that are read, and that are skipped.
TransportRead == CASE key.ipproto = TCP -> 13 [] key.ipproto = UDP -> 4 [] OTHER -> 0
TransportLen == CASE key.ipproto = TCP -> 4 * frame.doff [] key.ipproto = UDP -> 8 [] OTHER -> 0

\* populateFlowTable() up to the key: other protocols have no ports.
PopulateKey ==
  /\ pc = "transport" /\ Inside(TransportRead)
  /\ key' = IF key.ipproto \in {TCP, UDP}
              THEN [key EXCEPT !.srcport = frame.key.srcport, !.dstport = frame.key.dstport]
              ELSE key
  /\ ptr' = ptr + TransportLen
  /\ len' = Minus(len, TransportLen)
  /\ pc' = "insert"
  /\ UNCHANGED <<frame, vars>>

\* A length that wrapped: the string cannot grow that far, or the copy runs out of
\* the frame.
AppendWrapped ==
  /\ pc = "insert" /\ ~Inside(len)
  /\ pc' \in {"throw", "undefined"}
  /\ UNCHANGED <<frame, ptr, len, key, vars>>

\* InsertOrUpdateFlows(): a new entry, or the one found.
Insert ==
  /\ pc = "insert" /\ Inside(len)
  /\ \/ Cardinality(keys) < MaxFlows /\ Packet(key)
     \/ Find(key) # {} /\ UNCHANGED vars
  /\ Return

\* A header field lies behind the end of the frame.
ReadOutside ==
  /\ \/ pc = "ether" /\ ~Inside(2)
     \/ pc = "ip" /\ (~Inside(4) \/ (Sane /\ ~Inside(20)))
     \/ pc = "transport" /\ ~Inside(TransportRead)
  /\ pc' = "undefined"
  /\ UNCHANGED <<frame, ptr, len, key, vars>>

ClassifyNext ==
  \/ \E f \in Frames : ReadFrame(f)
  \/ StripVlan \/ EtherType \/ IgnoreIp \/ IpHeader
  \/ PopulateKey \/ AppendWrapped \/ Insert
  \/ ReadOutside
  \/ /\ \/ \E k \in keys : Erase(k)
        \/ \E n \in Buckets : Rehash(n)
     /\ UNCHANGED framevars

ClassifySpec == ClassifyInit /\ [][ClassifyNext]_allvars

--------------------------------------------------------------------------------
(* Properties. *)

\* Where the headers say they end, and where the datagram does.
IpStart == 14 + 4 * frame.tags
HeadersEnd == IpStart + 4 * frame.ihl +
  (CASE frame.key.ipproto = TCP -> 4 * frame.doff [] frame.key.ipproto = UDP -> 8 [] OTHER -> 0)
DatagramEnd == IpStart + frame.tot_len

\* What goes to the flow table is the datagram's payload: it starts behind the
\* headers and ends with the datagram, inside the frame and without its padding.
\* The length wraps exactly when the headers do not fit into the datagram.
PayloadMatches ==
  pc = "insert" =>
    /\ ptr = HeadersEnd
    /\ DatagramEnd <= frame.size
    /\ IF HeadersEnd <= DatagramEnd THEN ptr + len = DatagramEnd
                                    ELSE len = Word - (HeadersEnd - DatagramEnd)

\* The smallest transport header of the frame's protocol.
MinTransport == CASE frame.key.ipproto = TCP -> 20 [] frame.key.ipproto = UDP -> 8 [] OTHER -> 0

\* A frame with room for its headers is never read behind its end, and a frame
\* whose datagram has room for them never raises an exception, although only the
\* first length of the IP header is tested.
ReadsInside ==
  /\ pc = "undefined" => \/ frame.size < IpStart + 20
                         \/ frame.size < IpStart + 4 * frame.ihl + MinTransport
                         \/ DatagramEnd < HeadersEnd
  /\ pc = "throw" => DatagramEnd < HeadersEnd
================================================================================
