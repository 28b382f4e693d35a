---------------------------- MODULE MCFilterCallbacks ---------------------------
(***************************************************************************)
(* Frames and filter states for TLC.                                       *)
(***************************************************************************)
EXTENDS FilterCallbacks, SequencesExt

\* The packet whose fragments end at the given offsets.
PktOf(ends) ==
  [n |-> Len(ends), at |-> [k \in 0 .. Len(ends) |-> IF k = 0 THEN 0 ELSE ends[k]]]

\* One fragment with or without room to spare, and fragments that end behind the
\* Ethernet header, behind the IP header or in the middle of the TCP header.  Of those
\* with a short first fragment one has a length that is zero in a word.
Layouts == {PktOf(e) : e \in {<<20>>, <<20, 128>>, <<54>>, <<66>>, <<90>>, <<140>>,
                              <<26, 90>>, <<34, 54>>, <<40, 66>>, <<46, 90>>, <<26, 66, 90>>}}

Lengths == {DVFilter_GetPktLen(p) : p \in Packets}

\* rest makes the checksum right for the values below.
MCFrame(p, framing, etherType, ihl, protocol, ports, check, mustCsum) ==
  [pkt |-> p, framing |-> framing, etherType |-> etherType, tci |-> 40965,
   ihl |-> ihl, protocol |-> protocol, source |-> ports[1], dest |-> ports[2],
   check |-> check, rest |-> 3 * (Word16 - 1) - ports[1] - ports[2] - check,
   mustCsum |-> mustCsum]

\* Every framing and fragmentation with one pair of ports, every protocol in one.
ShapeFrames ==
  {MCFrame(p, fr, ETH_TYPE_IPV4, ihl, proto, <<9, 5>>, 3, FALSE) :
     p \in Layouts, fr \in Framings, ihl \in {1, 5, 6}, proto \in {IPPROTO_TCP, IPPROTO_UDP}}
  \cup {MCFrame(p, fr, ETH_TYPE_IPV6, 5, IPPROTO_TCP, <<9, 5>>, 3, FALSE) :
     p \in Layouts, fr \in Framings}
  \cup {MCFrame(PktOf(<<90>>), fr, t, 5, proto, <<9, 5>>, 3, FALSE) :
     fr \in Framings, t \in {ETH_TYPE_IPV4, ETH_TYPE_IPV6, ETH_TYPE_ARP},
     proto \in {IPPROTO_ICMP, IPPROTO_ICMPV6}}

\* Ports and checksums around the carries, in one frame.
SumFrames ==
  {MCFrame(PktOf(<<90>>), "802_1PQ", ETH_TYPE_IPV4, 5, IPPROTO_TCP, <<a, b>>, c, m) :
     a \in {0, 9}, b \in {9, Word16 - 1}, c \in {0, 1, Word16 - 1}, m \in BOOLEAN}

MCFrames == ShapeFrames \cup SumFrames

Filter(tcp, udp, icmp, dnapt) ==
  [ZeroState EXCEPT !.filterFromSwitch = TRUE, !.filterTCPPortNBO = tcp, !.filterUDPPortNBO = udp,
                    !.filterICMP = icmp, !.dnaptPortNBO = dnapt]

MCStates ==
  {Filter(9, 5, TRUE, 0), Filter(0, 9, FALSE, 1), Filter(9, 9, FALSE, 1), Filter(9, 0, TRUE, Word16 - 1),
   [Filter(9, 9, TRUE, 1) EXCEPT !.filterToSwitch = TRUE, !.filterFromSwitch = FALSE],
   [Filter(9, 9, FALSE, 1) EXCEPT !.copyPackets = TRUE],
   [Filter(5, 5, FALSE, 1) EXCEPT !.reorderPackets = TRUE],
   [Filter(5, 5, FALSE, 0) EXCEPT !.delayPacketsMs = 1]}
================================================================================
