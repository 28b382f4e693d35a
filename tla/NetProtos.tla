------------------------------- MODULE NetProtos --------------------------------
(***************************************************************************)
(* net-protos.h: what kind of Ethernet header a frame has, the type of the *)
(* packet in it and where that packet starts.  16-bit fields in network    *)
(* byte order are read as little-endian words, as the code does.           *)
(*                                                                         *)
(* An Eth_Header is the function that gives the word at each offset the    *)
(* overlapping structures name: 12 dix.typeNBO and e802_3.lenNBO, 14 the   *)
(* VLAN tag, 16 the type or length behind it, 20 e802_3.llc.snapType, 24   *)
(* the same behind a tag.                                                  *)
(***************************************************************************)
EXTENDS Integers

ETH_TYPE_IPV4    == 2048      \* 0x0800
ETH_TYPE_IPV6    == 34525     \* 0x86DD
ETH_TYPE_ARP     == 2054      \* 0x0806
ETH_TYPE_802_1PQ == 33024     \* 0x8100

ETH_TYPE_IPV4_NBO == 8        \* 0x0008
ETH_TYPE_IPV6_NBO == 56710    \* 0xDD86
ETH_TYPE_ARP_NBO  == 1544     \* 0x0608

\* sizeof() of the headers.
Eth_Header_Size == 26
IPHdr_Size == 20
IPv6Hdr_Size == 40
UDPHdr_Size == 8
TCPHdr_Size == 20

IPPROTO_ICMP == 1
IPPROTO_TCP == 6
IPPROTO_UDP == 17
IPPROTO_ICMPV6 == 58

\* ntohs() and htons(): the two bytes are swapped.
ntohs(w) == (w % 256) * 256 + w \div 256

\* Mutation: the type of a tagged frame is compared as it was read.
EthHeaderType_NoSwap(eh) ==
  CASE ntohs(eh[12]) > 1500 /\ ntohs(eh[12]) # ETH_TYPE_802_1PQ -> "DIX"
    [] ntohs(eh[12]) = ETH_TYPE_802_1PQ /\ eh[16] > 1500 -> "802_1PQ"
    [] ntohs(eh[12]) = ETH_TYPE_802_1PQ /\ eh[16] <= 1500 -> "802_1PQ_802_3"
    [] ntohs(eh[12]) <= 1500 -> "802_3"

\* A type field of up to 1500 is the length of an 802.3 frame.
EthHeaderType(eh) ==
  CASE ntohs(eh[12]) > 1500 /\ ntohs(eh[12]) # ETH_TYPE_802_1PQ -> "DIX"
    [] ntohs(eh[12]) = ETH_TYPE_802_1PQ /\ ntohs(eh[16]) > 1500 -> "802_1PQ"
    [] ntohs(eh[12]) = ETH_TYPE_802_1PQ /\ ntohs(eh[16]) <= 1500 -> "802_1PQ_802_3"
    [] ntohs(eh[12]) <= 1500 -> "802_3"

\* EthEncapsulatedPktType(): the type, in network byte order, and the offset.
EthEncapsulatedPktType(eh) ==
  CASE EthHeaderType(eh) = "DIX" -> [typeNBO |-> eh[12], offset |-> 14]
    [] EthHeaderType(eh) = "802_1PQ" -> [typeNBO |-> eh[16], offset |-> 18]
    [] EthHeaderType(eh) = "802_3" -> [typeNBO |-> eh[20], offset |-> 22]
    [] EthHeaderType(eh) = "802_1PQ_802_3" -> [typeNBO |-> eh[24], offset |-> 26]

\* The bit fields of a tag: vidHi:4, canonical:1, priority:3, vidLo:8.
EthVlanTagGetVlanID(tag) == (tag % 16) * 256 + tag \div 256
EthVlanTagPriority(tag) == (tag \div 32) % 8
================================================================================
