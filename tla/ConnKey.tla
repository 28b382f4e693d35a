--------------------------------- MODULE ConnKey --------------------------------
(***************************************************************************)
(* The 5-tuple key of a connection (include/ConnectionDS.h) and the hash   *)
(* and equality that the flow table's unordered_map is given               *)
(* (include/FlowTable.h).  Equality matches both directions of a           *)
(* connection, so the hash has to be the same for both, whatever the       *)
(* additions overflow.  The map itself is external: a set of keys spread   *)
(* over buckets by their hash, searched one bucket at a time.              *)
(***************************************************************************)
EXTENDS Integers

CONSTANTS
  Addresses,  \* values of srcaddr and dstaddr
  Ports,      \* values of srcport and dstport
  Protos,     \* values of ipproto
  Word,       \* 2^32: the additions of the hash wrap at this number
  Buckets     \* bucket counts the map may use

ASSUME KeyAssumption ==
  /\ Addresses \subseteq Nat /\ Ports \subseteq Nat /\ Protos \subseteq Nat
  /\ Word \in Nat \ {0}
  /\ Buckets \subseteq Nat \ {0}

VARIABLES
  keys,     \* the keys stored in conn_table
  buckets   \* the map's current number of buckets

vars == <<keys, buckets>>

ConnKeys == [srcaddr : Addresses, dstaddr : Addresses, srcport : Ports,
             dstport : Ports, ipproto : Protos]

\* Mutation: only the source side is hashed.
ConnKeyHasher_SourceOnly(k) == (k.srcaddr + k.srcport + k.ipproto) % Word

\* The five fields added up in 32 bits; std::hash of an integer is the integer.
ConnKeyHasher(k) ==
  (k.srcaddr + k.dstaddr + k.srcport + k.dstport + k.ipproto) % Word

forward_lookup(k1, k2) ==
  /\ k1.srcaddr = k2.srcaddr
  /\ k1.dstaddr = k2.dstaddr
  /\ k1.srcport = k2.srcport
  /\ k1.dstport = k2.dstport

\* Mutation: the reverse lookup compares the ports in forward order.
reverse_lookup_Ports(k1, k2) ==
  /\ k1.srcaddr = k2.dstaddr
  /\ k1.dstaddr = k2.srcaddr
  /\ k1.srcport = k2.srcport
  /\ k1.dstport = k2.dstport

\* Mutation: the reverse lookup forgets the addresses.
reverse_lookup_PortsOnly(k1, k2) ==
  /\ k1.srcport = k2.dstport
  /\ k1.dstport = k2.srcport

reverse_lookup(k1, k2) ==
  /\ k1.srcaddr = k2.dstaddr
  /\ k1.dstaddr = k2.srcaddr
  /\ k1.srcport = k2.dstport
  /\ k1.dstport = k2.srcport

ConnKeyEqual(k1, k2) ==
  /\ k1.ipproto = k2.ipproto
  /\ forward_lookup(k1, k2) \/ reverse_lookup(k1, k2)

\* The direction InsertOrUpdateFlows() gives a packet with key k of the flow
\* stored under key e.
Direction(k, e) == IF k.srcaddr = e.srcaddr THEN 0 ELSE 1

\* find(): the stored keys equal to k in the bucket that k hashes to.
Find(k) ==
  {e \in keys : /\ ConnKeyHasher(e) % buckets = ConnKeyHasher(k) % buckets
                /\ ConnKeyEqual(e, k)}

Init ==
  /\ keys = {}
  /\ buckets \in Buckets

\* A packet with key k: its key is stored if find() does not find it.
Packet(k) ==
  /\ Find(k) = {}
  /\ keys' = keys \cup {k}
  /\ UNCHANGED buckets

\* cleanupFlows() erases an entry.
Erase(k) ==
  /\ k \in keys
  /\ keys' = keys \ {k}
  /\ UNCHANGED buckets

\* The map grows and spreads its keys over more buckets.
Rehash(n) ==
  /\ n > buckets
  /\ buckets' = n
  /\ UNCHANGED keys

Next ==
  \/ \E k \in ConnKeys : Packet(k) \/ Erase(k)
  \/ \E n \in Buckets : Rehash(n)

Spec == Init /\ [][Next]_vars

--------------------------------------------------------------------------------
(* Properties. *)

TypeOK ==
  /\ keys \subseteq ConnKeys
  /\ buckets \in Buckets

\* Both directions of a connection share one entry: no two stored keys match.
OneEntryPerFlow ==
  \A e1, e2 \in keys : ConnKeyEqual(e1, e2) => e1 = e2

\* A packet of a stored flow finds exactly that flow, from either direction and
\* after any rehash.
FindsItsFlow ==
  \A e \in keys, k \in ConnKeys : ConnKeyEqual(e, k) => Find(k) = {e}

\* A packet that matches no stored flow in either direction finds none.
FindsNoOther ==
  \A k \in ConnKeys : \A e \in Find(k) :
    /\ e.ipproto = k.ipproto
    /\ {<<e.srcaddr, e.srcport>>, <<e.dstaddr, e.dstport>>}
         = {<<k.srcaddr, k.srcport>>, <<k.dstaddr, k.dstport>>}

\* The direction passed to navl_classify() is 0 for packets that go the way of
\* the first one and 1 for answers, between two different addresses.
DirectionMatches ==
  \A e \in keys, k \in ConnKeys :
    ConnKeyEqual(k, e) /\ e.srcaddr # e.dstaddr =>
      (Direction(k, e) = 0 <=> forward_lookup(k, e))
================================================================================
