---------------------------------- MODULE Navl ----------------------------------
(***************************************************************************)
(* The part of the navl library (include/navl.h, external) that distdpi    *)
(* uses: connection state created per flow, classified packet by packet    *)
(* and destroyed.  A connection belongs to the navl instance (handle) that *)
(* created it; a handle is one DPI worker's navl_open().                   *)
(***************************************************************************)
EXTENDS Naturals, Sequences

CONSTANTS
  NULL,         \* no connection, no entry
  NavlStates    \* the states a classification can report

VARIABLE conns  \* connections in the order of creation: [handle, destroys]

INSPECTING == "INSPECTING"
MONITORING == "MONITORING"
CLASSIFIED == "CLASSIFIED"
TERMINATED == "TERMINATED"

\* navl reports no other state than the four of navl_state_t; no connection is
\* not a connection.
ASSUME NavlAssumption ==
  /\ NavlStates \subseteq {INSPECTING, MONITORING, CLASSIFIED, TERMINATED}
  /\ NULL \notin Nat

\* Destroying twice is undefined; a third time adds nothing to the second.
MaxDestroys == 2

NavlInit == conns = <<>>

\* The connection the next navl_conn_create() returns.
NewConn == Len(conns) + 1

\* navl_conn_create() succeeding on handle h.
navl_conn_create(h) == conns' = Append(conns, [handle |-> h, destroys |-> 0])

\* navl_conn_destroy(): without a connection there is nothing to release.
navl_conn_destroy(c) ==
  conns' = [x \in DOMAIN conns |->
              IF x = c /\ conns[x].destroys < MaxDestroys
                THEN [conns[x] EXCEPT !.destroys = @ + 1] ELSE conns[x]]
================================================================================
