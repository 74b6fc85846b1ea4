-------------------------- MODULE RegistryAbstract --------------------------
(***************************************************************************)
(* What the peer registry of src/homebrew/homebrew.go promises (spec §3,   *)
(* §4.3): a set of linked (address, repeater ID) pairs in which an address *)
(* and an ID each belong to at most one peer.  link(peer) replaces any     *)
(* peer with that address or that ID; unlink(id) removes the peer with     *)
(* that ID and fails if there is none.                                     *)
(***************************************************************************)
CONSTANTS Addrs, IDs

VARIABLE linked

(* The registry is a partial bijection between addresses and IDs. *)
IsBijection(S) ==
    \A p, q \in S : (p[1] = q[1] \/ p[2] = q[2]) => p = q

Init == linked = {}

Link(a, id) ==
    linked' = {p \in linked : p[1] # a /\ p[2] # id} \cup {<<a, id>>}

Unlink(id) ==
    /\ \E p \in linked : p[2] = id
    /\ linked' = {p \in linked : p[2] # id}

Next == \E a \in Addrs, id \in IDs : Link(a, id) \/ Unlink(id)

Spec == Init /\ [][Next]_linked

=============================================================================
