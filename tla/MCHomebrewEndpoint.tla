------------------------- MODULE MCHomebrewEndpoint -------------------------
(* Instances of HomebrewEndpoint: three addresses, and the ID each claims. *)
EXTENDS HomebrewEndpoint

CONSTANTS a1, a2, a3

MCAddrs == {a1, a2, a3}

(* Each repeater keeps its own ID: a1 is 1, a2 is 2, a3 is 3. *)
MCOwnIDs == {<<a1, 1>>, <<a2, 2>>, <<a3, 3>>}
(* The repeater at a1 reappears at a2 (a NAT rebinding) with its ID 1. *)
MCRebound == {<<a1, 1>>, <<a2, 1>>, <<a3, 3>>}
=============================================================================
