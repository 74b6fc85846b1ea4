--------------------------- MODULE MCHomebrewLink ---------------------------
(* HomebrewLink for TLC: two nonces, distinct IDs, keys and timeouts scaled *)
(* from 15 s / 5 s / 15 s to 3 / 1 / 3 ticks.                             *)
EXTENDS HomebrewLink

CONSTANTS n1, n2, n3, k1, k2

MCNonces == {n1, n2}

MCNonces3 == {n1, n2, n3}

=============================================================================
