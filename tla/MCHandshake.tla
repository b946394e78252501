---------------------------- MODULE MCHandshake ----------------------------
(* Handshake with interchangeable managers and session ids.                *)
EXTENDS Handshake, TLC

Symmetry ==
    Permutations(Controllers) \cup Permutations(Hosts) \cup Permutations(SessionIds)
=============================================================================
