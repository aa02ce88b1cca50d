----------------------------- MODULE MCPresence -----------------------------
(* Presence for TLC: two viewers of one room. *)
EXTENDS Presence, TLC

CONSTANTS a, b

Symmetry == Permutations(Users)
=============================================================================
