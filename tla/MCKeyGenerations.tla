------------------------- MODULE MCKeyGenerations --------------------------
(* KeyGenerations for TLC: the devices that join are interchangeable. *)
EXTENDS KeyGenerations, TLC

CONSTANTS a, b, c

Symmetry == Permutations(Device \ {First})

=============================================================================
