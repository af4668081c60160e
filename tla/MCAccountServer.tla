-------------------------- MODULE MCAccountServer --------------------------
(* AccountServer for TLC: devices, slots and requests are interchangeable. *)
EXTENDS AccountServer, TLC

Symmetry == Permutations(Device) \cup Permutations(Slot) \cup Permutations(Request)

=============================================================================
