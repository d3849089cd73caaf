--------------------------- MODULE MCKeyRegistry ---------------------------
(* Small instance of the key registry for TLC. *)
EXTENDS KeyRegistry, TLC

\* A window that opens when the key is created and closes one tick later.
MCWindows == {[delay |-> 0, length |-> 1]}

RegistrySymmetry == Permutations(Agents) \cup Permutations(KeyIds) \cup Permutations(Admins)

=============================================================================
