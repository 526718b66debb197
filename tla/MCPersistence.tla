--------------------------- MODULE MCPersistence ---------------------------
(* Small instances of Persistence for TLC. *)
EXTENDS Persistence, TLC

CONSTANTS k1, k2, v1, none, garbled

KeySymmetry == Permutations({k1, k2})

=============================================================================
