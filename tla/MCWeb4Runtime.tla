--------------------------- MODULE MCWeb4Runtime ---------------------------
(* Instances of Web4Runtime for TLC: all processes have the same path. *)
EXTENDS Web4Runtime, TLC

CONSTANT shared

NoFlag == [d \in Daemons |-> NoPath]
SamePath == [d \in Daemons |-> shared]

Symmetry == Permutations(Daemons)

=============================================================================
