--------------------------- MODULE MCLktkSyscall ---------------------------
(* Small instances of LktkSyscall for TLC. *)
EXTENDS LktkSyscall, TLC

CONSTANTS t1, t2, b1, b2, b3

\* A block is always to be had: fewer tables than blocks.
ASSUME Cardinality(Table) < Cardinality(Blob)

Contents == {"zero", Wide, "cut", "noise"}

\* A valid number, a negative one, one that wraps to a negative int and one that
\* wraps to a valid number.
SomeNumbers == {2, -1, 5, 9}

Symmetry == Permutations(Table) \cup Permutations(Blob)

=============================================================================
