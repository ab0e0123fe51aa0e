--------------------------- MODULE MCLktkHarness ---------------------------
(* Small instances of LktkHarness for TLC. *)
EXTENDS LktkHarnessTasks, TLC

CONSTANTS p1, p2, p3, p4, p5

Kit(par, strict, scripts, luainit, library, interactive) ==
  [parallel |-> par, strict |-> strict, scripts |-> scripts,
   luainit |-> luainit, library |-> library, interactive |-> interactive]

\* One call that fails, one with too few arguments, one that passes.
Calls == {[fn |-> "assert_ge", args |-> <<Integer(1), Integer(2)>>],
          [fn |-> "assert_eq", args |-> <<Integer(1)>>],
          [fn |-> "assert_true", args |-> <<Opaque>>]}

\* Scripts may keep the global arg a table or overwrite it with something else.
AnyArg == BOOLEAN

\* Every kind of command line that few processes can serve.
AllKits ==
  {Kit(par, 0, n, FALSE, FALSE, FALSE) : par \in {-1, 0, 1, 2}, n \in 0..2}
  \cup
  {Kit(par, strict, 1, FALSE, FALSE, FALSE) : par \in 0..2, strict \in {-1, 1}}
  \cup
  {Kit(par, 1, 1, luainit, library, inter) :
     par \in {0, 1}, luainit \in BOOLEAN, library \in BOOLEAN, inter \in BOOLEAN}

\* For liveness and the tasks: both modes, one and two workers for a script or
\* two, and the prologue that may fork as well.
LiveKits == {Kit(2, 1, 1, FALSE, FALSE, FALSE), Kit(1, 0, 2, FALSE, FALSE, FALSE),
             Kit(2, 0, 2, FALSE, FALSE, FALSE), Kit(0, 1, 2, FALSE, FALSE, TRUE),
             Kit(1, 0, 1, TRUE, TRUE, FALSE)}

Symmetry == Permutations(Proc \ {Root})

=============================================================================
