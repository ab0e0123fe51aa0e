-------------------------- MODULE LktkHarnessTasks --------------------------
(***************************************************************************)
(* LktkHarness implements LktkTasks: the fork loop starts a task for every *)
(* script and every value of i, once, and the reap loop ends after the     *)
(* last of them.  A main program whose LUA_INIT or library fails abandons  *)
(* its tasks before it has started one.                                    *)
(***************************************************************************)
EXTENDS LktkHarness

CONSTANT MaxWorkers    \* bound on --process

ASSUME WorkersAssumption == MaxWorkers \in Nat /\ \A k \in Kits : k.parallel <= MaxWorkers

WorkersOf(p) == {q \in Proc : maker[q] = p}

\* A worker keeps the loop variables it was forked with: they name its task.
TaskOf(q) == <<script[q], idx[q]>>

AllTasks == (0..kit.scripts - 1) \X (0..Workers - 1)

PrologueFailed ==
  (kit.luainit \/ kit.library) /\ script[Root] = 0 /\ stage[Root] \in {"stop", "gone"}

TaskMain ==
  IF Root \in abandoned \/ PrologueFailed THEN "abandoned"
  ELSE IF stage[Root] \in {"repl", "stop", "gone"} THEN "finished" ELSE "working"

Tasks == INSTANCE LktkTasks WITH
  Task    <- (0..MaxScripts - 1) \X (0..MaxWorkers - 1),
  todo    <- AllTasks \ {TaskOf(q) : q \in WorkersOf(Root)},
  running <- {TaskOf(q) : q \in {w \in WorkersOf(Root) : Alive(w)}},
  done    <- {TaskOf(q) : q \in {w \in WorkersOf(Root) : ~Alive(w)}},
  main    <- TaskMain

\* The harness with workers behaves as the task pool of LktkTasks.
ImplementsTasks == Tasks!Spec

=============================================================================
