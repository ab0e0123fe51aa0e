----------------------------- MODULE LktkTasks -----------------------------
(***************************************************************************)
(* What --process n promises of a command line of scripts, with no process *)
(* in sight: a pool of tasks, one per script and worker number.  Tasks run *)
(* in any order and all at once.  The main program is finished only when   *)
(* there is neither a task to start nor one running; it may give up at any *)
(* time, and then starts no more, but those that run still come to an end. *)
(***************************************************************************)
CONSTANT Task

VARIABLES
  todo,     \* tasks not yet started
  running,  \* tasks started and not ended
  done,     \* tasks ended
  main      \* the main program

vars == <<todo, running, done, main>>

Init ==
  /\ todo \in SUBSET Task
  /\ running = {}
  /\ done = {}
  /\ main = "working"

Start(t) ==
  /\ main = "working" /\ t \in todo
  /\ todo' = todo \ {t}
  /\ running' = running \cup {t}
  /\ UNCHANGED <<done, main>>

End(t) ==
  /\ t \in running
  /\ running' = running \ {t}
  /\ done' = done \cup {t}
  /\ UNCHANGED <<todo, main>>

Finish ==
  /\ main = "working" /\ todo = {} /\ running = {}
  /\ main' = "finished"
  /\ UNCHANGED <<todo, running, done>>

Abandon ==
  /\ main' = "abandoned"
  /\ UNCHANGED <<todo, running, done>>

Next == (\E t \in Task : Start(t) \/ End(t)) \/ Finish \/ Abandon

Spec == Init /\ [][Next]_vars

=============================================================================
