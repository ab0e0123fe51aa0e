------------------------- MODULE LktkHarnessProofs -------------------------
(***************************************************************************)
(* Theorems about LktkHarness, for any set of processes, any command line  *)
(* and any bounds.  The inductive invariant is IInv: the types, where the  *)
(* cursor of a process may stand (CursorInv), which stages a command line  *)
(* has at all (ModeInv), and who belongs to whom (FamilyInv).              *)
(***************************************************************************)
EXTENDS LktkHarnessTasks, FiniteSetTheorems, TLAPS

\* cur_script never runs past the scripts, and a process at work on a script has
\* one to work on.
CursorInv ==
  \A p \in Proc :
    /\ script[p] <= kit.scripts
    /\ stage[p] \in {"script", "fork", "worker"} => script[p] < kit.scripts
    /\ stage[p] \in {"luainit", "library"} => script[p] = 0
    /\ stage[p] = "reap" => script[p] = kit.scripts

\* Scripts run in the process or in workers, never both; the prompt comes only
\* without scripts or with -i.
ModeInv ==
  \A p \in Proc :
    /\ stage[p] = "script" => kit.parallel = 0
    /\ stage[p] \in {"fork", "reap", "worker"} => kit.parallel # 0 /\ kit.scripts > 0
    /\ stage[p] = "repl" => kit.interactive \/ kit.scripts = 0

\* Failures of the current script are among the failures of the process.
OwnInv == \A p \in Proc : own[p] <= failures[p]

\* A worker that still runs has its maker for a parent, and that maker is short of
\* the end of its reap loop, unless the maker was killed or gave up forking.
FamilyInv ==
  /\ \A p \in Proc : stage[p] = "unborn" => maker[p] = NoProc
  /\ \A q \in Proc :
       maker[q] # NoProc =>
         /\ kit.parallel # 0 /\ kit.scripts > 0
         /\ Alive(q) =>
              \/ maker[q] \in abandoned
              \/ parent[q] = maker[q] /\ stage[maker[q]] \in {"loop", "fork", "reap"}

IInv == TypeOK /\ CursorInv /\ ModeInv /\ OwnInv /\ FamilyInv

USE DEF Stage, ChunkStage, DriverStage, DeadStage

LEMMA KitFields ==
  ASSUME kit \in Kits
  PROVE  /\ kit.parallel \in Int /\ kit.strict \in {-1, 0, 1} /\ kit.scripts \in 0..MaxScripts
         /\ kit.luainit \in BOOLEAN /\ kit.library \in BOOLEAN /\ kit.interactive \in BOOLEAN
  BY KitsAssumption DEF KitType

LEMMA InitIInv == Init => IInv
<1> SUFFICES ASSUME Init PROVE IInv
  OBVIOUS
<1> USE ProcAssumption, BoundAssumption
<1>1. kit \in Kits
  BY DEF Init
<1>2. TypeOK
  BY <1>1, KitFields DEF Init, TypeOK, FirstStage
<1>3. CursorInv
  BY <1>1, KitFields DEF Init, CursorInv, FirstStage
<1>4. ModeInv /\ OwnInv
  BY <1>1 DEF Init, ModeInv, OwnInv, FirstStage
<1>5. FamilyInv
  BY DEF Init, FamilyInv
<1> QED
  BY <1>2, <1>3, <1>4, <1>5 DEF IInv

-----------------------------------------------------------------------------
(* What the operators shared by several actions do to the invariant.  Shape *)
(* is what they can disturb: neither failures nor the histories.            *)

Shape ==
  /\ stage \in [Proc -> Stage]
  /\ script \in [Proc -> 0..MaxScripts]
  /\ parent \in [Proc -> Proc \cup {NoProc}]
  /\ CursorInv /\ ModeInv /\ FamilyInv

\* Leaving main keeps it: the leaver is dead, and its children that still run are
\* no workers of its own unless it was in the driver's loops.
LEMMA ExitShape ==
  ASSUME IInv, NEW p \in Proc, Exit(p), UNCHANGED <<kit, script, maker>>,
         \/ abandoned' = abandoned \cup {p}
         \/ abandoned' = abandoned /\ stage[p] \notin {"loop", "fork", "reap"}
  PROVE  Shape'
<1> USE DEF IInv, TypeOK
<1>1. /\ stage' \in [Proc -> Stage]
      /\ script' \in [Proc -> 0..MaxScripts]
      /\ parent' \in [Proc -> Proc \cup {NoProc}]
  BY DEF Exit
<1>2. \A q \in Proc : stage'[q] = stage[q] \/ stage'[q] \in {"zombie", "gone"}
  BY DEF Exit
<1>3. CursorInv'
  BY <1>2 DEF CursorInv
<1>4. ModeInv'
  BY <1>2 DEF ModeInv
<1>5. FamilyInv'
  BY ProcAssumption DEF FamilyInv, Exit, Alive
<1> QED
  BY <1>1, <1>3, <1>4, <1>5 DEF Shape

\* Reaping an ended child keeps it.
LEMMA ReapedShape ==
  ASSUME IInv, NEW p \in Proc, NEW q \in Proc, Reaped(p, q),
         UNCHANGED <<kit, script, maker, abandoned>>
  PROVE  Shape'
<1> USE DEF IInv, TypeOK
<1>1. /\ stage' \in [Proc -> Stage]
      /\ script' \in [Proc -> 0..MaxScripts]
      /\ parent' \in [Proc -> Proc \cup {NoProc}]
  BY DEF Reaped
<1>2. CursorInv' /\ ModeInv'
  BY DEF CursorInv, ModeInv, Reaped
<1>3. FamilyInv'
  BY SMTT(30) DEF FamilyInv, Reaped, Alive
<1> QED
  BY <1>1, <1>2, <1>3 DEF Shape

\* So does the return of any chunk, whatever its status.
LEMMA ChunkReturnsShape ==
  ASSUME IInv, NEW p \in Proc, NEW ok \in BOOLEAN, ChunkReturns(p, ok)
  PROVE  Shape'
<1> USE DEF IInv, TypeOK, Go
<1>0. UNCHANGED <<kit, idx, arg, maker, abandoned>>
  BY DEF ChunkReturns
<1>1. CASE InitReturns(p, ok)
  BY SMTT(30), <1>0, <1>1, KitFields DEF InitReturns, Shape, CursorInv, ModeInv, FamilyInv, Alive
<1>2. CASE LibraryReturns(p, ok)
  BY SMTT(30), <1>0, <1>2, KitFields DEF LibraryReturns, Shape, CursorInv, ModeInv, FamilyInv, Alive
<1>3. CASE ScriptReturns(p, ok)
  <2> USE <1>0, <1>3 DEF ScriptReturns
  <2>1. script[p] < kit.scripts /\ kit.scripts \in 0..MaxScripts
    BY KitFields DEF CursorInv
  <2>2. /\ stage' \in [Proc -> Stage]
        /\ script' \in [Proc -> 0..MaxScripts]
        /\ parent' \in [Proc -> Proc \cup {NoProc}]
    <3>1. script[p] + 1 \in 0..MaxScripts
      BY SMTT(30), <2>1, BoundAssumption
    <3> QED
      BY <3>1
  <2>3. CursorInv'
    <3>1. script[p] + 1 <= kit.scripts
      BY <2>1, BoundAssumption
    <3>2. /\ kit' = kit /\ script'[p] = script[p] + 1 /\ stage'[p] = "loop"
          /\ \A q \in Proc : q # p => script'[q] = script[q] /\ stage'[q] = stage[q]
      OBVIOUS
    <3> QED
      BY <3>1, <3>2 DEF CursorInv
  <2>4. ModeInv' /\ FamilyInv'
    BY DEF ModeInv, FamilyInv, Alive
  <2> QED
    BY <2>2, <2>3, <2>4 DEF Shape
<1>4. CASE WorkerReturns(p, ok)
  BY <1>0, <1>4, ExitShape DEF WorkerReturns
<1>5. CASE ReplReturns(p, ok)
  <2> USE <1>0, <1>5 DEF ReplReturns
  <2>1. stage' = stage \/ stage' = [stage EXCEPT ![p] = "stop"]
    OBVIOUS
  <2>2. CursorInv' /\ ModeInv'
    BY <2>1 DEF CursorInv, ModeInv
  <2>3. FamilyInv'
    <3>1. CASE stage' = stage
      BY <3>1 DEF FamilyInv, Alive
    <3>2. CASE stage' = [stage EXCEPT ![p] = "stop"]
      BY SMTT(30), <3>2 DEF FamilyInv, Alive
    <3> QED
      BY <2>1, <3>1, <3>2
  <2> QED
    BY <2>1, <2>2, <2>3 DEF Shape
<1> QED
  BY <1>1, <1>2, <1>3, <1>4, <1>5 DEF ChunkReturns

-----------------------------------------------------------------------------
(* The invariant is inductive.                                             *)

\* What Shape leaves to say, when an action counts no failure.
LEMMA QuietStep ==
  ASSUME IInv, Shape', UNCHANGED <<kit, failures, own, maker>>,
         idx' \in [Proc -> Nat], arg' \in [Proc -> BOOLEAN], abandoned' \subseteq Proc,
         started' \in [1..MaxScripts -> Nat], forks' \in 0..MaxForks
  PROVE  IInv'
  BY DEF IInv, TypeOK, Shape, OwnInv

LEMMA ChunkStep ==
  ASSUME IInv, NEW p \in Proc, ChunkEnds(p) \/ AssertFails(p) \/ AssertAborts(p)
  PROVE  IInv'
<1> USE DEF IInv, TypeOK
<1>1. CASE ChunkEnds(p)
  <2>1. PICK ok \in BOOLEAN : ChunkReturns(p, ok)
    BY <1>1 DEF ChunkEnds
  <2>2. UNCHANGED <<kit, idx, failures, own, arg, maker, abandoned, started, forks>>
    BY <1>1, <2>1 DEF ChunkEnds, ChunkReturns
  <2> QED
    BY <2>1, <2>2, ChunkReturnsShape, QuietStep
<1>2. ASSUME CountFailure(p)
      PROVE  failures' \in [Proc -> 0..MaxFailures] /\ own' \in [Proc -> 0..MaxFailures] /\ OwnInv'
  BY <1>2, BoundAssumption DEF CountFailure, OwnInv
<1>3. CASE AssertFails(p)
  <2>1. UNCHANGED <<kit, stage, script, idx, arg, parent, maker, abandoned, started, forks>>
    BY <1>3 DEF AssertFails, family
  <2> QED
    BY <1>2, <1>3, <2>1 DEF AssertFails, CursorInv, ModeInv, FamilyInv, Alive
<1>4. CASE AssertAborts(p)
  <2>1. UNCHANGED <<kit, idx, arg, maker, abandoned, started, forks>>
    BY <1>4 DEF AssertAborts, ChunkReturns
  <2>2. Shape'
    BY <1>4, ChunkReturnsShape DEF AssertAborts
  <2> QED
    BY <1>2, <1>4, <2>1, <2>2 DEF AssertAborts, Shape
<1> QED
  BY <1>1, <1>3, <1>4

\* The other things a script may do: fork, wait and exit.
LEMMA ScriptCallStep ==
  ASSUME IInv, NEW p \in Proc, NEW q \in Proc,
         ScriptForks(p, q) \/ ScriptWaits(p, q) \/ ScriptExits(p) \/ ScriptSetsArg(p)
  PROVE  IInv'
<1> USE DEF IInv, TypeOK
<1>1. CASE ScriptForks(p, q)
  <2> USE <1>1 DEF ScriptForks
  <2>1. TypeOK'
    <3>1. forks' \in 0..MaxForks
      BY BoundAssumption
    <3>2. idx' \in [Proc -> Nat] /\ script' \in [Proc -> 0..MaxScripts]
      OBVIOUS
    <3>3. failures' \in [Proc -> 0..MaxFailures] /\ own' \in [Proc -> 0..MaxFailures]
      OBVIOUS
    <3> QED
      BY <3>1, <3>2, <3>3
  <2>2. CursorInv' /\ ModeInv' /\ OwnInv'
    BY DEF CursorInv, ModeInv, OwnInv
  <2>3. FamilyInv'
    BY DEF FamilyInv, Alive, Running
  <2> QED
    BY <2>1, <2>2, <2>3
<1>2. CASE ScriptWaits(p, q)
  BY <1>2, ReapedShape, QuietStep DEF ScriptWaits
<1>3. CASE ScriptExits(p)
  <2>1. UNCHANGED <<kit, script, idx, failures, own, arg, maker, abandoned, started, forks>>
        /\ Exit(p) /\ stage[p] \notin {"loop", "fork", "reap"}
    BY <1>3 DEF ScriptExits, Running
  <2> QED
    BY <2>1, ExitShape, QuietStep
<1>4. CASE ScriptSetsArg(p)
  <2>1. UNCHANGED <<kit, stage, script, idx, failures, own, parent, maker, abandoned, started, forks>>
    BY <1>4 DEF ScriptSetsArg, family
  <2>2. arg' \in [Proc -> BOOLEAN]
    BY <1>4, ArgAssumption DEF ScriptSetsArg
  <2> QED
    BY <2>1, <2>2 DEF CursorInv, ModeInv, OwnInv, FamilyInv, Alive
<1> QED
  BY <1>1, <1>2, <1>3, <1>4

LEMMA LoopStep ==
  ASSUME IInv, NEW p \in Proc,
         \/ StartScript(p) \/ LoadFails(p) \/ StartForking(p)
         \/ ForkFails(p) \/ ForksDone(p) \/ ScriptsDone(p)
  PROVE  IInv'
<1> USE DEF IInv, TypeOK, Go, family
<1>1. kit.scripts \in 0..MaxScripts /\ script[p] \in 0..MaxScripts /\ script[p] <= kit.scripts
  BY KitFields DEF CursorInv
<1>2. CASE StartScript(p)
  <2> USE <1>2 DEF StartScript, Entered
  <2>1. script[p] + 1 \in 1..MaxScripts
    BY <1>1, BoundAssumption
  <2>2. started' \in [1..MaxScripts -> Nat]
    BY <2>1
  <2>3. own' \in [Proc -> 0..MaxFailures]
    BY BoundAssumption
  <2>4. TypeOK'
    BY <2>2, <2>3
  <2>5. CursorInv' /\ ModeInv' /\ OwnInv'
    BY BoundAssumption DEF CursorInv, ModeInv, OwnInv
  <2>6. FamilyInv'
    BY DEF FamilyInv, Alive
  <2> QED
    BY <2>4, <2>5, <2>6
<1>7. CASE LoadFails(p)
  <2> USE <1>7 DEF LoadFails
  <2>1. script[p] + 1 \in 1..MaxScripts /\ script[p] + 1 <= kit.scripts
    BY <1>1, BoundAssumption
  <2>2. started' \in [1..MaxScripts -> Nat]
    BY <2>1
  <2>3. script' \in [Proc -> 0..MaxScripts] /\ own' \in [Proc -> 0..MaxFailures]
    BY <2>1, BoundAssumption
  <2>4. TypeOK'
    BY <2>2, <2>3
  <2>5. CursorInv' /\ ModeInv' /\ OwnInv'
    BY <2>1, BoundAssumption, SMTT(30) DEF CursorInv, ModeInv, OwnInv
  <2>6. FamilyInv'
    BY DEF FamilyInv, Alive
  <2> QED
    BY <2>4, <2>5, <2>6
<1>3. CASE StartForking(p)
  <2> USE <1>3 DEF StartForking
  <2>1. TypeOK'
    OBVIOUS
  <2>2. CursorInv' /\ ModeInv' /\ OwnInv'
    BY <1>1 DEF CursorInv, ModeInv, OwnInv
  <2>3. FamilyInv'
    BY DEF FamilyInv, Alive
  <2> QED
    BY <2>1, <2>2, <2>3
<1>4. CASE ForkFails(p)
  <2> USE <1>4 DEF ForkFails
  <2>1. TypeOK'
    OBVIOUS
  <2>2. CursorInv' /\ ModeInv' /\ OwnInv'
    BY DEF CursorInv, ModeInv, OwnInv
  <2>3. FamilyInv'
    BY DEF FamilyInv, Alive
  <2> QED
    BY <2>1, <2>2, <2>3
<1>5. CASE ForksDone(p)
  <2> USE <1>5 DEF ForksDone
  <2>1. script[p] < kit.scripts
    BY DEF CursorInv
  <2>2. TypeOK'
    <3>1. script[p] + 1 \in 0..MaxScripts
      BY <1>1, <2>1, BoundAssumption
    <3> QED
      BY <3>1
  <2>3. CursorInv'
    <3>1. script[p] + 1 <= kit.scripts
      BY <1>1, <2>1, BoundAssumption
    <3>2. /\ kit' = kit /\ script'[p] = script[p] + 1 /\ stage'[p] = "loop"
          /\ \A q \in Proc : q # p => script'[q] = script[q] /\ stage'[q] = stage[q]
      OBVIOUS
    <3> QED
      BY <3>1, <3>2 DEF CursorInv
  <2>4. ModeInv' /\ OwnInv'
    BY DEF ModeInv, OwnInv
  <2>5. FamilyInv'
    BY DEF FamilyInv, Alive
  <2> QED
    BY <2>2, <2>3, <2>4, <2>5
<1>6. CASE ScriptsDone(p)
  <2> USE <1>6 DEF ScriptsDone, AfterScripts
  <2>1. TypeOK'
    OBVIOUS
  <2>2. CursorInv' /\ ModeInv' /\ OwnInv'
    BY <1>1, BoundAssumption DEF CursorInv, ModeInv, OwnInv
  <2>3. FamilyInv'
    BY DEF FamilyInv, Alive
  <2> QED
    BY <2>1, <2>2, <2>3
<1> QED
  BY <1>2, <1>3, <1>4, <1>5, <1>6, <1>7

LEMMA WorkerStep ==
  ASSUME IInv, NEW p \in Proc, NEW q \in Proc,
         ForkWorker(p, q) \/ ReapChild(p, q) \/ ReapDone(p) \/ Stop(p) \/ Killed(p)
  PROVE  IInv'
<1> USE DEF IInv, TypeOK
<1>1. CASE ForkWorker(p, q)
  <2> USE <1>1 DEF ForkWorker, Entered
  <2>1. kit.scripts \in 0..MaxScripts /\ script[p] < kit.scripts
        /\ kit.parallel # 0 /\ kit.scripts > 0
    BY KitFields DEF CursorInv, ModeInv
  <2>2. TypeOK'
    <3>1. script[p] + 1 \in 1..MaxScripts
      BY SMTT(30), <2>1, BoundAssumption
    <3>2. started' \in [1..MaxScripts -> Nat]
      BY <3>1
    <3>3. idx' \in [Proc -> Nat]
      <4>1. idx[p] + 1 \in Nat /\ idx[q] \in Nat
        OBVIOUS
      <4> QED
        BY <4>1
    <3>4. script' \in [Proc -> 0..MaxScripts]
      OBVIOUS
    <3>5. failures' \in [Proc -> 0..MaxFailures] /\ own' \in [Proc -> 0..MaxFailures]
      BY BoundAssumption
    <3> QED
      BY <3>2, <3>3, <3>4, <3>5
  <2>3. CursorInv' /\ ModeInv'
    BY <2>1 DEF CursorInv, ModeInv
  <2>4. OwnInv'
    BY DEF OwnInv
  <2>5. FamilyInv'
    BY <2>1 DEF FamilyInv, Alive
  <2> QED
    BY <2>2, <2>3, <2>4, <2>5
<1>2. CASE ReapChild(p, q)
  BY <1>2, ReapedShape, QuietStep DEF ReapChild
<1>3. CASE ReapDone(p)
  <2> USE <1>3 DEF ReapDone, Go, family, AfterScripts
  <2>1. TypeOK'
    OBVIOUS
  <2>2. CursorInv' /\ ModeInv' /\ OwnInv'
    BY DEF CursorInv, ModeInv, OwnInv
  <2>3. \A q1 \in Proc : ~(parent[q1] = p /\ Alive(q1))
    BY DEF Children, Alive
  <2>4. UNCHANGED <<kit, parent, maker, abandoned>>
        /\ \A q1 \in Proc : q1 # p => stage'[q1] = stage[q1]
        /\ stage'[p] # "unborn" /\ Alive(p)
    BY DEF Alive
  <2>5. FamilyInv'
    <3>a. ASSUME NEW q1 \in Proc, stage'[q1] = "unborn" PROVE maker'[q1] = NoProc
      BY <2>4, <3>a DEF FamilyInv
    <3>b. ASSUME NEW q1 \in Proc, maker'[q1] # NoProc
          PROVE  kit.parallel' # 0 /\ kit.scripts' > 0
      BY <2>4, <3>b DEF FamilyInv
    <3> SUFFICES ASSUME NEW q1 \in Proc, maker'[q1] # NoProc, Alive(q1)',
                        maker'[q1] \notin abandoned'
                 PROVE  parent'[q1] = maker'[q1] /\ stage'[maker'[q1]] \in {"loop", "fork", "reap"}
      BY <3>a, <3>b DEF FamilyInv
    <3>1. Alive(q1)
      BY <2>4 DEF Alive
    <3>2. parent[q1] = maker[q1] /\ stage[maker[q1]] \in {"loop", "fork", "reap"}
      BY <2>4, <3>1 DEF FamilyInv
    <3>3. maker[q1] # p /\ maker[q1] \in Proc
      BY <2>3, <2>4, <3>1, <3>2
    <3> QED
      BY <2>4, <3>2, <3>3
  <2> QED
    BY <2>1, <2>2, <2>5
<1>4. CASE Stop(p)
  <2>1. UNCHANGED <<kit, script, idx, failures, own, arg, maker, abandoned, started, forks>>
        /\ Exit(p) /\ stage[p] \notin {"loop", "fork", "reap"}
    BY <1>4 DEF Stop
  <2> QED
    BY <2>1, ExitShape, QuietStep
<1>5. CASE Killed(p)
  <2>1. UNCHANGED <<kit, script, idx, failures, own, arg, maker, started, forks>>
        /\ Exit(p) /\ abandoned' = abandoned \cup {p}
    BY <1>5 DEF Killed
  <2> QED
    BY <2>1, ExitShape, QuietStep
<1> QED
  BY <1>1, <1>2, <1>3, <1>4, <1>5

LEMMA StepIInv == IInv /\ [Next]_vars => IInv'
<1> SUFFICES ASSUME IInv, [Next]_vars PROVE IInv'
  OBVIOUS
<1>1. CASE UNCHANGED vars
  BY <1>1 DEF IInv, TypeOK, CursorInv, ModeInv, OwnInv, FamilyInv, Alive, vars
<1>2. CASE AllGone
  BY <1>1, <1>2 DEF AllGone
<1>3. ASSUME NEW p \in Proc, ChunkEnds(p) PROVE IInv'
  BY <1>3, ChunkStep
<1>4. ASSUME NEW p \in Proc, ScriptStep(p) PROVE IInv'
  BY <1>4, ChunkStep, ScriptCallStep DEF ScriptStep
<1>5. ASSUME NEW p \in Proc, DriverStep(p) PROVE IInv'
  BY <1>5, LoopStep, WorkerStep DEF DriverStep
<1>6. ASSUME NEW p \in Proc, Killed(p) PROVE IInv'
  BY <1>6, WorkerStep
<1> QED
  BY <1>1, <1>2, <1>3, <1>4, <1>5, <1>6 DEF Next

\* The invariant holds of every run of the harness.
LEMMA AlwaysIInv == Spec => []IInv
  BY InitIInv, StepIInv, PTL DEF Spec

-----------------------------------------------------------------------------
(* Theorems                                                                *)

\* Every variable of the harness keeps to its type: the cursor stays within the
\* scripts of the command line and the failure count within its bound.
THEOREM TypeCorrect == Spec => []TypeOK
<1>1. IInv => TypeOK
  BY DEF IInv
<1> QED
  BY <1>1, AlwaysIInv, PTL

\* A worker that runs without a parent was left by a maker that was killed or
\* could not fork its next worker.
THEOREM WorkersHaveParents == Spec => []NoOrphanWorker
<1>1. IInv => NoOrphanWorker
  BY ProcAssumption DEF IInv, TypeOK, FamilyInv, NoOrphanWorker
<1> QED
  BY <1>1, AlwaysIInv, PTL

\* The settings never change once the command line is parsed.
LEMMA KitFixed == [Next]_vars => kit' = kit
<1> SUFFICES ASSUME [Next]_vars PROVE kit' = kit
  OBVIOUS
<1>1. ASSUME NEW p \in Proc, ChunkEnds(p) PROVE kit' = kit
  BY <1>1 DEF ChunkEnds, ChunkReturns
<1>2. ASSUME NEW p \in Proc, ScriptStep(p) PROVE kit' = kit
  BY <1>2 DEF ScriptStep, AssertFails, AssertAborts, ChunkReturns, ScriptExits, ScriptForks,
              ScriptWaits, ScriptSetsArg
<1>3. ASSUME NEW p \in Proc, DriverStep(p) PROVE kit' = kit
  BY <1>3 DEF DriverStep, StartScript, LoadFails, StartForking, ForkFails, ForksDone, ScriptsDone,
              ReapDone, Stop, ForkWorker, ReapChild
<1>4. ASSUME NEW p \in Proc, Killed(p) PROVE kit' = kit
  BY <1>4 DEF Killed
<1> QED
  BY <1>1, <1>2, <1>3, <1>4 DEF Next, AllGone, vars

\* Ending and reaping give no process a child it had not.
LEMMA FewerChildren ==
  ASSUME NothingLeftBehind, kit' = kit,
         \A p \in Proc : stage'[p] = "stop" /\ script'[p] = kit.scripts
                        => stage[p] = "stop" /\ script[p] = kit.scripts,
         \A p \in Proc : stage[p] = "stop" => Children(p)' \subseteq Children(p)
  PROVE  NothingLeftBehind'
  BY DEF NothingLeftBehind

\* The end of a chunk leaves no one behind: no chunk but the prompt's leads to
\* stop() with all scripts done.
LEMMA ChunkReturnsNothingLeft ==
  ASSUME IInv, NothingLeftBehind, NEW p \in Proc, NEW ok \in BOOLEAN, ChunkReturns(p, ok)
  PROVE  NothingLeftBehind'
<1> USE DEF IInv, TypeOK, NothingLeftBehind, Children, Go
<1>0. kit' = kit /\ kit.scripts \in Nat
  BY KitFields DEF ChunkReturns
<1>1. CASE InitReturns(p, ok)
  BY <1>0, <1>1 DEF InitReturns, CursorInv
<1>2. CASE LibraryReturns(p, ok)
  BY <1>0, <1>2 DEF LibraryReturns, CursorInv
<1>3. CASE ScriptReturns(p, ok)
  BY <1>0, <1>3 DEF ScriptReturns
<1>4. CASE WorkerReturns(p, ok)
  <2>1. Exit(p) /\ script' = script /\ stage[p] \notin DeadStage
    BY <1>4 DEF WorkerReturns
  <2>2. \A r \in Proc : stage'[r] = "stop" => stage[r] = "stop"
    BY <2>1 DEF Exit
  <2>3. \A r \in Proc : Children(r)' \subseteq Children(r)
    BY <2>1, ProcAssumption DEF Exit
  <2> QED
    BY <1>0, <2>1, <2>2, <2>3, FewerChildren
<1>5. CASE ReplReturns(p, ok)
  <2>1. stage[p] = "repl" /\ (stage' = stage \/ stage' = [stage EXCEPT ![p] = "stop"])
        /\ script' = script /\ parent' = parent
    BY <1>5 DEF ReplReturns
  <2>2. kit.interactive \/ kit.scripts = 0
    BY <2>1 DEF ModeInv
  <2> QED
    BY <1>0, <2>1, <2>2
<1> QED
  BY <1>1, <1>2, <1>3, <1>4, <1>5 DEF ChunkReturns

LEMMA StepNothingLeft == IInv /\ NothingLeftBehind /\ [Next]_vars => NothingLeftBehind'
<1> SUFFICES ASSUME IInv, NothingLeftBehind, [Next]_vars PROVE NothingLeftBehind'
  OBVIOUS
<1>0. kit' = kit /\ kit.scripts \in Nat
  BY KitFixed, KitFields DEF IInv, TypeOK
<1> USE <1>0 DEF IInv, TypeOK, NothingLeftBehind, Children, Go, family
<1>1. CASE UNCHANGED vars
  BY <1>1 DEF vars
<1>2. CASE AllGone
  BY <1>1, <1>2 DEF AllGone
<1>3. ASSUME NEW p \in Proc, ChunkEnds(p) \/ AssertAborts(p) PROVE NothingLeftBehind'
  BY <1>3, ChunkReturnsNothingLeft DEF ChunkEnds, AssertAborts
<1>4. ASSUME NEW p \in Proc, AssertFails(p) \/ ScriptSetsArg(p) PROVE NothingLeftBehind'
  BY <1>4 DEF AssertFails, ScriptSetsArg
<1>5. ASSUME NEW p \in Proc, ScriptExits(p) \/ Stop(p) \/ Killed(p) PROVE NothingLeftBehind'
  <2>1. Exit(p) /\ script' = script /\ stage[p] \notin DeadStage
    BY <1>5 DEF ScriptExits, Stop, Killed, Alive, Running
  <2>2. \A r \in Proc : stage'[r] = "stop" => stage[r] = "stop"
    BY <2>1 DEF Exit
  <2>3. \A r \in Proc : Children(r)' \subseteq Children(r)
    BY <2>1, ProcAssumption DEF Exit
  <2> QED
    BY <2>1, <2>2, <2>3, FewerChildren
<1>6. ASSUME NEW p \in Proc, NEW q \in Proc, ScriptForks(p, q) PROVE NothingLeftBehind'
  BY <1>6 DEF ScriptForks, Running
<1>7. ASSUME NEW p \in Proc, NEW q \in Proc, ForkWorker(p, q) PROVE NothingLeftBehind'
  <2>1. \A r \in Proc : stage'[r] = "stop" /\ script'[r] = kit.scripts
                         => stage[r] = "stop" /\ script[r] = kit.scripts
    BY <1>7, SMTT(30) DEF ForkWorker, CursorInv
  <2>2. \A r \in Proc : stage[r] = "stop" => Children(r)' \subseteq Children(r)
    BY <1>7 DEF ForkWorker
  <2> QED
    BY <2>1, <2>2, FewerChildren
<1>8. ASSUME NEW p \in Proc, NEW q \in Proc, ScriptWaits(p, q) \/ ReapChild(p, q)
      PROVE  NothingLeftBehind'
  <2>1. Reaped(p, q) /\ script' = script
    BY <1>8 DEF ScriptWaits, ReapChild
  <2>2. \A r \in Proc : stage'[r] = "stop" => stage[r] = "stop"
    BY <2>1 DEF Reaped
  <2>3. \A r \in Proc : Children(r)' \subseteq Children(r)
    BY <2>1, ProcAssumption DEF Reaped
  <2> QED
    BY <2>1, <2>2, <2>3, FewerChildren
<1>9. ASSUME NEW p \in Proc,
             StartScript(p) \/ LoadFails(p) \/ StartForking(p) \/ ForksDone(p)
      PROVE  NothingLeftBehind'
  <2>1. PICK new \in {"script", "fork", "loop", "stop"} :
          stage' = [stage EXCEPT ![p] = new] /\ (new = "stop" => StartScript(p))
    BY <1>9 DEF StartScript, LoadFails, StartForking, ForksDone, Entered
  <2>2. parent' = parent /\ stage[p] \in {"loop", "fork"}
        /\ \A r \in Proc : r # p => script'[r] = script[r]
    BY <1>9 DEF StartScript, LoadFails, StartForking, ForksDone
  <2>3. StartScript(p) => kit.parallel = 0
    BY DEF StartScript
  <2> QED
    BY <2>1, <2>2, <2>3
<1>10. ASSUME NEW p \in Proc, ForkFails(p) PROVE NothingLeftBehind'
  BY <1>10 DEF ForkFails, CursorInv
<1>11. ASSUME NEW p \in Proc, ScriptsDone(p) PROVE NothingLeftBehind'
  BY <1>11 DEF ScriptsDone, AfterScripts
<1>12. ASSUME NEW p \in Proc, ReapDone(p) PROVE NothingLeftBehind'
  BY <1>12 DEF ReapDone, AfterScripts
<1> QED
  BY <1>1, <1>2, <1>3, <1>4, <1>5, <1>6, <1>7, <1>8, <1>9, <1>10, <1>11, <1>12
  DEF Next, ScriptStep, DriverStep

\* When pmain is through with its scripts and its reap loop, it has no child left.
THEOREM ReapLoopComplete == Spec => []NothingLeftBehind
<1>1. Init => NothingLeftBehind
  BY DEF Init, NothingLeftBehind, FirstStage
<1> QED
  BY <1>1, AlwaysIInv, StepNothingLeft, PTL DEF Spec

-----------------------------------------------------------------------------
(* How often a script runs, and whose failures its workers report.         *)

\* --process n, and nothing that runs before the scripts.
Plain == kit.parallel # 0 /\ ~kit.luainit /\ ~kit.library

Looping == {"loop", "fork", "reap"}

\* Only the first process drives the loops, and no assertion has failed in it.
SoleDriver ==
  /\ stage[Root] # "unborn"
  /\ \A p \in Proc :
       /\ stage[p] \notin {"luainit", "library", "script"}
       /\ stage[p] \in Looping => p = Root /\ failures[p] = 0
       /\ stage[p] = "worker" => failures[p] = own[p]

\* The loops have entered the scripts before the cursor once per worker, those
\* after it never, and the one at the cursor as often as they have forked for it.
Progress ==
  stage[Root] \in Looping =>
    /\ stage[Root] = "fork" => idx[Root] <= Workers
    /\ \A k \in 1..MaxScripts :
         started[k] = IF k <= script[Root] THEN Workers
                      ELSE IF k = script[Root] + 1 /\ stage[Root] = "fork" THEN idx[Root]
                      ELSE 0

PlainInv == Plain => SoleDriver /\ Progress

LEMMA InitPlain == Init => PlainInv
<1> SUFFICES ASSUME Init, Plain PROVE SoleDriver /\ Progress
  BY DEF PlainInv
<1> QED
  BY ProcAssumption DEF Init, Plain, SoleDriver, Progress, Looping, FirstStage

\* A step that moves nobody into the loops, or to a worker's stage with a failure
\* not its own, and that starts no script.
LEMMA AsidePlain ==
  ASSUME IInv, Plain, SoleDriver, Progress, UNCHANGED <<kit, started>>,
         stage'[Root] # "unborn",
         \A q \in Proc :
           \/ stage'[q] \notin {"luainit", "library", "script", "worker"} \cup Looping
           \/ /\ stage'[q] = stage[q]
              /\ UNCHANGED <<script[q], idx[q]>>
              /\ stage[q] \in Looping => failures'[q] = failures[q]
              /\ stage[q] = "worker" /\ failures[q] = own[q] => failures'[q] = own'[q]
           \/ stage'[q] = "worker" /\ failures'[q] = own'[q]
  PROVE  SoleDriver' /\ Progress'
<1> USE DEF IInv, TypeOK, Looping
<1>1. SoleDriver'
  BY DEF SoleDriver
<1>2. Progress'
  BY ProcAssumption DEF Progress, Workers
<1> QED
  BY <1>1, <1>2

LEMMA ChunkReturnsPlain ==
  ASSUME IInv, Plain, SoleDriver, Progress, NEW p \in Proc, NEW ok \in BOOLEAN,
         ChunkReturns(p, ok),
         \A q \in Proc : q # p => UNCHANGED <<failures[q], own[q]>>
  PROVE  SoleDriver' /\ Progress'
<1> USE DEF IInv, TypeOK, Looping, SoleDriver
<1>1. UNCHANGED <<kit, started, idx>> /\ stage[p] \in {"worker", "repl"}
  BY DEF ChunkReturns, InitReturns, LibraryReturns, ScriptReturns, WorkerReturns, ReplReturns
<1>2. CASE WorkerReturns(p, ok)
  BY <1>1, <1>2, ProcAssumption, AsidePlain DEF WorkerReturns, Exit
<1>3. CASE ReplReturns(p, ok)
  <2>1. script' = script /\ stage[p] = "repl"
        /\ (stage' = stage \/ stage' = [stage EXCEPT ![p] = "stop"])
    BY <1>3 DEF ReplReturns, Go
  <2> QED
    BY <1>1, <2>1, ProcAssumption, AsidePlain
<1> QED
  BY <1>1, <1>2, <1>3 DEF ChunkReturns, InitReturns, LibraryReturns, ScriptReturns

LEMMA ScriptPlain ==
  ASSUME IInv, Plain, SoleDriver, Progress, NEW p \in Proc, ChunkEnds(p) \/ ScriptStep(p)
  PROVE  SoleDriver' /\ Progress'
<1> USE DEF IInv, TypeOK, Looping
<1>1. CASE ChunkEnds(p)
  BY <1>1, ChunkReturnsPlain DEF ChunkEnds
<1>2. ASSUME CountFailure(p)
      PROVE  /\ \A q \in Proc : q # p => UNCHANGED <<failures[q], own[q]>>
             /\ failures[p] = own[p] => failures'[p] = own'[p]
  BY <1>2 DEF CountFailure
<1>3. CASE AssertAborts(p)
  BY <1>2, <1>3, ChunkReturnsPlain DEF AssertAborts
<1>4. CASE AssertFails(p)
  <2>1. UNCHANGED <<kit, stage, script, idx, started>> /\ Running(p) /\ CountFailure(p)
    BY <1>4 DEF AssertFails, CountFailure
  <2> QED
    BY <1>2, <2>1, ProcAssumption, AsidePlain DEF Running, SoleDriver
<1>5. ASSUME NEW q \in Proc, ScriptForks(p, q) PROVE SoleDriver' /\ Progress'
  BY <1>5, ProcAssumption, AsidePlain DEF ScriptForks, Running, SoleDriver
<1>6. ASSUME NEW q \in Proc, ScriptWaits(p, q) PROVE SoleDriver' /\ Progress'
  BY <1>6, ProcAssumption, AsidePlain DEF ScriptWaits, Reaped, SoleDriver
<1>7. CASE ScriptExits(p)
  BY <1>7, ProcAssumption, AsidePlain DEF ScriptExits, Exit, SoleDriver
<1>8. CASE ScriptSetsArg(p)
  BY <1>8, ProcAssumption, AsidePlain DEF ScriptSetsArg, SoleDriver
<1> QED
  BY <1>1, <1>3, <1>4, <1>5, <1>6, <1>7, <1>8 DEF ScriptStep

LEMMA DriverPlain ==
  ASSUME IInv, Plain, SoleDriver, Progress, NEW p \in Proc, DriverStep(p) \/ Killed(p)
  PROVE  SoleDriver' /\ Progress'
<1> USE DEF IInv, TypeOK, Looping, Go, family
<1>0. /\ kit.parallel \in Int /\ kit.scripts \in 0..MaxScripts
      /\ kit.parallel # 0 /\ Root \in Proc /\ MaxScripts \in Nat
      /\ script[Root] \in 0..MaxScripts /\ script[Root] <= kit.scripts
      /\ idx[Root] \in Nat
  BY KitFields, ProcAssumption, BoundAssumption DEF Plain, CursorInv
<1>1. CASE StartScript(p) \/ LoadFails(p)
  BY <1>0, <1>1 DEF StartScript, LoadFails
<1>2. CASE StartForking(p)
  <2>1. p = Root
    BY <1>2 DEF StartForking, SoleDriver
  <2>2. SoleDriver'
    BY <1>0, <1>2, <2>1 DEF StartForking, SoleDriver
  <2>3. Progress'
    BY <1>0, <1>2, <2>1 DEF StartForking, Progress, Workers
  <2> QED
    BY <2>2, <2>3
<1>3. ASSUME NEW q \in Proc, ForkWorker(p, q) PROVE SoleDriver' /\ Progress'
  <2>1. p = Root /\ q # p
    BY <1>3 DEF ForkWorker, SoleDriver
  <2>2. SoleDriver'
    BY <1>0, <1>3, <2>1 DEF ForkWorker, Entered, SoleDriver
  <2>3. Progress'
    <3>1. stage'[Root] = "fork" /\ script'[Root] = script[Root] /\ kit' = kit
      BY <1>0, <1>3, <2>1 DEF ForkWorker
    <3>2. idx'[Root] = idx[Root] + 1 /\ idx[Root] < Workers
      BY <1>0, <1>3, <2>1 DEF ForkWorker
    <3>3. \A k \in 1..MaxScripts :
            started'[k] = IF k = script[Root] + 1 THEN started[k] + 1 ELSE started[k]
      BY <1>0, <1>3, <2>1 DEF ForkWorker
    <3>4. stage[Root] = "fork"
      BY <1>3, <2>1 DEF ForkWorker
    <3>5. Workers \in Nat /\ Workers' = Workers
      BY <1>0, <3>1 DEF Workers
    <3>6. \A k \in 1..MaxScripts :
            started[k] = IF k <= script[Root] THEN Workers
                         ELSE IF k = script[Root] + 1 THEN idx[Root] ELSE 0
      BY <3>4 DEF Progress
    <3>7. idx'[Root] <= Workers
      BY <1>0, <3>2, <3>5
    <3>8. ASSUME NEW k \in 1..MaxScripts
          PROVE  started'[k] = IF k <= script[Root] THEN Workers
                               ELSE IF k = script[Root] + 1 THEN idx'[Root] ELSE 0
      <4>1. CASE k = script[Root] + 1
        BY SMTT(30), <1>0, <3>2, <3>3, <3>6, <4>1
      <4>2. CASE k # script[Root] + 1
        BY <1>0, <3>3, <3>6, <4>2
      <4> QED
        BY <4>1, <4>2
    <3> QED
      BY <3>1, <3>5, <3>7, <3>8 DEF Progress
  <2> QED
    BY <2>2, <2>3
<1>4. CASE ForksDone(p)
  <2>1. p = Root
    BY <1>4 DEF ForksDone, SoleDriver
  <2>2. SoleDriver'
    BY <1>0, <1>4, <2>1 DEF ForksDone, SoleDriver
  <2>3. idx[Root] = Workers /\ Workers' = Workers /\ Workers \in Nat
    BY <1>0, <1>4, <2>1 DEF ForksDone, Progress, Workers
  <2>4. stage'[Root] = "loop" /\ script'[Root] = script[Root] + 1 /\ started' = started
        /\ stage[Root] = "fork"
    BY <1>0, <1>4, <2>1 DEF ForksDone
  <2>5. \A k \in 1..MaxScripts :
          started[k] = IF k <= script[Root] THEN Workers
                       ELSE IF k = script[Root] + 1 THEN idx[Root] ELSE 0
    BY <2>4 DEF Progress
  <2>6. ASSUME NEW k \in 1..MaxScripts
        PROVE  started'[k] = IF k <= script'[Root] THEN Workers ELSE 0
    <3>1. CASE k = script[Root] + 1
      BY <1>0, <2>3, <2>4, <2>5, <3>1
    <3>2. CASE k # script[Root] + 1
      <4>1. k <= script'[Root] <=> k <= script[Root]
        BY SMTT(30), <1>0, <2>4, <3>2
      <4> QED
        BY <2>4, <2>5, <3>2, <4>1
    <3> QED
      BY <3>1, <3>2
  <2>7. Progress'
    BY <2>3, <2>4, <2>6 DEF Progress
  <2> QED
    BY <2>2, <2>7
<1>5. CASE ScriptsDone(p)
  <2>1. p = Root
    BY <1>5 DEF ScriptsDone, SoleDriver
  <2>2. SoleDriver'
    BY <1>0, <1>5, <2>1 DEF ScriptsDone, SoleDriver, AfterScripts
  <2>3. Progress'
    BY <1>0, <1>5, <2>1 DEF ScriptsDone, Progress, AfterScripts, Workers
  <2> QED
    BY <2>2, <2>3
<1>6. CASE ForkFails(p)
  BY <1>0, <1>6, AsidePlain DEF ForkFails, SoleDriver
<1>7. CASE ReapDone(p)
  BY <1>0, <1>7, AsidePlain DEF ReapDone, AfterScripts, SoleDriver
<1>8. CASE Stop(p) \/ Killed(p)
  <2>1. Exit(p) /\ UNCHANGED <<kit, script, idx, failures, own, started>>
    BY <1>8 DEF Stop, Killed
  <2> QED
    BY <1>0, <2>1, AsidePlain DEF Exit, SoleDriver
<1>9. ASSUME NEW q \in Proc, ReapChild(p, q) PROVE SoleDriver' /\ Progress'
  BY <1>0, <1>9, AsidePlain DEF ReapChild, Reaped, SoleDriver
<1> QED
  BY <1>1, <1>2, <1>3, <1>4, <1>5, <1>6, <1>7, <1>8, <1>9 DEF DriverStep

LEMMA StepPlain == IInv /\ PlainInv /\ [Next]_vars => PlainInv'
<1> SUFFICES ASSUME IInv, PlainInv, [Next]_vars, Plain PROVE SoleDriver' /\ Progress'
  BY KitFixed DEF PlainInv, Plain
<1>1. SoleDriver /\ Progress
  BY DEF PlainInv
<1>2. CASE UNCHANGED vars
  BY <1>1, <1>2 DEF SoleDriver, Progress, Workers, vars
<1>3. CASE AllGone
  BY <1>2, <1>3 DEF AllGone
<1>4. ASSUME NEW p \in Proc, ChunkEnds(p) \/ ScriptStep(p) PROVE SoleDriver' /\ Progress'
  BY <1>1, <1>4, ScriptPlain
<1>5. ASSUME NEW p \in Proc, DriverStep(p) \/ Killed(p) PROVE SoleDriver' /\ Progress'
  BY <1>1, <1>5, DriverPlain
<1> QED
  BY <1>2, <1>3, <1>4, <1>5 DEF Next

LEMMA AlwaysPlain == Spec => []PlainInv
  BY InitPlain, AlwaysIInv, StepPlain, PTL DEF Spec

\* With --process n every script has been entered exactly n times when the reap
\* loop is reached, whatever the scripts fork and whoever is killed.
THEOREM ScriptsRunPerWorker == Spec => []EachScriptRunsPerWorker
<1>1. IInv /\ PlainInv => EachScriptRunsPerWorker
  <2> SUFFICES ASSUME IInv, PlainInv, NEW p \in Proc, stage[p] = "reap",
                      ~kit.luainit, ~kit.library, NEW k \in 1..kit.scripts
               PROVE  started[k] = Workers
    BY DEF EachScriptRunsPerWorker
  <2>1. Plain /\ script[p] = kit.scripts /\ kit.scripts \in 0..MaxScripts
    BY KitFields DEF IInv, TypeOK, ModeInv, CursorInv, Plain
  <2>2. p = Root /\ Progress
    BY <2>1 DEF PlainInv, SoleDriver, Looping
  <2> QED
    BY <2>1, <2>2, BoundAssumption DEF Progress, Looping
<1> QED
  BY <1>1, AlwaysIInv, AlwaysPlain, PTL

\* What a worker reports at its end are the failures of its own script.
THEOREM WorkersReportTheirOwn == Spec => []WorkerCountsOwnScript
<1>1. IInv /\ PlainInv => WorkerCountsOwnScript
  BY DEF IInv, ModeInv, PlainInv, Plain, SoleDriver, WorkerCountsOwnScript
<1> QED
  BY <1>1, AlwaysIInv, AlwaysPlain, PTL

-----------------------------------------------------------------------------
(* Without workers: every process that may still enter script k, and every  *)
(* time it was entered, stands for the first process or for a fork.         *)

Due(k) ==
  {p \in Proc : \/ stage[p] \in {"luainit", "library", "loop"} /\ script[p] < k
                \/ stage[p] = "script" /\ script[p] + 1 < k}

Entries ==
  kit.parallel = 0 =>
    \A k \in 1..MaxScripts : IsFiniteSet(Due(k)) /\ Cardinality(Due(k)) + started[k] <= 1 + forks

LEMMA InitEntries == Init => Entries
<1> SUFFICES ASSUME Init, NEW k \in 1..MaxScripts
             PROVE  IsFiniteSet(Due(k)) /\ Cardinality(Due(k)) + started[k] <= 1 + forks
  BY DEF Entries
<1>1. Due(k) \subseteq {Root} /\ started[k] = 0 /\ forks = 0
  BY DEF Init, Due
<1>2. IsFiniteSet({Root}) /\ Cardinality({Root}) = 1
  BY FS_Singleton
<1>3. IsFiniteSet(Due(k)) /\ Cardinality(Due(k)) <= 1 /\ Cardinality(Due(k)) \in Nat
  BY <1>1, <1>2, FS_Subset, FS_CardinalityType
<1> QED
  BY <1>1, <1>3

\* Nobody new may enter script k, and nobody enters it.
LEMMA FewerDue ==
  ASSUME IInv, Entries, kit.parallel = 0, NEW k \in 1..MaxScripts,
         Due(k)' \subseteq Due(k), started'[k] = started[k], forks' = forks
  PROVE  IsFiniteSet(Due(k)') /\ Cardinality(Due(k)') + started'[k] <= 1 + forks'
<1>1. /\ IsFiniteSet(Due(k)) /\ Cardinality(Due(k)) + started[k] <= 1 + forks /\ Cardinality(Due(k)) \in Nat
      /\ started[k] \in Nat /\ forks \in Nat
  BY FS_CardinalityType, BoundAssumption DEF Entries, IInv, TypeOK
<1>2. IsFiniteSet(Due(k)') /\ Cardinality(Due(k)') <= Cardinality(Due(k)) /\ Cardinality(Due(k)') \in Nat
  BY <1>1, FS_Subset, FS_CardinalityType
<1> QED
  BY <1>1, <1>2

LEMMA ChunkReturnsDue ==
  ASSUME IInv, kit.parallel = 0, NEW p \in Proc, NEW ok \in BOOLEAN, ChunkReturns(p, ok), NEW k \in 1..MaxScripts
  PROVE  Due(k)' \subseteq Due(k) /\ UNCHANGED <<started, forks>>
<1>1. UNCHANGED <<started, forks>> /\ stage \in [Proc -> Stage] /\ script \in [Proc -> 0..MaxScripts] /\ k \in Nat /\ MaxScripts \in Nat
  BY BoundAssumption DEF ChunkReturns, IInv, TypeOK
<1>2. CASE InitReturns(p, ok) \/ LibraryReturns(p, ok) \/ ReplReturns(p, ok)
  BY <1>1, <1>2 DEF InitReturns, LibraryReturns, ReplReturns, Go, Due
<1>3. CASE ScriptReturns(p, ok)
  BY <1>1, <1>3 DEF ScriptReturns, Go, Due
<1>4. CASE WorkerReturns(p, ok)
  BY <1>1, <1>4 DEF WorkerReturns, IInv, ModeInv
<1> QED
  BY <1>1, <1>2, <1>3, <1>4 DEF ChunkReturns

\* A process starts script k: it leaves those that may.
LEMMA StartsDue ==
  ASSUME IInv, Entries, kit.parallel = 0, NEW p \in Proc, StartScript(p) \/ LoadFails(p), NEW k \in 1..MaxScripts
  PROVE  IsFiniteSet(Due(k)') /\ Cardinality(Due(k)') + started'[k] <= 1 + forks'
<1>1. /\ stage[p] = "loop" /\ script[p] < kit.scripts /\ UNCHANGED forks /\ started' = [started EXCEPT ![script[p] + 1] = @ + 1]
      /\ stage \in [Proc -> Stage] /\ script \in [Proc -> 0..MaxScripts] /\ started \in [1..MaxScripts -> Nat]
      /\ kit.scripts \in 0..MaxScripts /\ MaxScripts \in Nat /\ k \in Nat
  <2>1. stage[p] = "loop" /\ script[p] < kit.scripts /\ UNCHANGED forks /\ started' = [started EXCEPT ![script[p] + 1] = @ + 1]
    BY DEF StartScript, LoadFails
  <2>2. stage \in [Proc -> Stage] /\ script \in [Proc -> 0..MaxScripts] /\ started \in [1..MaxScripts -> Nat] /\ kit \in Kits
    BY DEF IInv, TypeOK
  <2> QED
    BY <2>1, <2>2, KitFields, BoundAssumption
<1>2. Due(k)' \subseteq Due(k) /\ (script[p] + 1 = k => p \in Due(k) /\ p \notin Due(k)')
  <2>1. CASE StartScript(p)
    BY <1>1, <2>1 DEF StartScript, Go, Entered, Due
  <2>2. CASE LoadFails(p)
    BY <1>1, <2>2, SMTT(30) DEF LoadFails, Due
  <2> QED
    BY <2>1, <2>2
<1>3. CASE script[p] + 1 # k
  BY <1>1, <1>2, <1>3, FewerDue
<1>4. CASE script[p] + 1 = k
  <2>1. Due(k)' \subseteq Due(k) \ {p} /\ started'[k] = started[k] + 1
    BY <1>1, <1>2, <1>4
  <2>2. /\ IsFiniteSet(Due(k)) /\ Cardinality(Due(k)) + started[k] <= 1 + forks /\ Cardinality(Due(k)) \in Nat
        /\ started[k] \in Nat /\ forks \in Nat
    BY FS_CardinalityType, BoundAssumption DEF Entries, IInv, TypeOK
  <2>3. IsFiniteSet(Due(k) \ {p}) /\ Cardinality(Due(k) \ {p}) = Cardinality(Due(k)) - 1
    BY <1>2, <1>4, <2>2, FS_RemoveElement
  <2>4. IsFiniteSet(Due(k)') /\ Cardinality(Due(k)') <= Cardinality(Due(k)) - 1 /\ Cardinality(Due(k)') \in Nat
    BY <2>1, <2>3, FS_Subset, FS_CardinalityType
  <2> QED
    BY <1>1, <2>1, <2>2, <2>4, SMTT(30)
<1> QED
  BY <1>3, <1>4

\* A script forks: one more process, and one more fork.
LEMMA ForksDue ==
  ASSUME IInv, Entries, kit.parallel = 0, NEW p \in Proc, NEW q \in Proc, ScriptForks(p, q), NEW k \in 1..MaxScripts
  PROVE  IsFiniteSet(Due(k)') /\ Cardinality(Due(k)') + started'[k] <= 1 + forks'
<1>1. Due(k)' \subseteq Due(k) \cup {q} /\ started' = started /\ forks' = forks + 1
  BY DEF ScriptForks, Due, IInv, TypeOK
<1>2. /\ IsFiniteSet(Due(k)) /\ Cardinality(Due(k)) + started[k] <= 1 + forks /\ Cardinality(Due(k)) \in Nat
      /\ started[k] \in Nat /\ forks \in Nat
  BY FS_CardinalityType, BoundAssumption DEF Entries, IInv, TypeOK
<1>3. IsFiniteSet(Due(k) \cup {q}) /\ Cardinality(Due(k) \cup {q}) <= Cardinality(Due(k)) + 1 /\ Cardinality(Due(k) \cup {q}) \in Nat
  BY <1>2, FS_AddElement, FS_CardinalityType, SMTT(30)
<1>4. IsFiniteSet(Due(k)') /\ Cardinality(Due(k)') <= Cardinality(Due(k) \cup {q}) /\ Cardinality(Due(k)') \in Nat
  BY <1>1, <1>3, FS_Subset, FS_CardinalityType
<1> QED
  BY <1>1, <1>2, <1>3, <1>4

LEMMA NextEntries == IInv /\ Entries /\ [Next]_vars => Entries'
<1> SUFFICES ASSUME IInv, Entries, [Next]_vars, kit.parallel = 0, NEW k \in 1..MaxScripts
             PROVE  IsFiniteSet(Due(k)') /\ Cardinality(Due(k)') + started'[k] <= 1 + forks'
  BY KitFixed DEF Entries
<1>1. CASE UNCHANGED vars
  <2>1. Due(k)' = Due(k) /\ UNCHANGED <<started, forks>>
    BY <1>1 DEF vars, Due
  <2> QED
    BY <2>1, FewerDue
<1>2. ASSUME NEW p \in Proc, ChunkEnds(p) \/ AssertAborts(p) PROVE IsFiniteSet(Due(k)') /\ Cardinality(Due(k)') + started'[k] <= 1 + forks'
  BY <1>2, ChunkReturnsDue, FewerDue DEF ChunkEnds, AssertAborts
<1>3. ASSUME NEW p \in Proc, AssertFails(p) \/ ScriptSetsArg(p) PROVE IsFiniteSet(Due(k)') /\ Cardinality(Due(k)') + started'[k] <= 1 + forks'
  <2>1. Due(k)' = Due(k) /\ UNCHANGED <<started, forks>>
    BY <1>3 DEF AssertFails, ScriptSetsArg, Due
  <2> QED
    BY <2>1, FewerDue
<1>4. ASSUME NEW p \in Proc, ScriptExits(p) \/ Stop(p) \/ Killed(p) PROVE IsFiniteSet(Due(k)') /\ Cardinality(Due(k)') + started'[k] <= 1 + forks'
  <2>1. Due(k)' \subseteq Due(k) /\ UNCHANGED <<started, forks>>
    BY <1>4 DEF ScriptExits, Stop, Killed, Exit, Due
  <2> QED
    BY <2>1, FewerDue
<1>5. ASSUME NEW p \in Proc, NEW q \in Proc, ScriptWaits(p, q) \/ ReapChild(p, q) PROVE IsFiniteSet(Due(k)') /\ Cardinality(Due(k)') + started'[k] <= 1 + forks'
  <2>1. Due(k)' \subseteq Due(k) /\ UNCHANGED <<started, forks>>
    BY <1>5 DEF ScriptWaits, ReapChild, Reaped, Due, IInv, TypeOK
  <2> QED
    BY <2>1, FewerDue
<1>6. ASSUME NEW p \in Proc, ScriptsDone(p) \/ ReapDone(p) PROVE IsFiniteSet(Due(k)') /\ Cardinality(Due(k)') + started'[k] <= 1 + forks'
  <2>1. Due(k)' \subseteq Due(k) /\ UNCHANGED <<started, forks>>
    BY <1>6 DEF ScriptsDone, ReapDone, Go, AfterScripts, Due, IInv, TypeOK
  <2> QED
    BY <2>1, FewerDue
<1>7. ASSUME NEW p \in Proc, NEW q \in Proc, StartForking(p) \/ ForkFails(p) \/ ForksDone(p) \/ ForkWorker(p, q) PROVE FALSE
  BY <1>7 DEF StartForking, ForkFails, ForksDone, ForkWorker, IInv, ModeInv
<1> QED
  BY <1>1, <1>2, <1>3, <1>4, <1>5, <1>6, <1>7, StartsDue, ForksDue DEF Next, AllGone, ScriptStep, DriverStep

(***************************************************************************)
(* Without workers a script is entered again only by what a script forked. *)
(***************************************************************************)
THEOREM ReentriesAreForked == Spec => []ReentryNeedsFork
<1>1. IInv /\ Entries => ReentryNeedsFork
  <2> SUFFICES ASSUME IInv, Entries, kit.parallel = 0, NEW k \in 1..MaxScripts PROVE started[k] <= 1 + forks
    BY DEF ReentryNeedsFork
  <2>1. Cardinality(Due(k)) \in Nat /\ started[k] \in Nat /\ forks \in Nat /\ Cardinality(Due(k)) + started[k] <= 1 + forks
    BY FS_CardinalityType, BoundAssumption DEF Entries, IInv, TypeOK
  <2> QED
    BY <2>1
<1> QED
  BY <1>1, InitEntries, NextEntries, AlwaysIInv, PTL DEF Spec
-----------------------------------------------------------------------------
(***************************************************************************)
(* LktkHarness implements LktkTasks, for any processes, command lines and  *)
(* bounds.  TInv is the invariant of the refinement: the workers that the  *)
(* first process has forked are, one each, the tasks that its two loops    *)
(* have passed.                                                            *)
(***************************************************************************)
Workforce == WorkersOf(Root)
Todo == AllTasks \ {TaskOf(q) : q \in Workforce}
Busy == {TaskOf(q) : q \in {w \in Workforce : Alive(w)}}
Ended == {TaskOf(q) : q \in {w \in Workforce : ~Alive(w)}}

\* The first process is nobody's child and no worker.
First ==
  /\ maker[Root] = NoProc /\ parent[Root] = NoProc
  /\ stage[Root] \notin {"unborn", "zombie", "worker"}
  /\ stage[Root] \in {"luainit", "library"} => kit.luainit \/ kit.library
  /\ Root \in abandoned => stage[Root] \in {"stop", "gone"}

\* Its workers never come to the loops, and each has a task of its own.
Named ==
  /\ \A q \in Workforce : stage[q] \in {"worker", "stop", "zombie", "gone"} /\ TaskOf(q) \in AllTasks
  /\ \A q, r \in Workforce : TaskOf(q) = TaskOf(r) => q = r

\* The tasks that the loops of the first process have passed.
Passed ==
  {t \in AllTasks : \/ t[1] < script[Root]
                    \/ stage[Root] = "fork" /\ t[1] = script[Root] /\ t[2] < idx[Root]}

Begun ==
  /\ stage[Root] = "fork" => idx[Root] <= Workers
  /\ stage[Root] \in {"luainit", "library", "loop", "script", "fork", "reap"} => {TaskOf(q) : q \in Workforce} = Passed

TInv == First /\ Named /\ Begun
-----------------------------------------------------------------------------
\* What becomes of the main program when no task moves.
MainMoves ==
  \/ TaskMain' = TaskMain
  \/ TaskMain' = "abandoned"
  \/ TaskMain = "working" /\ Todo = {} /\ Busy = {} /\ TaskMain' = "finished"

LEMMA Standing ==
  ASSUME UNCHANGED <<Todo, Busy, Ended>>, MainMoves
  PROVE  [Tasks!Next]_(Tasks!vars)
<1>1. /\ (AllTasks \ {TaskOf(q) : q \in WorkersOf(Root)})' = AllTasks \ {TaskOf(q) : q \in WorkersOf(Root)}
      /\ {TaskOf(q) : q \in {w \in WorkersOf(Root) : Alive(w)}}' = {TaskOf(q) : q \in {w \in WorkersOf(Root) : Alive(w)}}
      /\ {TaskOf(q) : q \in {w \in WorkersOf(Root) : ~Alive(w)}}' = {TaskOf(q) : q \in {w \in WorkersOf(Root) : ~Alive(w)}}
  BY DEF Todo, Busy, Ended, Workforce
<1>2. CASE TaskMain' = TaskMain
  BY <1>1, <1>2 DEF Tasks!vars
<1>3. CASE TaskMain' = "abandoned"
  BY <1>1, <1>3 DEF Tasks!Next, Tasks!Abandon
<1>4. CASE TaskMain = "working" /\ Todo = {} /\ Busy = {} /\ TaskMain' = "finished"
  BY <1>1, <1>4 DEF Tasks!Next, Tasks!Finish, Todo, Busy, Workforce
<1> QED
  BY <1>2, <1>3, <1>4 DEF MainMoves

LEMMA TasksAre ==
  ASSUME IInv
  PROVE  /\ AllTasks \subseteq (0..MaxScripts - 1) \X (0..MaxWorkers - 1)
         /\ kit.scripts \in 0..MaxScripts /\ MaxScripts \in Nat /\ Workers \in Nat
<1>1. kit \in Kits /\ kit.scripts \in 0..MaxScripts /\ kit.parallel \in Int /\ kit.parallel <= MaxWorkers /\ MaxScripts \in Nat /\ MaxWorkers \in Nat
  BY KitFields, BoundAssumption, WorkersAssumption DEF IInv, TypeOK
<1>2. Workers \in Nat /\ Workers <= MaxWorkers
  BY <1>1 DEF Workers
<1>3. 0..kit.scripts - 1 \subseteq 0..MaxScripts - 1 /\ 0..Workers - 1 \subseteq 0..MaxWorkers - 1
  BY <1>1, <1>2
<1> QED
  BY <1>1, <1>2, <1>3 DEF AllTasks

\* A task is taken up.
LEMMA Starting ==
  ASSUME IInv, NEW t \in Todo, TaskMain = "working", TaskMain' = "working",
         Todo' = Todo \ {t}, Busy' = Busy \cup {t}, Ended' = Ended
  PROVE  [Tasks!Next]_(Tasks!vars)
<1>1. t \in (0..MaxScripts - 1) \X (0..MaxWorkers - 1)
  BY TasksAre DEF Todo
<1>2. Tasks!Start(t)
  BY DEF Tasks!Start, Todo, Busy, Ended, Workforce
<1> QED
  BY <1>1, <1>2 DEF Tasks!Next

\* A task is over.
LEMMA Ending ==
  ASSUME IInv, NEW t \in Busy, t \in AllTasks, TaskMain' = TaskMain,
         Todo' = Todo, Busy' = Busy \ {t}, Ended' = Ended \cup {t}
  PROVE  [Tasks!Next]_(Tasks!vars)
<1>1. t \in (0..MaxScripts - 1) \X (0..MaxWorkers - 1)
  BY TasksAre
<1>2. Tasks!End(t)
  BY DEF Tasks!End, Todo, Busy, Ended, Workforce
<1> QED
  BY <1>1, <1>2 DEF Tasks!Next
-----------------------------------------------------------------------------
LEMMA InitTInv == Init => TInv
<1> SUFFICES ASSUME Init PROVE TInv
  OBVIOUS
<1>1. kit \in Kits /\ Workers \in Nat /\ kit.scripts \in Nat
  BY KitFields, BoundAssumption DEF Init, Workers
<1>2. Workforce = {}
  BY ProcAssumption DEF Init, Workforce, WorkersOf
<1>3. First
  BY ProcAssumption DEF Init, First, FirstStage
<1>4. Passed = {}
  BY <1>1, ProcAssumption DEF Passed, AllTasks, Init, FirstStage
<1>5. Begun
  BY <1>1, <1>2, <1>4, ProcAssumption DEF Begun, Init, FirstStage
<1> QED
  BY <1>2, <1>3, <1>5 DEF TInv, Named

\* Steps that leave the workers of the first process as they are, whether they
\* move the first process or not.
LEMMA WorkforceStays ==
  ASSUME IInv, TInv, kit' = kit, Workforce' = Workforce,
         \A w \in Workforce : /\ script'[w] = script[w] /\ idx'[w] = idx[w]
                              /\ stage'[w] = stage[w] \/ (stage[w] = "zombie" /\ stage'[w] = "gone")
  PROVE  UNCHANGED <<Todo, Busy, Ended, Workforce, AllTasks, Workers>> /\ Named'
         /\ \A w \in Workforce : TaskOf(w)' = TaskOf(w)
<1>1. Workforce' = Workforce /\ AllTasks' = AllTasks /\ Workers' = Workers
  BY DEF AllTasks, Workers
<1>2. \A w \in Workforce : TaskOf(w)' = TaskOf(w) /\ (Alive(w)' <=> Alive(w))
  BY DEF TaskOf, Alive, DeadStage
<1>3. {w \in Workforce' : Alive(w)'} = {w \in Workforce : Alive(w)} /\ {w \in Workforce' : ~Alive(w)'} = {w \in Workforce : ~Alive(w)}
  BY <1>1, <1>2
<1>4. UNCHANGED <<Todo, Busy, Ended>>
  BY <1>1, <1>2, <1>3 DEF Todo, Busy, Ended
<1>5. Named'
  BY <1>1, <1>2 DEF Named, TInv
<1> QED
  BY <1>1, <1>2, <1>4, <1>5

\* Steps aside of it all.
LEMMA FarAside ==
  ASSUME IInv, TInv, kit' = kit, Workforce' = Workforce, maker'[Root] = NoProc,
         stage'[Root] = stage[Root], script'[Root] = script[Root], idx'[Root] = idx[Root], parent'[Root] = NoProc,
         Root \in abandoned' <=> Root \in abandoned,
         \A w \in Workforce : /\ script'[w] = script[w] /\ idx'[w] = idx[w]
                              /\ stage'[w] = stage[w] \/ (stage[w] = "zombie" /\ stage'[w] = "gone")
  PROVE  TInv' /\ [Tasks!Next]_(Tasks!vars)
<1>1. UNCHANGED <<Todo, Busy, Ended, Workforce, AllTasks, Workers>> /\ Named' /\ \A w \in Workforce : TaskOf(w)' = TaskOf(w)
  BY WorkforceStays
<1>2. TaskMain' = TaskMain
  BY DEF TaskMain, PrologueFailed
<1>3. First'
  BY DEF First, TInv
<1>4. Passed' = Passed
  BY <1>1 DEF Passed
<1>5. Begun'
  BY <1>1, <1>4 DEF Begun, TInv
<1> QED
  BY <1>1, <1>2, <1>3, <1>5, Standing DEF TInv, MainMoves

LEMMA Aside ==
  ASSUME IInv, TInv, UNCHANGED <<kit, maker>>,
         stage'[Root] = stage[Root], script'[Root] = script[Root], idx'[Root] = idx[Root], parent'[Root] = NoProc,
         Root \in abandoned' <=> Root \in abandoned,
         \A w \in Workforce : /\ script'[w] = script[w] /\ idx'[w] = idx[w]
                              /\ stage'[w] = stage[w] \/ (stage[w] = "zombie" /\ stage'[w] = "gone")
  PROVE  TInv' /\ [Tasks!Next]_(Tasks!vars)
<1>1. Workforce' = Workforce /\ maker'[Root] = NoProc
  BY DEF Workforce, WorkersOf, TInv, First
<1> QED
  BY <1>1, FarAside

\* A worker of the first process ends: its task does.
LEMMA WorkerEnds ==
  ASSUME IInv, TInv, UNCHANGED <<kit, maker, script, idx>>, NEW p \in Workforce, Alive(p), stage'[p] \in {"zombie", "gone"},
         stage'[Root] = stage[Root], parent'[Root] = NoProc, Root \in abandoned' <=> Root \in abandoned,
         \A w \in Workforce : w # p => stage'[w] = stage[w] \/ (stage[w] = "zombie" /\ stage'[w] = "gone")
  PROVE  TInv' /\ [Tasks!Next]_(Tasks!vars)
<1>1. Workforce' = Workforce /\ AllTasks' = AllTasks /\ Workers' = Workers /\ \A w \in Workforce : TaskOf(w)' = TaskOf(w)
  BY DEF Workforce, WorkersOf, AllTasks, Workers, TaskOf
<1>2. ~Alive(p)' /\ \A w \in Workforce : w # p => (Alive(w)' <=> Alive(w))
  BY DEF Alive, DeadStage
<1>3. Todo' = Todo
  BY <1>1 DEF Todo
<1>4. \A w \in Workforce : w # p => TaskOf(w) # TaskOf(p)
  BY DEF TInv, Named
<1>5. Busy' = Busy \ {TaskOf(p)}
  <2>1. Busy' = {TaskOf(q) : q \in {w \in Workforce : Alive(w)'}}
    BY <1>1 DEF Busy
  <2>2. {w \in Workforce : Alive(w)'} = {w \in Workforce : Alive(w)} \ {p}
    BY <1>2
  <2> QED
    BY <1>4, <2>1, <2>2 DEF Busy
<1>6. Ended' = Ended \cup {TaskOf(p)}
  <2>1. Ended' = {TaskOf(q) : q \in {w \in Workforce : ~Alive(w)'}}
    BY <1>1 DEF Ended
  <2>2. {w \in Workforce : ~Alive(w)'} = {w \in Workforce : ~Alive(w)} \cup {p}
    BY <1>2
  <2> QED
    BY <2>1, <2>2 DEF Ended
<1>7. TaskMain' = TaskMain
  BY DEF TaskMain, PrologueFailed
<1>8. TaskOf(p) \in Busy /\ TaskOf(p) \in AllTasks
  BY DEF Busy, TInv, Named
<1>9. First'
  BY DEF First, TInv
<1>10. Named'
  BY <1>1 DEF Named, TInv
<1>11. Passed' = Passed
  BY <1>1 DEF Passed
<1>12. Begun'
  BY <1>1, <1>11 DEF Begun, TInv
<1> QED
  BY <1>3, <1>5, <1>6, <1>7, <1>8, <1>9, <1>10, <1>12, Ending DEF TInv

\* Some other process than the first ends.
LEMMA OtherExits ==
  ASSUME IInv, TInv, NEW p \in Proc, p # Root, Alive(p), Exit(p), UNCHANGED <<kit, maker, script, idx>>,
         Root \in abandoned' <=> Root \in abandoned
  PROVE  TInv' /\ [Tasks!Next]_(Tasks!vars)
<1>1. /\ stage' = [q \in Proc |->
                     IF q = p THEN IF parent[p] = NoProc THEN "gone" ELSE "zombie"
                     ELSE IF parent[q] = p /\ stage[q] = "zombie" THEN "gone" ELSE stage[q]]
      /\ parent' = [q \in Proc |-> IF parent[q] = p THEN NoProc ELSE parent[q]]
  BY DEF Exit
<1>2. stage'[Root] = stage[Root] /\ parent'[Root] = NoProc
  BY <1>1, ProcAssumption DEF TInv, First
<1>3. \A w \in Workforce : w # p => stage'[w] = stage[w] \/ (stage[w] = "zombie" /\ stage'[w] = "gone")
  BY <1>1 DEF Workforce, WorkersOf
<1>4. CASE p \in Workforce
  <2>1. stage'[p] \in {"zombie", "gone"}
    BY <1>1
  <2> QED
    BY <1>2, <1>3, <1>4, <2>1, WorkerEnds
<1>5. CASE p \notin Workforce
  BY <1>2, <1>3, <1>5, Aside
<1> QED
  BY <1>4, <1>5
-----------------------------------------------------------------------------
USE DEF Stage, ChunkStage, DriverStage, DeadStage

\* A script runs on in some process, or a child of one is reaped.
LEMMA ScriptTasks ==
  ASSUME IInv, TInv, NEW p \in Proc, NEW q \in Proc,
         AssertFails(p) \/ ScriptSetsArg(p) \/ ScriptForks(p, q) \/ ScriptWaits(p, q) \/ ReapChild(p, q)
  PROVE  TInv' /\ [Tasks!Next]_(Tasks!vars)
<1>1. /\ maker[Root] = NoProc /\ parent[Root] = NoProc /\ stage[Root] \notin {"unborn", "zombie"}
      /\ stage \in [Proc -> Stage] /\ parent \in [Proc -> Proc \cup {NoProc}] /\ script \in [Proc -> 0..MaxScripts] /\ idx \in [Proc -> Nat]
  BY DEF TInv, First, IInv, TypeOK
<1>2. CASE AssertFails(p) \/ ScriptSetsArg(p)
  <2>1. UNCHANGED <<kit, stage, script, idx, maker, parent, abandoned>>
    BY <1>2 DEF AssertFails, ScriptSetsArg, family
  <2> QED
    BY <1>1, <2>1, Aside
<1>3. CASE ScriptForks(p, q)
  <2>1. q # Root /\ q \notin Workforce
    BY <1>1, <1>3, ProcAssumption DEF ScriptForks, IInv, FamilyInv, Workforce, WorkersOf
  <2>2. /\ UNCHANGED <<kit, maker, abandoned>>
        /\ \A w \in Proc : w # q => stage'[w] = stage[w] /\ script'[w] = script[w] /\ idx'[w] = idx[w] /\ parent'[w] = parent[w]
    BY <1>1, <1>3 DEF ScriptForks
  <2> QED
    BY <1>1, <2>1, <2>2, ProcAssumption, Aside DEF Workforce, WorkersOf
<1>4. CASE ScriptWaits(p, q) \/ ReapChild(p, q)
  <2>1. stage[q] = "zombie" /\ stage' = [stage EXCEPT ![q] = "gone"] /\ parent' = [parent EXCEPT ![q] = NoProc]
        /\ UNCHANGED <<kit, script, idx, maker, abandoned>>
    BY <1>4 DEF ScriptWaits, ReapChild, Reaped
  <2>2. stage'[Root] = stage[Root] /\ parent'[Root] = NoProc
    BY <1>1, <2>1, ProcAssumption
  <2>3. \A w \in Workforce : stage'[w] = stage[w] \/ (stage[w] = "zombie" /\ stage'[w] = "gone")
    BY <1>1, <2>1 DEF Workforce, WorkersOf
  <2> QED
    BY <2>1, <2>2, <2>3, Aside
<1> QED
  BY <1>2, <1>3, <1>4

\* The first process is at most a driver whose workers do as LktkTasks says.  Moved
\* within the driver, it need only say where its loops are now.
LEMMA FirstMoves ==
  ASSUME IInv, TInv, UNCHANGED <<kit, maker>>, parent'[Root] = NoProc,
         \A w \in Workforce : /\ script'[w] = script[w] /\ idx'[w] = idx[w]
                              /\ stage'[w] = stage[w] \/ (stage[w] = "zombie" /\ stage'[w] = "gone"),
         stage'[Root] \notin {"unborn", "zombie", "worker"},
         stage'[Root] \in {"luainit", "library"} => kit.luainit \/ kit.library,
         Root \in abandoned' => stage'[Root] \in {"stop", "gone"},
         stage'[Root] = "fork" => idx'[Root] <= Workers,
         stage'[Root] \in {"luainit", "library", "loop", "script", "fork", "reap"} => {TaskOf(q) : q \in Workforce} = Passed',
         MainMoves
  PROVE  TInv' /\ [Tasks!Next]_(Tasks!vars)
<1>0. Workforce' = Workforce
  BY DEF Workforce, WorkersOf
<1>1. UNCHANGED <<Todo, Busy, Ended, Workforce, AllTasks, Workers>> /\ Named' /\ \A w \in Workforce : TaskOf(w)' = TaskOf(w)
  BY <1>0, WorkforceStays
<1>2. First'
  BY DEF First, TInv
<1>3. {TaskOf(q) : q \in Workforce}' = {TaskOf(q) : q \in Workforce}
  BY <1>1
<1>4. Begun'
  BY <1>1, <1>3 DEF Begun
<1> QED
  BY <1>1, <1>2, <1>4, Standing DEF TInv

\* Without a task, or before the first, there is nothing to say of them.
LEMMA NoTasks ==
  ASSUME IInv, TInv, kit.parallel = 0 \/ kit.scripts = 0
  PROVE  AllTasks = {} /\ Workforce = {} /\ Todo = {} /\ Busy = {} /\ Passed = {}
<1>1. AllTasks = {}
  BY TasksAre DEF AllTasks, Workers
<1>2. Workforce = {}
  BY <1>1 DEF TInv, Named
<1> QED
  BY <1>1, <1>2 DEF Todo, Busy, Passed

\* The first process comes to its end.
LEMMA FirstExits ==
  ASSUME IInv, TInv, Alive(Root), Exit(Root), UNCHANGED <<kit, maker, script, idx>>,
         Root \in abandoned' \/ (abandoned' = abandoned /\ stage[Root] \notin {"loop", "fork", "reap"})
  PROVE  TInv' /\ [Tasks!Next]_(Tasks!vars)
<1>1. /\ stage' = [q \in Proc |->
                     IF q = Root THEN IF parent[Root] = NoProc THEN "gone" ELSE "zombie"
                     ELSE IF parent[q] = Root /\ stage[q] = "zombie" THEN "gone" ELSE stage[q]]
      /\ parent' = [q \in Proc |-> IF parent[q] = Root THEN NoProc ELSE parent[q]]
  BY DEF Exit
<1>2. stage'[Root] = "gone" /\ parent'[Root] = NoProc
  BY <1>1, ProcAssumption DEF TInv, First
<1>3. \A w \in Workforce : stage'[w] = stage[w] \/ (stage[w] = "zombie" /\ stage'[w] = "gone")
  <2>1. \A w \in Workforce : w \in Proc /\ w # Root
    BY ProcAssumption DEF Workforce, WorkersOf, TInv, First
  <2> QED
    BY <1>1, <2>1
<1>4. MainMoves
  <2>1. CASE Root \in abandoned'
    BY <2>1 DEF MainMoves, TaskMain
  <2>2. CASE Root \notin abandoned' /\ stage[Root] \in {"repl", "stop"}
    BY <1>2, <2>2 DEF MainMoves, TaskMain, PrologueFailed
  <2>3. CASE Root \notin abandoned' /\ stage[Root] \in {"luainit", "library"}
    <3>1. script[Root] = 0 /\ (kit.luainit \/ kit.library)
      BY <2>3, ProcAssumption DEF IInv, CursorInv, TInv, First
    <3> QED
      BY <1>2, <3>1 DEF MainMoves, TaskMain, PrologueFailed
  <2>4. CASE Root \notin abandoned' /\ stage[Root] = "script"
    <3>1. Todo = {} /\ Busy = {}
      BY <2>4, NoTasks, ProcAssumption DEF IInv, ModeInv
    <3> QED
      BY <1>2, <2>4, <3>1 DEF MainMoves, TaskMain, PrologueFailed
  <2>5. stage[Root] \in Stage
    BY ProcAssumption DEF IInv, TypeOK
  <2> QED
    BY <2>1, <2>2, <2>3, <2>4, <2>5 DEF TInv, First, Alive
<1> QED
  BY <1>2, <1>3, <1>4, FirstMoves DEF TInv, First

-----------------------------------------------------------------------------
(* The steps of the first process                                          *)

\* A chunk returns in the first process.
LEMMA FirstReturns ==
  ASSUME IInv, TInv, NEW ok \in BOOLEAN, ChunkReturns(Root, ok)
  PROVE  TInv' /\ [Tasks!Next]_(Tasks!vars)
<1>1. UNCHANGED <<kit, maker, abandoned, idx>> /\ stage \in [Proc -> Stage] /\ script \in [Proc -> 0..MaxScripts] /\ Root \in Proc
  BY ProcAssumption DEF ChunkReturns, IInv, TypeOK
<1>2. \A w \in Workforce : w \in Proc /\ w # Root
  BY ProcAssumption DEF Workforce, WorkersOf, TInv, First
<1>3. parent[Root] = NoProc /\ ~WorkerReturns(Root, ok)
  BY DEF TInv, First, WorkerReturns
<1>4. CASE InitReturns(Root, ok) \/ LibraryReturns(Root, ok)
  <2>1. /\ UNCHANGED <<script, parent>> /\ stage[Root] \in {"luainit", "library"} /\ stage'[Root] \in {"library", "loop", "stop"}
        /\ \A w \in Proc : w # Root => stage'[w] = stage[w]
        /\ stage'[Root] = "library" => kit.library
    BY <1>1, <1>4 DEF InitReturns, LibraryReturns, Go
  <2>2. script[Root] = 0 /\ (kit.luainit \/ kit.library)
    BY <1>1, <2>1 DEF IInv, CursorInv, TInv, First
  <2>3. MainMoves
    BY <1>1, <2>1, <2>2 DEF MainMoves, TaskMain, PrologueFailed
  <2>4. {TaskOf(q) : q \in Workforce} = Passed /\ Passed' = Passed
    BY <1>1, <2>1 DEF TInv, Begun, Passed, AllTasks, Workers
  <2> QED
    BY <1>1, <1>2, <1>3, <2>1, <2>2, <2>3, <2>4, FirstMoves DEF TInv, First
<1>5. CASE ScriptReturns(Root, ok)
  <2>1. /\ stage[Root] = "script" /\ stage'[Root] = "loop" /\ UNCHANGED parent
        /\ \A w \in Proc : w # Root => stage'[w] = stage[w] /\ script'[w] = script[w]
    BY <1>1, <1>5 DEF ScriptReturns, Go
  <2>2. AllTasks = {} /\ Workforce = {}
    BY <1>1, <2>1, NoTasks DEF IInv, ModeInv
  <2>3. Passed' = {}
    BY <1>1, <2>2 DEF Passed, AllTasks, Workers
  <2>4. TaskMain' = TaskMain
    BY <1>1, <2>1 DEF TaskMain, PrologueFailed
  <2> QED
    BY <1>1, <1>2, <1>3, <2>1, <2>2, <2>3, <2>4, FirstMoves DEF TInv, First, MainMoves
<1>6. CASE ReplReturns(Root, ok)
  <2>1. /\ UNCHANGED <<script, parent>> /\ stage[Root] = "repl" /\ stage'[Root] \in {"repl", "stop"}
        /\ \A w \in Proc : w # Root => stage'[w] = stage[w]
    BY <1>1, <1>6 DEF ReplReturns, Go
  <2>2. MainMoves
    BY <1>1, <2>1 DEF MainMoves, TaskMain, PrologueFailed
  <2> QED
    BY <1>1, <1>2, <1>3, <2>1, <2>2, FirstMoves DEF TInv, First
<1> QED
  BY <1>3, <1>4, <1>5, <1>6 DEF ChunkReturns

\* Without workers the loop has no tasks.
LEMMA FirstRunsScripts ==
  ASSUME IInv, TInv, StartScript(Root) \/ LoadFails(Root)
  PROVE  TInv' /\ [Tasks!Next]_(Tasks!vars)
<1>1. /\ UNCHANGED <<kit, maker, parent, abandoned, idx>> /\ stage \in [Proc -> Stage] /\ script \in [Proc -> 0..MaxScripts] /\ Root \in Proc
      /\ kit.parallel = 0 /\ stage[Root] = "loop" /\ parent[Root] = NoProc
  BY ProcAssumption DEF StartScript, LoadFails, family, IInv, TypeOK, TInv, First
<1>2. AllTasks = {} /\ Workforce = {} /\ Todo = {} /\ Busy = {}
  BY <1>1, NoTasks
<1>3. stage'[Root] \in {"script", "stop", "loop"}
  BY <1>1 DEF StartScript, LoadFails, Go, Entered
<1>4. Passed' = {}
  BY <1>1, <1>2 DEF Passed, AllTasks, Workers
<1>5. MainMoves
  BY <1>1, <1>2, <1>3 DEF MainMoves, TaskMain, PrologueFailed
<1> QED
  BY <1>1, <1>2, <1>3, <1>4, <1>5, FirstMoves DEF TInv, First

\* The loops of the driver.
LEMMA FirstLoops ==
  ASSUME IInv, TInv, StartForking(Root) \/ ForksDone(Root) \/ ForkFails(Root)
  PROVE  TInv' /\ [Tasks!Next]_(Tasks!vars)
<1>1. /\ UNCHANGED <<kit, maker, parent>> /\ stage \in [Proc -> Stage] /\ script \in [Proc -> 0..MaxScripts] /\ idx \in [Proc -> Nat]
      /\ Root \in Proc /\ parent[Root] = NoProc /\ Workers \in Nat /\ script[Root] \in Nat
  BY ProcAssumption, TasksAre, SMTT(30) DEF StartForking, ForksDone, ForkFails, family, IInv, TypeOK, TInv, First
<1>2. \A w \in Workforce : w \in Proc /\ w # Root
  BY ProcAssumption DEF Workforce, WorkersOf, TInv, First
<1>3. AllTasks' = AllTasks /\ \A t \in AllTasks : t[1] \in Nat /\ t[2] \in Nat /\ t[2] < Workers
  BY <1>1, TasksAre DEF AllTasks, Workers
<1>4. CASE StartForking(Root)
  <2>1. /\ stage[Root] = "loop" /\ stage'[Root] = "fork" /\ idx'[Root] = 0 /\ script' = script /\ abandoned' = abandoned
        /\ \A w \in Proc : w # Root => stage'[w] = stage[w] /\ idx'[w] = idx[w]
    BY <1>1, <1>4 DEF StartForking, Go, family
  <2>2. Passed' = Passed
    BY <1>3, <2>1 DEF Passed
  <2>3. TaskMain' = TaskMain
    BY <2>1, <1>1 DEF TaskMain, PrologueFailed
  <2> QED
    BY <1>1, <1>2, <2>1, <2>2, <2>3, FirstMoves DEF TInv, First, Begun, MainMoves
<1>5. CASE ForksDone(Root)
  <2>1. /\ stage[Root] = "fork" /\ stage'[Root] = "loop" /\ script'[Root] = script[Root] + 1 /\ idx[Root] >= Workers
        /\ UNCHANGED <<idx, abandoned>> /\ \A w \in Proc : w # Root => stage'[w] = stage[w] /\ script'[w] = script[w]
    BY <1>1, <1>5 DEF ForksDone, Go, family
  <2>2. \A t \in AllTasks : t[1] < script[Root] + 1 <=> t[1] < script[Root] \/ (t[1] = script[Root] /\ t[2] < idx[Root])
    BY <1>1, <1>3, <2>1
  <2>3. Passed' = Passed
    BY <1>3, <2>1, <2>2 DEF Passed
  <2>4. TaskMain' = TaskMain
    BY <2>1, <1>1 DEF TaskMain, PrologueFailed
  <2> QED
    BY <1>1, <1>2, <2>1, <2>3, <2>4, FirstMoves DEF TInv, First, Begun, MainMoves
<1>6. CASE ForkFails(Root)
  <2>1. /\ stage'[Root] = "stop" /\ Root \in abandoned' /\ UNCHANGED <<script, idx>>
        /\ \A w \in Proc : w # Root => stage'[w] = stage[w]
    BY <1>1, <1>6 DEF ForkFails, Go
  <2>2. MainMoves
    BY <2>1 DEF MainMoves, TaskMain
  <2> QED
    BY <1>1, <1>2, <2>1, <2>2, FirstMoves DEF TInv, First
<1> QED
  BY <1>4, <1>5, <1>6

\* All tasks are taken up and over when the first process has passed its reap loop.
LEMMA FirstDone ==
  ASSUME IInv, TInv, ScriptsDone(Root) \/ ReapDone(Root)
  PROVE  TInv' /\ [Tasks!Next]_(Tasks!vars)
<1>1. /\ UNCHANGED <<kit, maker, parent, script, idx, abandoned>> /\ stage \in [Proc -> Stage]
      /\ Root \in Proc /\ parent[Root] = NoProc /\ kit.scripts \in Nat /\ script[Root] = kit.scripts /\ stage[Root] \in {"loop", "reap"}
  BY ProcAssumption, TasksAre DEF ScriptsDone, ReapDone, family, IInv, TypeOK, CursorInv, TInv, First
<1>2. \A w \in Workforce : w \in Proc /\ w # Root
  BY ProcAssumption DEF Workforce, WorkersOf, TInv, First
<1>3. \A w \in Proc : w # Root => stage'[w] = stage[w]
  BY <1>1 DEF ScriptsDone, ReapDone, Go
<1>4. Passed = AllTasks /\ {TaskOf(q) : q \in Workforce} = AllTasks /\ Todo = {}
  <2>1. \A t \in AllTasks : t[1] < kit.scripts
    BY <1>1 DEF AllTasks
  <2>2. Passed = AllTasks
    BY <1>1, <2>1 DEF Passed
  <2> QED
    BY <1>1, <2>2 DEF TInv, Begun, Todo
<1>5. CASE stage'[Root] = "reap"
  <2>1. Passed' = Passed
    BY <1>1, <1>4, <1>5 DEF Passed, AllTasks, Workers
  <2>2. TaskMain' = TaskMain
    BY <1>1, <1>5 DEF TaskMain, PrologueFailed
  <2> QED
    BY <1>1, <1>2, <1>3, <1>4, <1>5, <2>1, <2>2, FirstMoves DEF TInv, First, MainMoves
<1>6. CASE stage'[Root] # "reap"
  <2>1. stage'[Root] \in {"repl", "stop"}
    BY <1>1, <1>6 DEF ScriptsDone, ReapDone, Go, AfterScripts
  <2>2. Root \notin abandoned => Busy = {}
    <3>1. CASE ScriptsDone(Root)
      <4>1. kit.scripts = 0 \/ kit.parallel = 0
        BY <1>1, <1>6, <3>1 DEF ScriptsDone, Go
      <4> QED
        BY <4>1, NoTasks
    <3>2. CASE ReapDone(Root)
      <4>1. Root \notin abandoned => \A w \in Workforce : ~Alive(w)
        BY <1>2, <3>2, ProcAssumption DEF ReapDone, Children, IInv, FamilyInv, Workforce, WorkersOf, Alive
      <4> QED
        BY <4>1 DEF Busy
    <3> QED
      BY <3>1, <3>2
  <2>3. MainMoves
    BY <1>1, <1>4, <2>1, <2>2 DEF MainMoves, TaskMain, PrologueFailed
  <2> QED
    BY <1>1, <1>2, <1>3, <2>1, <2>3, FirstMoves DEF TInv, First
<1> QED
  BY <1>5, <1>6

\* The fork loop: the next task, which the loop had not passed, is taken up.
LEMMA FirstForks ==
  ASSUME IInv, TInv, NEW q \in Proc, ForkWorker(Root, q)
  PROVE  TInv' /\ [Tasks!Next]_(Tasks!vars)
<1> DEFINE t == <<script[Root], idx[Root]>>
<1>1. /\ UNCHANGED <<kit, abandoned>> /\ stage[Root] = "fork" /\ idx[Root] < Workers /\ stage[q] = "unborn" /\ q # Root
      /\ stage' = [stage EXCEPT ![q] = Entered(Root, "worker")]
      /\ script' = [script EXCEPT ![q] = script[Root]]
      /\ idx' = [idx EXCEPT ![q] = idx[Root], ![Root] = @ + 1]
      /\ parent' = [parent EXCEPT ![q] = Root]
      /\ maker' = [maker EXCEPT ![q] = Root]
  BY DEF ForkWorker
<1>2. /\ stage \in [Proc -> Stage] /\ script \in [Proc -> 0..MaxScripts] /\ idx \in [Proc -> Nat] /\ Root \in Proc
      /\ parent \in [Proc -> Proc \cup {NoProc}] /\ maker \in [Proc -> Proc \cup {NoProc}] /\ maker[q] = NoProc
      /\ script[Root] < kit.scripts /\ kit.scripts \in Nat /\ Workers \in Nat /\ script[Root] \in Nat /\ NoProc # Root
  <2>1. /\ stage \in [Proc -> Stage] /\ script \in [Proc -> 0..MaxScripts] /\ idx \in [Proc -> Nat]
        /\ parent \in [Proc -> Proc \cup {NoProc}] /\ maker \in [Proc -> Proc \cup {NoProc}]
    BY DEF IInv, TypeOK
  <2>2. Root \in Proc /\ NoProc # Root /\ kit.scripts \in Nat /\ Workers \in Nat /\ MaxScripts \in Nat
    BY ProcAssumption, TasksAre
  <2>3. maker[q] = NoProc /\ script[Root] < kit.scripts
    BY <1>1, <2>2 DEF IInv, FamilyInv, CursorInv
  <2>4. script[Root] \in Nat
    BY <2>1, <2>2
  <2> QED
    BY <2>1, <2>2, <2>3, <2>4
<1>3. AllTasks' = AllTasks /\ Workers' = Workers /\ Workforce' = Workforce \cup {q} /\ q \notin Workforce
  BY <1>1, <1>2 DEF AllTasks, Workers, Workforce, WorkersOf
<1>4. \A w \in Workforce : w \in Proc /\ w # Root /\ w # q
  BY <1>2, <1>3 DEF Workforce, WorkersOf, TInv, First
<1>5. t \in AllTasks /\ t \notin Passed
  BY <1>1, <1>2 DEF AllTasks, Passed
<1>6. t \notin {TaskOf(w) : w \in Workforce}
  BY <1>1, <1>5 DEF TInv, Begun
<1>7. TaskOf(q)' = t /\ \A w \in Workforce : TaskOf(w)' = TaskOf(w) /\ stage'[w] = stage[w]
  BY <1>1, <1>2, <1>4 DEF TaskOf
<1>8. stage'[q] \in {"worker", "stop"} /\ stage'[Root] = "fork" /\ script'[Root] = script[Root] /\ idx'[Root] = idx[Root] + 1
      /\ maker'[Root] = maker[Root] /\ parent'[Root] = parent[Root]
  BY <1>1, <1>2 DEF Entered
<1>9. {TaskOf(w) : w \in Workforce}' = {TaskOf(w) : w \in Workforce} \cup {t}
  BY <1>3, <1>7
<1>10. Todo' = Todo \ {t}
  BY <1>3, <1>9 DEF Todo
<1>11. Busy' = Busy \cup {t}
  <2>1. {w \in Workforce : Alive(w)}' = {w \in Workforce : Alive(w)} \cup {q}
    BY <1>3, <1>7, <1>8 DEF Alive
  <2> QED
    BY <2>1, <1>7 DEF Busy
<1>12. Ended' = Ended
  <2>1. {w \in Workforce : ~Alive(w)}' = {w \in Workforce : ~Alive(w)}
    BY <1>3, <1>7, <1>8 DEF Alive
  <2> QED
    BY <2>1, <1>7 DEF Ended
<1>13. TaskMain' = TaskMain
  BY <1>1, <1>8 DEF TaskMain, PrologueFailed
<1>14. First'
  BY <1>1, <1>8 DEF First, TInv
<1>15. Named'
  <2>1. \A w \in Workforce' : stage'[w] \in {"worker", "stop", "zombie", "gone"} /\ TaskOf(w)' \in AllTasks'
    BY <1>3, <1>5, <1>7, <1>8 DEF TInv, Named
  <2>2. ASSUME NEW v \in Workforce', NEW w \in Workforce', TaskOf(v)' = TaskOf(w)' PROVE v = w
    <3>1. CASE v \in Workforce /\ w \in Workforce
      BY <1>7, <2>2, <3>1 DEF TInv, Named
    <3>2. CASE v = q \/ w = q
      BY <1>3, <1>6, <1>7, <2>2, <3>2
    <3> QED
      BY <1>3, <3>1, <3>2
  <2> QED
    BY <2>1, <2>2 DEF Named
<1>16. Passed' = Passed \cup {t}
  <2>1. \A u \in AllTasks : u[1] \in Nat /\ u[2] \in Nat /\ u = <<u[1], u[2]>>
    BY <1>2 DEF AllTasks
  <2>2. \A u \in AllTasks : u[1] = script[Root] /\ u[2] < idx[Root] + 1 <=> (u[1] = script[Root] /\ u[2] < idx[Root]) \/ u = t
    BY <1>2, <2>1
  <2>3. Passed' = {u \in AllTasks : u[1] < script[Root] \/ (u[1] = script[Root] /\ u[2] < idx[Root] + 1)}
    BY <1>3, <1>8 DEF Passed
  <2> QED
    BY <1>1, <1>5, <2>2, <2>3 DEF Passed
<1>17. Begun'
  <2>1. idx'[Root] <= Workers'
    BY <1>1, <1>2, <1>3, <1>8
  <2> QED
    BY <1>1, <1>9, <1>16, <2>1 DEF Begun, TInv
<1>18. TaskMain = "working"
  BY <1>1 DEF TaskMain, PrologueFailed, TInv, First
<1> QED
  BY <1>5, <1>6, <1>10, <1>11, <1>12, <1>13, <1>14, <1>15, <1>17, <1>18, Starting DEF TInv, Todo

-----------------------------------------------------------------------------
\* Other processes than the first in their loops, on their own account.
LEMMA OtherDrives ==
  ASSUME IInv, TInv, NEW p \in Proc, p # Root, NEW q \in Proc,
         \/ StartScript(p) \/ LoadFails(p) \/ StartForking(p) \/ ForkFails(p) \/ ForksDone(p)
         \/ ScriptsDone(p) \/ ReapDone(p) \/ ForkWorker(p, q)
  PROVE  TInv' /\ [Tasks!Next]_(Tasks!vars)
<1>1. /\ stage \in [Proc -> Stage] /\ script \in [Proc -> 0..MaxScripts] /\ idx \in [Proc -> Nat] /\ Root \in Proc
      /\ parent \in [Proc -> Proc \cup {NoProc}] /\ maker \in [Proc -> Proc \cup {NoProc}] /\ parent[Root] = NoProc
      /\ stage[Root] # "unborn" /\ maker[Root] = NoProc
  BY ProcAssumption DEF IInv, TypeOK, TInv, First
<1>2. stage[p] \in {"loop", "fork", "reap"} /\ kit' = kit /\ (Root \in abandoned' <=> Root \in abandoned)
  BY DEF StartScript, LoadFails, StartForking, ForkFails, ForksDone, ScriptsDone, ReapDone, ForkWorker, family
<1>3. p \notin Workforce
  BY <1>2 DEF TInv, Named
<1>4. CASE ~ForkWorker(p, q)
  <2>1. UNCHANGED <<maker, parent>> /\ \A w \in Proc : w # p => stage'[w] = stage[w] /\ script'[w] = script[w] /\ idx'[w] = idx[w]
    BY <1>1, <1>4 DEF StartScript, LoadFails, StartForking, ForkFails, ForksDone, ScriptsDone, ReapDone, Go, family
  <2> QED
    BY <1>1, <1>2, <1>3, <2>1, Aside DEF Workforce, WorkersOf
<1>5. CASE ForkWorker(p, q)
  <2>1. /\ stage[q] = "unborn" /\ maker' = [maker EXCEPT ![q] = p] /\ parent' = [parent EXCEPT ![q] = p]
        /\ stage' = [stage EXCEPT ![q] = Entered(p, "worker")]
        /\ script' = [script EXCEPT ![q] = script[p]]
        /\ idx' = [idx EXCEPT ![q] = idx[p], ![p] = @ + 1]
    BY <1>5 DEF ForkWorker
  <2>2. q # Root /\ maker[q] = NoProc
    BY <1>1, <2>1 DEF IInv, FamilyInv
  <2>3. Workforce' = Workforce /\ q \notin Workforce
    BY <1>1, <2>1, <2>2, ProcAssumption DEF Workforce, WorkersOf
  <2>4. \A w \in Proc : w # p /\ w # q => stage'[w] = stage[w] /\ script'[w] = script[w] /\ idx'[w] = idx[w] /\ parent'[w] = parent[w] /\ maker'[w] = maker[w]
    BY <1>1, <2>1
  <2> QED
    BY <1>1, <1>2, <1>3, <2>2, <2>3, <2>4, FarAside DEF Workforce, WorkersOf
<1> QED
  BY <1>4, <1>5

\* A chunk returns in another process: only if it was a worker does it end.
LEMMA OtherReturns ==
  ASSUME IInv, TInv, NEW p \in Proc, p # Root, NEW ok \in BOOLEAN, ChunkReturns(p, ok)
  PROVE  TInv' /\ [Tasks!Next]_(Tasks!vars)
<1>1. UNCHANGED <<kit, maker, abandoned, idx>> /\ stage \in [Proc -> Stage] /\ script \in [Proc -> 0..MaxScripts] /\ Root \in Proc /\ parent[Root] = NoProc
  BY ProcAssumption DEF ChunkReturns, IInv, TypeOK, TInv, First
<1>2. CASE WorkerReturns(p, ok)
  <2>1. Exit(p) /\ script' = script /\ Alive(p)
    BY <1>2 DEF WorkerReturns, Alive
  <2> QED
    BY <1>1, <2>1, OtherExits
<1>3. CASE InitReturns(p, ok) \/ LibraryReturns(p, ok) \/ ScriptReturns(p, ok) \/ ReplReturns(p, ok)
  <2>1. stage[p] \in {"luainit", "library", "script", "repl"} /\ parent' = parent
        /\ \A w \in Proc : w # p => stage'[w] = stage[w] /\ script'[w] = script[w]
    BY <1>1, <1>3 DEF InitReturns, LibraryReturns, ScriptReturns, ReplReturns, Go
  <2>2. p \notin Workforce
    BY <2>1 DEF TInv, Named
  <2> QED
    BY <1>1, <2>1, <2>2, Aside DEF Workforce, WorkersOf
<1> QED
  BY <1>2, <1>3 DEF ChunkReturns

LEMMA NextTasks == IInv /\ TInv /\ [Next]_vars => TInv' /\ [Tasks!Next]_(Tasks!vars)
<1> SUFFICES ASSUME IInv, TInv, [Next]_vars PROVE TInv' /\ [Tasks!Next]_(Tasks!vars)
  OBVIOUS
<1>1. parent[Root] = NoProc /\ stage[Root] \notin {"unborn", "zombie", "worker"} /\ Root \in Proc
  BY ProcAssumption DEF TInv, First
<1>2. CASE UNCHANGED vars
  BY <1>1, <1>2, Aside DEF vars
<1>3. ASSUME NEW p \in Proc, ChunkEnds(p) \/ AssertAborts(p) PROVE TInv' /\ [Tasks!Next]_(Tasks!vars)
  <2>1. PICK ok \in BOOLEAN : ChunkReturns(p, ok)
    BY <1>3 DEF ChunkEnds, AssertAborts
  <2> QED
    BY <2>1, FirstReturns, OtherReturns
<1>4. ASSUME NEW p \in Proc, ScriptExits(p) \/ Stop(p) \/ Killed(p) PROVE TInv' /\ [Tasks!Next]_(Tasks!vars)
  <2>1. Exit(p) /\ Alive(p) /\ UNCHANGED <<kit, script, idx, maker>> /\ abandoned' \in {abandoned, abandoned \cup {p}}
    BY <1>4 DEF ScriptExits, Stop, Killed, Running, Alive
  <2>2. CASE p # Root
    BY <2>1, <2>2, OtherExits
  <2>3. CASE p = Root
    <3>1. Root \in abandoned' \/ (abandoned' = abandoned /\ stage[Root] \notin {"loop", "fork", "reap"})
      BY <1>4, <2>3 DEF ScriptExits, Stop, Killed, Running
    <3> QED
      BY <2>1, <2>3, <3>1, FirstExits
  <2> QED
    BY <2>2, <2>3
<1>5. ASSUME NEW p \in Proc, AssertFails(p) \/ ScriptSetsArg(p) \/ \E q \in Proc : ScriptForks(p, q) \/ ScriptWaits(p, q) \/ ReapChild(p, q)
      PROVE  TInv' /\ [Tasks!Next]_(Tasks!vars)
  BY <1>5, ScriptTasks
<1>6. ASSUME NEW p \in Proc, \/ StartScript(p) \/ LoadFails(p) \/ StartForking(p) \/ ForkFails(p) \/ ForksDone(p)
                             \/ ScriptsDone(p) \/ ReapDone(p) \/ \E q \in Proc : ForkWorker(p, q)
      PROVE  TInv' /\ [Tasks!Next]_(Tasks!vars)
  <2>1. CASE p # Root
    BY <1>6, <2>1, OtherDrives
  <2>2. CASE p = Root
    BY <1>6, <2>2, FirstRunsScripts, FirstLoops, FirstDone, FirstForks
  <2> QED
    BY <2>1, <2>2
<1> QED
  BY <1>2, <1>3, <1>4, <1>5, <1>6 DEF Next, AllGone, ScriptStep, DriverStep

LEMMA InitTasks == Init => Tasks!Init
<1> SUFFICES ASSUME Init PROVE Tasks!Init
  OBVIOUS
<1>1. IInv
  BY InitIInv
<1>2. WorkersOf(Root) = {}
  BY ProcAssumption DEF Init, WorkersOf
<1>3. AllTasks \in SUBSET ((0..MaxScripts - 1) \X (0..MaxWorkers - 1))
  BY <1>1, TasksAre
<1>4. TaskMain = "working"
  BY ProcAssumption DEF Init, FirstStage, TaskMain, PrologueFailed
<1> QED
  BY <1>2, <1>3, <1>4 DEF Tasks!Init

(***************************************************************************)
(* The harness, with its forks, kills, falls through and orphans, does for *)
(* the scripts of the command line what the pool of LktkTasks does.        *)
(***************************************************************************)
THEOREM HarnessImplementsTasks == Spec => ImplementsTasks
  BY InitTasks, InitTInv, NextTasks, AlwaysIInv, PTL DEF Spec, ImplementsTasks, Tasks!Spec
=============================================================================
