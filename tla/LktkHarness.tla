---------------------------- MODULE LktkHarness ----------------------------
(***************************************************************************)
(* The script harness of kit/lktk.c: what pmain does once the command line *)
(* is parsed.  It runs the LUA_INIT chunk, the preloaded library and then  *)
(* every script of the command line, either in the process itself or, with *)
(* --process n, in n forked workers per script that it reaps at the end.   *)
(*                                                                         *)
(* Every operating-system process that descends from the first one has an  *)
(* instruction pointer here: fork() duplicates the whole program, so a     *)
(* child forked by the harness or by a script goes on from where its       *)
(* parent stood, with a copy of its variables.                             *)
(***************************************************************************)
EXTENDS Integers, FiniteSets, LktkAssert

CONSTANTS
  Proc,         \* process identities; those not yet forked are "unborn"
  Root,         \* the process started from the shell
  NoProc,       \* no process; as a parent, the system's init
  Kits,         \* the settings parse_cmdline may leave behind
  MaxScripts,   \* bound on the scripts of a command line
  AssertCalls,  \* the assertion calls scripts make: records [fn, args]
  ArgValues,    \* what scripts may leave in the global arg: is it a table?
  MaxFailures,  \* bound on the assertion failures of one process
  MaxForks      \* bound on the forks done by scripts themselves

KitType == [parallel : Int, strict : {-1, 0, 1}, scripts : 0..MaxScripts,
            luainit : BOOLEAN, library : BOOLEAN, interactive : BOOLEAN]

ASSUME ProcAssumption == Root \in Proc /\ NoProc \notin Proc
ASSUME KitsAssumption == Kits \subseteq KitType
ASSUME ArgAssumption == ArgValues \subseteq BOOLEAN
ASSUME BoundAssumption == MaxScripts \in Nat /\ MaxFailures \in Nat /\ MaxForks \in Nat

VARIABLES
  kit,       \* the settings, fixed before the first fork
  stage,     \* where each process stands in main and pmain
  script,    \* cur_script: how many scripts the process has gone through
  idx,       \* i: how many workers it has forked for the current script
  failures,  \* kit.failures
  own,       \* the failures since the current handle_script began (history)
  arg,       \* whether the global arg is still a table
  parent,    \* the process that would reap it
  maker,     \* the process that forked it as a worker (history)
  abandoned, \* processes that left without reaping: killed, or fork failed (history)
  started,   \* how often handle_script was entered for each script (history)
  forks      \* how often a script itself forked (history)

family == <<parent, maker, abandoned>>
vars == <<kit, stage, script, idx, failures, own, arg, parent, maker, abandoned, started, forks>>

\* Stages in which a Lua chunk is running under docall.
ChunkStage == {"luainit", "library", "script", "worker", "repl"}
DriverStage == {"loop", "fork", "reap", "stop"}
DeadStage == {"unborn", "zombie", "gone"}
Stage == ChunkStage \cup DriverStage \cup DeadStage

Alive(p) == stage[p] \notin DeadStage
Running(p) == stage[p] \in ChunkStage
Children(p) == {q \in Proc : parent[q] = p /\ stage[q] \notin {"unborn", "gone"}}

\* How many workers the for loop forks per script.  The loop is entered for
\* every value of --process but 0; a negative one leaves it at once.
Workers == IF kit.parallel > 0 THEN kit.parallel ELSE 0

Go(p, s) == stage' = [stage EXCEPT ![p] = s]

AfterScripts == IF kit.interactive \/ kit.scripts = 0 THEN "repl" ELSE "stop"

FirstStage(k) ==
  IF k.luainit THEN "luainit" ELSE IF k.library THEN "library" ELSE "loop"

Init ==
  /\ kit \in Kits
  /\ stage = [p \in Proc |-> IF p = Root THEN FirstStage(kit) ELSE "unborn"]
  /\ script = [p \in Proc |-> 0]
  /\ idx = [p \in Proc |-> 0]
  /\ failures = [p \in Proc |-> 0]
  /\ own = [p \in Proc |-> 0]
  /\ arg = [p \in Proc |-> TRUE]
  /\ parent = [p \in Proc |-> NoProc]
  /\ maker = [p \in Proc |-> NoProc]
  /\ abandoned = {}
  /\ started = [k \in 1..MaxScripts |-> 0]
  /\ forks = 0

-----------------------------------------------------------------------------
(* Processes                                                               *)

\* p ends.  Its children become init's, which reaps those already ended; p
\* itself waits for its parent, unless that is init or the shell.
Exit(p) ==
  /\ stage' = [q \in Proc |->
                 IF q = p THEN IF parent[p] = NoProc THEN "gone" ELSE "zombie"
                 ELSE IF parent[q] = p /\ stage[q] = "zombie" THEN "gone" ELSE stage[q]]
  /\ parent' = [q \in Proc |-> IF parent[q] = p THEN NoProc ELSE parent[q]]

\* waitpid(-1) in p returns the ended child q.
Reaped(p, q) ==
  /\ q \in Children(p) /\ stage[q] = "zombie"
  /\ stage' = [stage EXCEPT ![q] = "gone"]
  /\ parent' = [parent EXCEPT ![q] = NoProc]

-----------------------------------------------------------------------------
(* docall returning: what the code that ran the chunk does with its status *)

InitReturns(p, ok) ==
  /\ stage[p] = "luainit"
  /\ Go(p, IF ~ok THEN "stop" ELSE IF kit.library THEN "library" ELSE "loop")
  /\ UNCHANGED <<script, parent>>

LibraryReturns(p, ok) ==
  /\ stage[p] = "library"
  /\ Go(p, IF ok THEN "loop" ELSE "stop")
  /\ UNCHANGED <<script, parent>>

\* Faulty: a script that failed is tried again.
ScriptRetries(p, ok) ==
  /\ stage[p] = "script"
  /\ Go(p, "loop")
  /\ script' = [script EXCEPT ![p] = IF ok THEN @ + 1 ELSE @]
  /\ UNCHANGED parent

\* The status of a script is reported and otherwise ignored.
ScriptReturns(p, ok) ==
  /\ stage[p] = "script"
  /\ Go(p, "loop")
  /\ script' = [script EXCEPT ![p] = @ + 1]
  /\ UNCHANGED parent

\* Faulty: no return after the script, the worker is in the fork loop itself.
WorkerFallsThrough(p, ok) ==
  /\ stage[p] = "worker"
  /\ Go(p, "fork")
  /\ UNCHANGED <<script, parent>>

WorkerReturns(p, ok) ==
  /\ stage[p] = "worker"
  /\ Exit(p)
  /\ UNCHANGED script

\* A line that fails leaves the prompt where it was; end of input ends it.
\* Only a chunk read from a standard input that is no terminal can fail and end.
ReplReturns(p, ok) ==
  /\ stage[p] = "repl"
  /\ \/ Go(p, "stop")
     \/ ~ok /\ UNCHANGED stage
  /\ UNCHANGED <<script, parent>>

ChunkReturns(p, ok) ==
  /\ \/ InitReturns(p, ok)
     \/ LibraryReturns(p, ok)
     \/ ScriptReturns(p, ok)
     \/ WorkerReturns(p, ok)
     \/ ReplReturns(p, ok)
  /\ UNCHANGED <<kit, idx, arg, maker, abandoned, started, forks>>

ChunkEnds(p) ==
  /\ \E ok \in BOOLEAN : ChunkReturns(p, ok)
  /\ UNCHANGED <<failures, own>>

-----------------------------------------------------------------------------
(* What a running chunk may do                                             *)

\* One assertion fails and is counted.
CountFailure(p) ==
  /\ Running(p)
  /\ failures[p] < MaxFailures
  /\ failures' = [failures EXCEPT ![p] = @ + 1]
  /\ own' = [own EXCEPT ![p] = @ + 1]

\* The failure raises no error, or a pcall of the script itself catches it.
AssertFails(p) ==
  /\ \E c \in AssertCalls : Counts(kit.strict, c.fn, c.args)
  /\ CountFailure(p)
  /\ UNCHANGED <<kit, stage, script, idx, arg, family, started, forks>>

\* The failure raises an error that reaches docall.
AssertAborts(p) ==
  /\ \E c \in AssertCalls : Raises(kit.strict, c.fn, c.args)
  /\ CountFailure(p)
  /\ ChunkReturns(p, FALSE)

\* The script calls fork(): the child goes on in the same chunk.
ScriptForks(p, q) ==
  /\ Running(p)
  /\ forks < MaxForks
  /\ stage[q] = "unborn"
  /\ stage' = [stage EXCEPT ![q] = stage[p]]
  /\ script' = [script EXCEPT ![q] = script[p]]
  /\ idx' = [idx EXCEPT ![q] = idx[p]]
  /\ failures' = [failures EXCEPT ![q] = failures[p]]
  /\ own' = [own EXCEPT ![q] = own[p]]
  /\ arg' = [arg EXCEPT ![q] = arg[p]]
  /\ parent' = [parent EXCEPT ![q] = p]
  /\ forks' = forks + 1
  /\ UNCHANGED <<kit, maker, abandoned, started>>

\* The script calls wait() and gets an ended child.
ScriptWaits(p, q) ==
  /\ Running(p)
  /\ Reaped(p, q)
  /\ UNCHANGED <<kit, script, idx, failures, own, arg, maker, abandoned, started, forks>>

\* The script assigns to the global arg.
ScriptSetsArg(p) ==
  /\ Running(p)
  /\ \E isTable \in ArgValues : arg' = [arg EXCEPT ![p] = isTable]
  /\ UNCHANGED <<kit, stage, script, idx, failures, own, family, started, forks>>

\* The script calls os.exit().
ScriptExits(p) ==
  /\ Running(p)
  /\ Exit(p)
  /\ UNCHANGED <<kit, script, idx, failures, own, arg, maker, abandoned, started, forks>>

-----------------------------------------------------------------------------
(* The driver: the loop over the scripts, the fork loop, the reap loop     *)

\* Where handle_script takes a process.  If the global arg is no table, pushargs
\* raises an error outside docall: pmain is over, and main goes on to stop().
Entered(p, s) == IF arg[p] THEN s ELSE "stop"

\* Faulty: the loop runs for cur_script <= nscripts.
StartOneTooMany(p) ==
  /\ stage[p] = "loop" /\ script[p] <= kit.scripts /\ kit.parallel = 0
  /\ Go(p, Entered(p, "script"))
  /\ own' = [own EXCEPT ![p] = 0]
  /\ started' = [started EXCEPT ![script[p] + 1] = @ + 1]
  /\ UNCHANGED <<kit, script, idx, failures, arg, family, forks>>

\* Faulty: the process runs scripts itself though there are to be workers.
StartInAnyMode(p) ==
  /\ stage[p] = "loop" /\ script[p] < kit.scripts
  /\ Go(p, Entered(p, "script"))
  /\ own' = [own EXCEPT ![p] = 0]
  /\ started' = [started EXCEPT ![script[p] + 1] = @ + 1]
  /\ UNCHANGED <<kit, script, idx, failures, arg, family, forks>>

StartScript(p) ==
  /\ stage[p] = "loop" /\ script[p] < kit.scripts /\ kit.parallel = 0
  /\ Go(p, Entered(p, "script"))
  /\ own' = [own EXCEPT ![p] = 0]
  /\ started' = [started EXCEPT ![script[p] + 1] = @ + 1]
  /\ UNCHANGED <<kit, script, idx, failures, arg, family, forks>>

\* luaL_loadfile fails: the error is reported and the next script is due.
LoadFails(p) ==
  /\ stage[p] = "loop" /\ script[p] < kit.scripts /\ kit.parallel = 0
  /\ script' = [script EXCEPT ![p] = @ + 1]
  /\ own' = [own EXCEPT ![p] = 0]
  /\ started' = [started EXCEPT ![script[p] + 1] = @ + 1]
  /\ UNCHANGED <<kit, stage, idx, failures, arg, family, forks>>

StartForking(p) ==
  /\ stage[p] = "loop" /\ script[p] < kit.scripts /\ kit.parallel # 0
  /\ Go(p, "fork")
  /\ idx' = [idx EXCEPT ![p] = 0]
  /\ UNCHANGED <<kit, script, failures, own, arg, family, started, forks>>

\* Faulty: the loop runs for i <= kit.parallel.
ForkOneTooMany(p, q) ==
  /\ stage[p] = "fork" /\ idx[p] <= Workers
  /\ stage[q] = "unborn"
  /\ stage' = [stage EXCEPT ![q] = Entered(p, "worker")]
  /\ script' = [script EXCEPT ![q] = script[p]]
  /\ idx' = [idx EXCEPT ![q] = idx[p], ![p] = @ + 1]
  /\ failures' = [failures EXCEPT ![q] = failures[p]]
  /\ own' = [own EXCEPT ![q] = 0]
  /\ arg' = [arg EXCEPT ![q] = arg[p]]
  /\ parent' = [parent EXCEPT ![q] = p]
  /\ maker' = [maker EXCEPT ![q] = p]
  /\ started' = [started EXCEPT ![script[p] + 1] = @ + 1]
  /\ UNCHANGED <<kit, abandoned, forks>>

ForkWorker(p, q) ==
  /\ stage[p] = "fork" /\ idx[p] < Workers
  /\ stage[q] = "unborn"
  /\ stage' = [stage EXCEPT ![q] = Entered(p, "worker")]
  /\ script' = [script EXCEPT ![q] = script[p]]
  /\ idx' = [idx EXCEPT ![q] = idx[p], ![p] = @ + 1]
  /\ failures' = [failures EXCEPT ![q] = failures[p]]
  /\ own' = [own EXCEPT ![q] = 0]
  /\ arg' = [arg EXCEPT ![q] = arg[p]]
  /\ parent' = [parent EXCEPT ![q] = p]
  /\ maker' = [maker EXCEPT ![q] = p]
  /\ started' = [started EXCEPT ![script[p] + 1] = @ + 1]
  /\ UNCHANGED <<kit, abandoned, forks>>

\* fork() fails: pmain returns at once, leaving the workers it has.
ForkFails(p) ==
  /\ stage[p] = "fork" /\ idx[p] < Workers
  /\ Go(p, "stop")
  /\ abandoned' = abandoned \cup {p}
  /\ UNCHANGED <<kit, script, idx, failures, own, arg, parent, maker, started, forks>>

ForksDone(p) ==
  /\ stage[p] = "fork" /\ idx[p] >= Workers
  /\ Go(p, "loop")
  /\ script' = [script EXCEPT ![p] = @ + 1]
  /\ UNCHANGED <<kit, idx, failures, own, arg, family, started, forks>>

\* Faulty: a single worker is not waited for.
ReapForManyOnly(p) ==
  /\ stage[p] = "loop" /\ script[p] >= kit.scripts
  /\ Go(p, IF kit.scripts > 0 /\ kit.parallel > 1 THEN "reap" ELSE AfterScripts)
  /\ UNCHANGED <<kit, script, idx, failures, own, arg, family, started, forks>>

\* With no script on the command line the reap loop is not even reached.
ScriptsDone(p) ==
  /\ stage[p] = "loop" /\ script[p] >= kit.scripts
  /\ Go(p, IF kit.scripts > 0 /\ kit.parallel # 0 THEN "reap" ELSE AfterScripts)
  /\ UNCHANGED <<kit, script, idx, failures, own, arg, family, started, forks>>

\* Faulty: only what the fork loop forked is waited for.
ReapWorkersOnly(p, q) ==
  /\ stage[p] = "reap" /\ maker[q] = p
  /\ Reaped(p, q)
  /\ UNCHANGED <<kit, script, idx, failures, own, arg, maker, abandoned, started, forks>>

\* Faulty: only the worker forked last is waited for.
ReapLastOnly(p, q) ==
  /\ stage[p] = "reap" /\ maker[q] = p /\ idx[q] = idx[p] - 1
  /\ Reaped(p, q)
  /\ UNCHANGED <<kit, script, idx, failures, own, arg, maker, abandoned, started, forks>>

ReapChild(p, q) ==
  /\ stage[p] = "reap"
  /\ Reaped(p, q)
  /\ UNCHANGED <<kit, script, idx, failures, own, arg, maker, abandoned, started, forks>>

\* Faulty: any failure of waitpid ends the loop.
ReapGivesUp(p) ==
  /\ stage[p] = "reap"
  /\ Go(p, AfterScripts)
  /\ UNCHANGED <<kit, script, idx, failures, own, arg, family, started, forks>>

\* waitpid fails: there is no child left.
ReapDone(p) ==
  /\ stage[p] = "reap" /\ Children(p) = {}
  /\ Go(p, AfterScripts)
  /\ UNCHANGED <<kit, script, idx, failures, own, arg, family, started, forks>>

\* stop() closes the state and main returns.
Stop(p) ==
  /\ stage[p] = "stop"
  /\ Exit(p)
  /\ UNCHANGED <<kit, script, idx, failures, own, arg, maker, abandoned, started, forks>>

\* A signal kills the process wherever it is.
Killed(p) ==
  /\ Alive(p)
  /\ Exit(p)
  /\ abandoned' = abandoned \cup {p}
  /\ UNCHANGED <<kit, script, idx, failures, own, arg, maker, started, forks>>

\* Everybody has ended and been reaped.
AllGone ==
  /\ \A p \in Proc : stage[p] \in {"unborn", "gone"}
  /\ UNCHANGED vars

-----------------------------------------------------------------------------
ScriptStep(p) ==
  \/ AssertFails(p) \/ AssertAborts(p) \/ ScriptExits(p) \/ ScriptSetsArg(p)
  \/ \E q \in Proc : ScriptForks(p, q) \/ ScriptWaits(p, q)

DriverStep(p) ==
  \/ StartScript(p) \/ LoadFails(p) \/ StartForking(p) \/ ForkFails(p) \/ ForksDone(p)
  \/ ScriptsDone(p) \/ ReapDone(p) \/ Stop(p)
  \/ \E q \in Proc : ForkWorker(p, q) \/ ReapChild(p, q)

Next ==
  \/ \E p \in Proc : ChunkEnds(p) \/ ScriptStep(p) \/ DriverStep(p) \/ Killed(p)
  \/ AllGone

\* A process that can take a step of the driver takes one, and every chunk
\* comes to an end: the harness has no time limit of its own.
Fairness == \A p \in Proc : WF_vars(DriverStep(p)) /\ WF_vars(ChunkEnds(p))

Spec == Init /\ [][Next]_vars
FairSpec == Spec /\ Fairness

-----------------------------------------------------------------------------
(* Properties                                                              *)

TypeOK ==
  /\ kit \in Kits
  /\ stage \in [Proc -> Stage]
  /\ script \in [Proc -> 0..MaxScripts]
  /\ idx \in [Proc -> Nat]
  /\ failures \in [Proc -> 0..MaxFailures]
  /\ own \in [Proc -> 0..MaxFailures]
  /\ arg \in [Proc -> BOOLEAN]
  /\ parent \in [Proc -> Proc \cup {NoProc}]
  /\ maker \in [Proc -> Proc \cup {NoProc}]
  /\ abandoned \subseteq Proc
  /\ started \in [1..MaxScripts -> Nat]
  /\ forks \in 0..MaxForks

\* A worker that still runs, or that nobody has reaped, has lost its maker only
\* if the maker was killed or could not fork the next worker: the reap loop lets
\* nobody through while it has a child.
NoOrphanWorker ==
  \A q \in Proc : maker[q] # NoProc /\ Alive(q) /\ parent[q] = NoProc
                    => maker[q] \in abandoned

\* The scripts being over and the workers reaped, pmain leaves no child behind.
NothingLeftBehind ==
  \A p \in Proc :
    (/\ stage[p] = "stop" /\ script[p] = kit.scripts /\ kit.scripts > 0
     /\ kit.parallel # 0 /\ ~kit.interactive)
    => Children(p) = {}

\* With --process n every script is entered n times by the time the reap loop is
\* reached, whatever the scripts fork: a worker, and whatever it forked, exits
\* when its script is over and never goes on to the next one.
EachScriptRunsPerWorker ==
  \A p \in Proc : stage[p] = "reap" /\ ~kit.luainit /\ ~kit.library
                    => \A k \in 1..kit.scripts : started[k] = Workers

\* Without workers a script is entered once, plus at most once per process that a
\* script forked and that fell through to the harness's loop.
ReentryNeedsFork ==
  kit.parallel = 0 => \A k \in 1..MaxScripts : started[k] <= 1 + forks

\* Whatever process runs as a worker, it reports the failures of its own script
\* alone, unless LUA_INIT or the library failed assertions before the fork.
WorkerCountsOwnScript ==
  \A p \in Proc : stage[p] = "worker" /\ ~kit.luainit /\ ~kit.library
                    => failures[p] = own[p]

\* "Execute all the scripts": pmain comes to stop() by itself only when it has gone
\* through all of them, unless a fork failed.
AllScriptsTried ==
  stage[Root] = "stop" /\ Root \notin abandoned /\ ~kit.luainit /\ ~kit.library
    => script[Root] = kit.scripts

\* If chunks end, the harness ends: the reap loop waits for no one who waits for it.
RootEnds == <>(stage[Root] = "gone")

\* A worker once forked is eventually reaped, by its maker or by init.
EveryWorkerReaped == \A q \in Proc : stage[q] = "worker" ~> stage[q] = "gone"

=============================================================================
