----------------------------- MODULE LktkStatus -----------------------------
(***************************************************************************)
(* What a verbose run reports: print_status with the taint word of the     *)
(* kernel, and standard output, whose buffer every forked worker inherits. *)
(* Processes are numbered in the order of their creation, the first is 0.  *)
(***************************************************************************)
EXTENDS Integers, Sequences, FiniteSets

CONSTANTS
  Scripts,    \* number of scripts
  Workers,    \* kit.parallel; 0: the scripts run in the first process
  FdLimit,    \* descriptors a process may open besides the standard ones
  Modes       \* subset of {"line", "full"}: how stdout is buffered

ASSUME StatusAssumption ==
  Scripts \in Nat /\ Workers \in Nat /\ FdLimit \in Nat /\ Modes \subseteq {"line", "full"}

VARIABLES
  mode,       \* "line" on a terminal, "full" on a file
  pc,         \* of each process: "script", "status", "done", "killed"
  script,     \* the script each process is at
  failures,   \* kit.failures of each process
  fds,        \* descriptors each process has open
  buffer,     \* the lines each process has not written yet
  echoed,     \* the lines each process has printed itself
  output,     \* what has been written, in order
  taint       \* bits of the taint word that are set

statusVars == <<mode, pc, script, failures, fds, buffer, echoed, output, taint>>

Oops == 7
Warn == 9
Softlockup == 14
TaintError == {Oops, Warn, Softlockup}
Module == 0     \* a bit that is no error

Processes == DOMAIN pc

StatusInit ==
  /\ mode \in Modes /\ taint \in SUBSET {Module}
  /\ pc = [p \in {0} |-> "script"] /\ script = [p \in {0} |-> 1]
  /\ failures = [p \in {0} |-> 0] /\ fds = [p \in {0} |-> 0]
  /\ buffer = [p \in {0} |-> <<>>] /\ echoed = [p \in {0} |-> <<>>] /\ output = <<>>

Line(p, text) == [by |-> p, nr |-> Len(echoed[p]) + 1, text |-> text]

\* printf: the line that echo ends with a newline leaves a line buffer.
Echo(p, text) ==
  /\ echoed' = [echoed EXCEPT ![p] = Append(@, Line(p, text))]
  /\ IF mode = "line"
       THEN output' = Append(output, Line(p, text)) /\ UNCHANGED buffer
       ELSE buffer' = [buffer EXCEPT ![p] = Append(@, Line(p, text))] /\ UNCHANGED output

\* An assertion of the script fails, or the script makes the kernel complain.
RunScript(p) ==
  /\ pc[p] = "script" /\ (p = 0 => Workers = 0)
  /\ pc' = [pc EXCEPT ![p] = "status"]
  /\ \E failed \in {0, 1} : failures' = [failures EXCEPT ![p] = @ + failed]
  /\ \E bits \in {{}, {Warn}} : taint' = taint \cup bits
  /\ Echo(p, <<"script">>)
  /\ UNCHANGED <<mode, script, fds>>

\* The file is missing, or there is no descriptor to open it with.
LoadFails(p) ==
  /\ pc[p] = "script" /\ (p = 0 => Workers = 0)
  /\ pc' = [pc EXCEPT ![p] = "status"]
  /\ UNCHANGED <<mode, script, failures, fds, buffer, echoed, output, taint>>

\* Faulty: the bits of the word that are no errors count as well.
AnyTaint(word) == word # {}

DidKernelError(word) == word \cap TaintError # {}

\* get_tainted: with no descriptor left, open and read fail and atoi sees what
\* was on the stack.  The descriptor is never closed.
ReadTaint(p) == IF fds[p] < FdLimit THEN {taint} ELSE {{}, TaintError}

AfterStatus(p) ==
  IF p = 0 THEN /\ script' = [script EXCEPT ![p] = @ + 1]
                /\ pc' = [pc EXCEPT ![p] = IF script[p] < Scripts THEN "script" ELSE "exit"]
           ELSE pc' = [pc EXCEPT ![p] = "exit"] /\ UNCHANGED script

\* print_status; when there were errors, print_tainted reads the word again.
PrintStatus(p) ==
  /\ pc[p] = "status"
  /\ \E word \in ReadTaint(p) :
       LET errors == DidKernelError(word)
           opened == fds[p] + (IF errors THEN 2 ELSE 1)
       IN  /\ Echo(p, <<"status", failures[p], errors, taint>>)
           /\ fds' = [fds EXCEPT ![p] = IF opened > FdLimit THEN FdLimit ELSE opened]
  /\ AfterStatus(p)
  /\ UNCHANGED <<mode, failures, taint>>

\* Faulty: the worker starts with an empty buffer, but the main program's is gone.
InheritMoved(child) == [q \in Processes \cup {child} |-> IF q = child THEN buffer[0] ELSE <<>>]

\* fork copies the unwritten lines with the rest of the process.
Inherit(child) == [q \in Processes \cup {child} |-> IF q = child THEN buffer[0] ELSE buffer[q]]

\* pmain forks the workers of all scripts one after the other.
Fork ==
  LET child == Cardinality(Processes)
      Extended(f, x) == [q \in Processes \cup {child} |-> IF q = child THEN x ELSE f[q]]
  IN  /\ pc[0] = "script" /\ Workers > 0
      /\ pc' = Extended([pc EXCEPT ![0] = IF child < Scripts * Workers THEN "script" ELSE "reap"], "script")
      /\ script' = Extended(script, ((child - 1) \div Workers) + 1)
      /\ failures' = Extended(failures, failures[0]) /\ fds' = Extended(fds, fds[0])
      /\ echoed' = Extended(echoed, <<>>) /\ buffer' = Inherit(child)
      /\ UNCHANGED <<mode, output, taint>>

\* "forking script" is printed before each fork.
EchoFork ==
  /\ pc[0] = "script" /\ Workers > 0 /\ Len(echoed[0]) < Cardinality(Processes)
  /\ Echo(0, <<"forking">>)
  /\ UNCHANGED <<mode, pc, script, failures, fds, taint>>

\* exit() writes what the buffer holds, inherited lines included.
Exit(p) ==
  /\ pc[p] = "exit" \/ (p = 0 /\ pc[0] = "reap" /\ \A q \in Processes \ {0} : pc[q] \in {"done", "killed"})
  /\ output' = output \o buffer[p] /\ buffer' = [buffer EXCEPT ![p] = <<>>]
  /\ pc' = [pc EXCEPT ![p] = "done"]
  /\ UNCHANGED <<mode, script, failures, fds, echoed, taint>>

Kill(p) ==
  /\ p # 0 /\ pc[p] \notin {"done", "killed"}
  /\ pc' = [pc EXCEPT ![p] = "killed"]
  /\ UNCHANGED <<mode, script, failures, fds, buffer, echoed, output, taint>>

StatusNext ==
  \/ EchoFork
  \/ Len(echoed[0]) = Cardinality(Processes) /\ Fork
  \/ \E p \in Processes : RunScript(p) \/ LoadFails(p) \/ PrintStatus(p) \/ Exit(p) \/ Kill(p)

StatusSpec == StatusInit /\ [][StatusNext]_statusVars
-----------------------------------------------------------------------------
Written(line) == {j \in 1..Len(output) : output[j] = line}

(***************************************************************************)
(* A process that ended by itself has had all its lines written: what a    *)
(* worker printed is not lost with it (echo, exit).                        *)
(***************************************************************************)
NothingUnwritten ==
  \A p \in Processes : pc[p] = "done" =>
    \A j \in 1..Len(echoed[p]) : Written(echoed[p][j]) # {}

(***************************************************************************)
(* On a terminal every line appears once, though the workers inherit the   *)
(* buffer of the main program; on a file only lines printed by it before   *)
(* a fork can be written again.                                            *)
(***************************************************************************)
OnlyInheritedTwice ==
  \A j, k \in 1..Len(output) :
    j # k /\ output[j] = output[k] => mode = "full" /\ output[j].by = 0

(***************************************************************************)
(* The output of a run is what its processes printed (echo, fork, exit).   *)
(***************************************************************************)
OutputWritten == NothingUnwritten /\ OnlyInheritedTwice

(***************************************************************************)
(* "No new kernel errors" is printed only if the kernel has met none, and  *)
(* "There were kernel errors!" only if it has (print_status), as long as   *)
(* there are descriptors: a report uses up two of them at most.            *)
(***************************************************************************)
Reports(p, j) == {k \in 1..j : echoed[p][k].text[1] = "status"}
VerdictTrue ==
  \A p \in Processes : \A j \in 1..Len(echoed[p]) :
    LET text == echoed[p][j].text
    IN  text[1] = "status" /\ 2 * Cardinality(Reports(p, j - 1)) < FdLimit =>
          text[3] = (text[4] \cap TaintError # {})
=============================================================================
