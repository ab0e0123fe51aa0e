-------------------------- MODULE LktkStatusProofs --------------------------
(***************************************************************************)
(* Theorems about LktkStatus, for any number of scripts, workers and       *)
(* descriptors.  A report takes two descriptors at most, so the number of  *)
(* reports bounds those in use (Counted); every line printed is in the     *)
(* buffer of its process or in the output (Kept); and a line that is in a  *)
(* buffer is nowhere else unless the main program printed it (Single).     *)
(***************************************************************************)
EXTENDS LktkStatus, SequenceTheorems, FiniteSetTheorems, TLAPS

Texts == {<<"script">>, <<"forking">>}
         \cup {<<"status", f, e, t>> : f \in Nat, e \in BOOLEAN, t \in SUBSET Nat}
Lines == [by : Nat, nr : Nat, text : Texts]
Stages == {"script", "status", "exit", "reap", "done", "killed"}

TypeOK ==
  /\ mode \in {"line", "full"} /\ taint \in SUBSET Nat /\ output \in Seq(Lines)
  /\ \E n \in Nat : Processes = 0..n
  /\ pc \in [Processes -> Stages] /\ script \in [Processes -> Nat]
  /\ failures \in [Processes -> Nat] /\ fds \in [Processes -> Nat]
  /\ buffer \in [Processes -> Seq(Lines)] /\ echoed \in [Processes -> Seq(Lines)]

\* The main program reports only when it runs the scripts itself.
Roles == Workers > 0 => pc[0] \in {"script", "reap", "done"} /\ fds[0] = 0

AllReports(p) == Reports(p, Len(echoed[p]))
Counted ==
  \A p \in Processes : IsFiniteSet(AllReports(p)) /\ fds[p] <= 2 * Cardinality(AllReports(p))

In(line, s) == \E k \in 1..Len(s) : s[k] = line

Kept ==
  /\ \A p \in Processes : \A j \in 1..Len(echoed[p]) : In(echoed[p][j], output) \/ In(echoed[p][j], buffer[p])
  /\ \A p \in Processes : pc[p] = "done" => buffer[p] = <<>>

\* Lines that have been printed, by whom, and where they wait.
Printed(line) == line.by \in Processes /\ line.nr <= Len(echoed[line.by])
Single ==
  /\ mode = "line" => \A p \in Processes : buffer[p] = <<>>
  /\ \A k \in 1..Len(output) : Printed(output[k])
  /\ \A p \in Processes : \A j \in 1..Len(buffer[p]) :
       /\ buffer[p][j].by \in {0, p} /\ Printed(buffer[p][j])
       /\ \A k \in 1..Len(buffer[p]) : j # k /\ buffer[p][j] = buffer[p][k] => buffer[p][j].by = 0
       /\ \A k \in 1..Len(output) : buffer[p][j] = output[k] => buffer[p][j].by = 0

IInv == TypeOK /\ Roles /\ Counted /\ VerdictTrue /\ Kept /\ Single /\ OnlyInheritedTwice
-----------------------------------------------------------------------------
LEMMA InitIInv == ASSUME StatusInit PROVE IInv
<1>1. /\ mode \in Modes /\ taint \in SUBSET {0} /\ pc = [p \in {0} |-> "script"]
      /\ script = [p \in {0} |-> 1] /\ failures = [p \in {0} |-> 0] /\ fds = [p \in {0} |-> 0]
      /\ buffer = [p \in {0} |-> <<>>] /\ echoed = [p \in {0} |-> <<>>] /\ output = <<>>
  BY DEF StatusInit, Module
<1>2. Processes = {0} /\ Processes = 0..0
  BY <1>1 DEF Processes
<1>3. \A S : <<>> \in Seq(S) /\ Len(<<>>) = 0
  BY EmptySeq
<1>4. TypeOK
  <2>1. mode \in {"line", "full"} /\ taint \in SUBSET Nat /\ output \in Seq(Lines)
    BY <1>1, <1>3, StatusAssumption
  <2>2. \E n \in Nat : Processes = 0..n
    BY <1>2
  <2>3. /\ pc \in [{0} -> Stages] /\ script \in [{0} -> Nat] /\ failures \in [{0} -> Nat]
        /\ fds \in [{0} -> Nat]
    BY <1>1 DEF Stages
  <2>4. buffer \in [{0} -> Seq(Lines)] /\ echoed \in [{0} -> Seq(Lines)]
    BY <1>1, <1>3
  <2> QED
    BY <1>2, <2>1, <2>2, <2>3, <2>4 DEF TypeOK
<1>5. Roles
  BY <1>1 DEF Roles
<1>6. Counted
  <2>1. AllReports(0) = {}
    BY <1>1, <1>3 DEF AllReports, Reports
  <2>2. IsFiniteSet({}) /\ Cardinality({}) = 0
    BY FS_EmptySet
  <2> QED
    BY <1>1, <1>2, <2>1, <2>2 DEF Counted
<1>7. VerdictTrue /\ Kept /\ Single /\ OnlyInheritedTwice
  BY <1>1, <1>2, <1>3 DEF VerdictTrue, Kept, Single, OnlyInheritedTwice
<1> QED
  BY <1>4, <1>5, <1>6, <1>7 DEF IInv

\* What a process prints goes to the end of what it has printed.
LEMMA EchoShape ==
  ASSUME TypeOK, NEW p \in Processes, NEW text \in Texts, Echo(p, text)
  PROVE  /\ Line(p, text) \in Lines /\ Line(p, text).by = p /\ Line(p, text).text = text
         /\ Line(p, text).nr = Len(echoed[p]) + 1
         /\ echoed' \in [Processes -> Seq(Lines)] /\ Len(echoed[p]) \in Nat
         /\ Len(echoed'[p]) = Len(echoed[p]) + 1 /\ echoed'[p][Len(echoed[p]) + 1] = Line(p, text)
         /\ \A j \in 1..Len(echoed[p]) : echoed'[p][j] = echoed[p][j]
         /\ \A q \in Processes : q # p => echoed'[q] = echoed[q]
<1>1. echoed[p] \in Seq(Lines) /\ Len(echoed[p]) \in Nat /\ p \in Nat
  <2>1. echoed[p] \in Seq(Lines) /\ p \in Nat
    BY DEF TypeOK
  <2> QED
    BY <2>1, LenProperties
<1>2. Line(p, text) = [by |-> p, nr |-> Len(echoed[p]) + 1, text |-> text]
  BY DEF Line
<1>3. /\ Line(p, text) \in Lines /\ Line(p, text).by = p /\ Line(p, text).text = text
      /\ Line(p, text).nr = Len(echoed[p]) + 1
  BY <1>1, <1>2 DEF Lines
<1>4. echoed' = [echoed EXCEPT ![p] = Append(echoed[p], Line(p, text))]
  BY DEF Echo
<1>5. /\ Append(echoed[p], Line(p, text)) \in Seq(Lines)
      /\ Len(Append(echoed[p], Line(p, text))) = Len(echoed[p]) + 1
      /\ Append(echoed[p], Line(p, text))[Len(echoed[p]) + 1] = Line(p, text)
      /\ \A j \in 1..Len(echoed[p]) : Append(echoed[p], Line(p, text))[j] = echoed[p][j]
  BY <1>1, <1>3, AppendProperties
<1>6. echoed \in [Processes -> Seq(Lines)]
  BY DEF TypeOK
<1>7. /\ echoed' \in [Processes -> Seq(Lines)] /\ echoed'[p] = Append(echoed[p], Line(p, text))
      /\ \A q \in Processes : q # p => echoed'[q] = echoed[q]
  BY <1>4, <1>5, <1>6, Zenon
<1> QED
  BY <1>1, <1>3, <1>5, <1>7

\* The line goes to the output or to the buffer of its process.
LEMMA EchoPlace ==
  ASSUME TypeOK, NEW p \in Processes, NEW text \in Texts, Echo(p, text)
  PROVE  /\ output' \in Seq(Lines) /\ buffer' \in [Processes -> Seq(Lines)]
         /\ \/ mode = "line" /\ buffer' = buffer /\ output' = Append(output, Line(p, text))
            \/ /\ mode = "full" /\ output' = output /\ buffer'[p] = Append(buffer[p], Line(p, text))
               /\ \A q \in Processes : q # p => buffer'[q] = buffer[q]
<1>1. Line(p, text) \in Lines
  BY EchoShape
<1>2. output \in Seq(Lines) /\ buffer \in [Processes -> Seq(Lines)] /\ mode \in {"line", "full"}
  BY DEF TypeOK
<1>3. CASE mode = "line"
  <2>1. output' = Append(output, Line(p, text)) /\ buffer' = buffer
    BY <1>3 DEF Echo
  <2> QED
    BY <1>1, <1>2, <1>3, <2>1, AppendProperties
<1>4. CASE mode = "full"
  <2>1. output' = output /\ buffer' = [buffer EXCEPT ![p] = Append(buffer[p], Line(p, text))]
    BY <1>4 DEF Echo
  <2>2. Append(buffer[p], Line(p, text)) \in Seq(Lines)
    BY <1>1, <1>2, AppendProperties
  <2> QED
    BY <1>2, <1>4, <2>1, <2>2, Zenon
<1> QED
  BY <1>2, <1>3, <1>4

\* The lines that are out stay, and so do those that wait.
LEMMA EchoOutput ==
  ASSUME TypeOK, NEW p \in Processes, NEW text \in Texts, Echo(p, text)
  PROVE  /\ \A k \in 1..Len(output) : k \in 1..Len(output') /\ output'[k] = output[k]
         /\ \A k \in 1..Len(output') : k \notin 1..Len(output) =>
              mode = "line" /\ k = Len(output) + 1 /\ output'[k] = Line(p, text)
<1>1. output \in Seq(Lines) /\ Line(p, text) \in Lines /\ Len(output) \in Nat
  BY EchoShape, LenProperties DEF TypeOK
<1>2. CASE mode = "line" /\ output' = Append(output, Line(p, text))
  <2>1. /\ Len(output') = Len(output) + 1 /\ output'[Len(output) + 1] = Line(p, text)
        /\ \A k \in 1..Len(output) : output'[k] = output[k]
    BY <1>1, <1>2, AppendProperties
  <2> QED
    BY <1>1, <1>2, <2>1
<1>3. CASE output' = output
  BY <1>3
<1> QED
  BY <1>2, <1>3, EchoPlace

LEMMA EchoBuffer ==
  ASSUME TypeOK, NEW p \in Processes, NEW text \in Texts, Echo(p, text), NEW q \in Processes
  PROVE  /\ \A k \in 1..Len(buffer[q]) : k \in 1..Len(buffer'[q]) /\ buffer'[q][k] = buffer[q][k]
         /\ \A k \in 1..Len(buffer'[q]) : k \notin 1..Len(buffer[q]) =>
              mode = "full" /\ q = p /\ k = Len(buffer[q]) + 1 /\ buffer'[q][k] = Line(p, text)
<1>1. buffer[q] \in Seq(Lines) /\ Line(p, text) \in Lines
  BY EchoShape DEF TypeOK
<1>2. Len(buffer[q]) \in Nat
  BY <1>1, LenProperties
<1>3. CASE mode = "full" /\ q = p /\ buffer'[q] = Append(buffer[q], Line(p, text))
  <2>1. /\ Len(buffer'[q]) = Len(buffer[q]) + 1 /\ buffer'[q][Len(buffer[q]) + 1] = Line(p, text)
        /\ \A k \in 1..Len(buffer[q]) : buffer'[q][k] = buffer[q][k]
    BY <1>1, <1>3, AppendProperties
  <2> QED
    BY <1>2, <1>3, <2>1
<1>4. CASE buffer'[q] = buffer[q]
  BY <1>4
<1> QED
  BY <1>3, <1>4, EchoPlace

LEMMA EchoWaits ==
  ASSUME TypeOK, NEW p \in Processes, NEW text \in Texts, Echo(p, text)
  PROVE  In(Line(p, text), output') \/ In(Line(p, text), buffer'[p])
<1>1. /\ output \in Seq(Lines) /\ Len(output) \in Nat /\ buffer[p] \in Seq(Lines) /\ Line(p, text) \in Lines
  BY EchoShape, LenProperties DEF TypeOK
<1>2. Len(buffer[p]) \in Nat
  BY <1>1, LenProperties
<1>3. CASE output' = Append(output, Line(p, text))
  <2>1. Len(output') = Len(output) + 1 /\ output'[Len(output) + 1] = Line(p, text)
    BY <1>1, <1>3, AppendProperties
  <2> QED
    BY <1>1, <2>1 DEF In
<1>4. CASE buffer'[p] = Append(buffer[p], Line(p, text))
  <2>1. Len(buffer'[p]) = Len(buffer[p]) + 1 /\ buffer'[p][Len(buffer[p]) + 1] = Line(p, text)
    BY <1>1, <1>4, AppendProperties
  <2> QED
    BY <1>2, <2>1 DEF In
<1> QED
  BY <1>3, <1>4, EchoPlace

LEMMA EchoKept ==
  ASSUME TypeOK, Kept, NEW p \in Processes, NEW text \in Texts, Echo(p, text), Processes' = Processes,
         pc[p] # "done", \A q \in Processes : pc'[q] = "done" => pc[q] = "done"
  PROVE  Kept'
<1>1. ASSUME NEW q \in Processes, NEW j \in 1..Len(echoed'[q])
      PROVE  In(echoed'[q][j], output') \/ In(echoed'[q][j], buffer'[q])
  <2>1. CASE j \in 1..Len(echoed[q])
    <3>1. echoed'[q][j] = echoed[q][j]
      BY <2>1, EchoShape
    <3>2. In(echoed[q][j], output) => In(echoed[q][j], output')
      BY EchoOutput DEF In
    <3>3. In(echoed[q][j], buffer[q]) => In(echoed[q][j], buffer'[q])
      BY EchoBuffer DEF In
    <3> QED
      BY <2>1, <3>1, <3>2, <3>3 DEF Kept
  <2>2. CASE j \notin 1..Len(echoed[q])
    <3>1. q = p /\ echoed'[q][j] = Line(p, text)
      BY <2>2, EchoShape
    <3> QED
      BY <3>1, EchoWaits
  <2> QED
    BY <2>1, <2>2
<1>2. ASSUME NEW q \in Processes, pc'[q] = "done" PROVE buffer'[q] = <<>>
  <2>1. q # p /\ buffer[q] = <<>>
    BY <1>2 DEF Kept
  <2> QED
    BY <2>1, EchoPlace
<1> QED
  BY <1>1, <1>2 DEF Kept

LEMMA EchoSingle ==
  ASSUME TypeOK, Single, OnlyInheritedTwice, NEW p \in Processes, NEW text \in Texts, Echo(p, text),
         Processes' = Processes, mode' = mode
  PROVE  Single' /\ OnlyInheritedTwice'
<1> DEFINE new == Line(p, text)
           PrintedNext(line) == line.by \in Processes /\ line.nr <= Len(echoed'[line.by])
<1>1. new.by = p /\ PrintedNext(new) /\ ~Printed(new)
  <2>1. /\ new.by = p /\ new.nr = Len(echoed[p]) + 1 /\ Len(echoed[p]) \in Nat
        /\ Len(echoed'[p]) = Len(echoed[p]) + 1
    BY EchoShape
  <2> QED
    BY <2>1 DEF Printed
<1>2. ASSUME NEW line \in Lines, Printed(line) PROVE PrintedNext(line)
  <2>1. line.nr \in Nat /\ Len(echoed[p]) \in Nat /\ Len(echoed'[p]) = Len(echoed[p]) + 1
    BY EchoShape DEF Lines
  <2>2. \A q \in Processes : q # p => echoed'[q] = echoed[q]
    BY EchoShape
  <2> QED
    BY <1>2, <2>1, <2>2 DEF Printed
<1> HIDE DEF PrintedNext
<1>3. /\ \A k \in 1..Len(output) : output[k] # new
      /\ \A q \in Processes : \A k \in 1..Len(buffer[q]) : buffer[q][k] # new
  BY <1>1 DEF Single
<1>4. mode = "line" => \A q \in Processes : buffer'[q] = <<>>
  BY EchoPlace DEF Single
<1>5. \A k \in 1..Len(output') : PrintedNext(output'[k])
  <2> SUFFICES ASSUME NEW k \in 1..Len(output') PROVE PrintedNext(output'[k])
    OBVIOUS
  <2>1. CASE k \in 1..Len(output)
    <3>1. output'[k] = output[k] /\ Printed(output[k])
      BY <2>1, EchoOutput DEF Single
    <3>2. output[k] \in Lines
      BY <2>1, ElementOfSeq DEF TypeOK
    <3> QED
      BY <1>2, <3>1, <3>2
  <2>2. CASE k \notin 1..Len(output)
    BY <1>1, <2>2, EchoOutput
  <2> QED
    BY <2>1, <2>2
<1>6. ASSUME NEW q \in Processes, NEW j \in 1..Len(buffer'[q])
      PROVE  /\ buffer'[q][j].by \in {0, q} /\ PrintedNext(buffer'[q][j])
             /\ \A k \in 1..Len(buffer'[q]) : j # k /\ buffer'[q][j] = buffer'[q][k] => buffer'[q][j].by = 0
             /\ \A k \in 1..Len(output') : buffer'[q][j] = output'[k] => buffer'[q][j].by = 0
  <2>1. CASE j \in 1..Len(buffer[q])
    <3>1. /\ buffer'[q][j] = buffer[q][j] /\ buffer[q][j] # new
          /\ buffer[q][j].by \in {0, q} /\ Printed(buffer[q][j])
      BY <1>3, <2>1, EchoBuffer DEF Single
    <3>2. PrintedNext(buffer[q][j])
      <4>1. buffer[q] \in Seq(Lines)
        BY DEF TypeOK
      <4>2. buffer[q][j] \in Lines
        BY <2>1, <4>1, ElementOfSeq
      <4> QED
        BY <1>2, <3>1, <4>2
    <3>3. ASSUME NEW k \in 1..Len(buffer'[q]), j # k, buffer'[q][j] = buffer'[q][k] PROVE buffer'[q][j].by = 0
      <4>1. k \in 1..Len(buffer[q]) /\ buffer'[q][k] = buffer[q][k]
        BY <3>1, <3>3, EchoBuffer
      <4> QED
        BY <2>1, <3>1, <3>3, <4>1 DEF Single
    <3>4. ASSUME NEW k \in 1..Len(output'), buffer'[q][j] = output'[k] PROVE buffer'[q][j].by = 0
      <4>1. k \in 1..Len(output) /\ output'[k] = output[k]
        BY <3>1, <3>4, EchoOutput
      <4> QED
        BY <2>1, <3>1, <3>4, <4>1 DEF Single
    <3> QED
      BY <3>1, <3>2, <3>3, <3>4
  <2>2. CASE j \notin 1..Len(buffer[q])
    <3>1. mode = "full" /\ q = p /\ j = Len(buffer[q]) + 1 /\ buffer'[q][j] = new
      BY <2>2, EchoBuffer
    <3>2. ASSUME NEW k \in 1..Len(buffer'[q]), j # k PROVE buffer'[q][k] # new
      <4>1. k \in 1..Len(buffer[q]) /\ buffer'[q][k] = buffer[q][k]
        BY <3>1, <3>2, EchoBuffer
      <4> QED
        BY <1>3, <4>1
    <3>3. ASSUME NEW k \in 1..Len(output') PROVE output'[k] # new
      <4>1. k \in 1..Len(output) /\ output'[k] = output[k]
        BY <3>1, EchoOutput
      <4> QED
        BY <1>3, <4>1
    <3> QED
      BY <1>1, <3>1, <3>2, <3>3
  <2> QED
    BY <2>1, <2>2
<1>7. OnlyInheritedTwice'
  <2> SUFFICES ASSUME NEW j \in 1..Len(output'), NEW k \in 1..Len(output'), j # k, output'[j] = output'[k]
               PROVE  mode = "full" /\ output'[j].by = 0
    BY DEF OnlyInheritedTwice
  <2>1. j \in 1..Len(output) /\ k \in 1..Len(output)
    BY <1>3, EchoOutput
  <2> QED
    BY <2>1, EchoOutput DEF OnlyInheritedTwice
<1> QED
  BY <1>4, <1>5, <1>6, <1>7 DEF Single, Printed, PrintedNext

\* The reports among the lines printed so far.
LEMMA EchoReports ==
  ASSUME TypeOK, NEW p \in Processes, NEW text \in Texts, Echo(p, text)
  PROVE  /\ \A q \in Processes : \A j \in 0..Len(echoed[q]) : Reports(q, j)' = Reports(q, j)
         /\ \A q \in Processes : q # p => AllReports(q)' = AllReports(q)
         /\ AllReports(p)' = AllReports(p) \cup (IF text[1] = "status" THEN {Len(echoed[p]) + 1} ELSE {})
         /\ Len(echoed[p]) + 1 \notin AllReports(p)
<1>1. ASSUME NEW q \in Processes, NEW j \in 0..Len(echoed[q]) PROVE Reports(q, j)' = Reports(q, j)
  <2>1. \A k \in 1..j : k \in 1..Len(echoed[q]) /\ echoed'[q][k] = echoed[q][k]
    <3>1. Len(echoed[q]) \in Nat
      <4>1. echoed[q] \in Seq(Lines)
        BY DEF TypeOK
      <4> QED
        BY <4>1, LenProperties
    <3> QED
      BY <3>1, EchoShape
  <2> QED
    BY <2>1 DEF Reports
<1>2. ASSUME NEW q \in Processes, q # p PROVE AllReports(q)' = AllReports(q)
  BY <1>2, EchoShape DEF AllReports, Reports
<1>3. /\ Len(echoed[p]) \in Nat /\ Len(echoed'[p]) = Len(echoed[p]) + 1
      /\ echoed'[p][Len(echoed[p]) + 1].text = text
      /\ \A k \in 1..Len(echoed[p]) : echoed'[p][k] = echoed[p][k]
  BY EchoShape
<1>4. /\ AllReports(p)' = AllReports(p) \cup (IF text[1] = "status" THEN {Len(echoed[p]) + 1} ELSE {})
      /\ Len(echoed[p]) + 1 \notin AllReports(p)
  BY <1>3, SMTT(30) DEF AllReports, Reports
<1> QED
  BY <1>1, <1>2, <1>4

\* A report is true if its process could open the file, and counts.
LEMMA EchoCounted ==
  ASSUME TypeOK, Counted, VerdictTrue, NEW p \in Processes, NEW text \in Texts, Echo(p, text),
         Processes' = Processes, FdLimit \in Nat, fds' \in [Processes -> Nat],
         \A q \in Processes : q # p => fds'[q] = fds[q],
         IF text[1] = "status"
           THEN fds'[p] <= fds[p] + 2 /\ (fds[p] < FdLimit => text[3] = (text[4] \cap TaintError # {}))
           ELSE fds'[p] = fds[p]
  PROVE  Counted' /\ VerdictTrue'
<1>1. ASSUME NEW q \in Processes
      PROVE  /\ IsFiniteSet(AllReports(q)') /\ fds'[q] <= 2 * Cardinality(AllReports(q)')
  <2>1. /\ IsFiniteSet(AllReports(q)) /\ Cardinality(AllReports(q)) \in Nat
        /\ fds[q] <= 2 * Cardinality(AllReports(q)) /\ fds[q] \in Nat
    BY FS_CardinalityType DEF Counted, TypeOK
  <2>2. CASE q # p \/ text[1] # "status"
    <3>1. AllReports(q)' = AllReports(q) /\ fds'[q] = fds[q]
      BY <2>2, EchoReports
    <3> QED
      BY <2>1, <3>1
  <2>3. CASE q = p /\ text[1] = "status"
    <3>1. AllReports(q)' = AllReports(q) \cup {Len(echoed[p]) + 1} /\ Len(echoed[p]) + 1 \notin AllReports(q)
      BY <2>3, EchoReports
    <3>2. IsFiniteSet(AllReports(q)') /\ Cardinality(AllReports(q)') = Cardinality(AllReports(q)) + 1
      BY <2>1, <3>1, FS_AddElement, SMTT(30)
    <3>3. fds'[q] <= fds[q] + 2 /\ fds'[q] \in Nat
      BY <2>3
    <3> QED
      BY <2>1, <3>2, <3>3
  <2> QED
    BY <2>2, <2>3
<1>2. ASSUME NEW q \in Processes, NEW j \in 1..Len(echoed'[q]), echoed'[q][j].text[1] = "status",
             2 * Cardinality(Reports(q, j - 1)') < FdLimit
      PROVE  echoed'[q][j].text[3] = (echoed'[q][j].text[4] \cap TaintError # {})
  <2>0. echoed[q] \in Seq(Lines) /\ Len(echoed[q]) \in Nat
    <3>1. echoed[q] \in Seq(Lines)
      BY DEF TypeOK
    <3> QED
      BY <3>1, LenProperties
  <2>1. CASE j \in 1..Len(echoed[q])
    <3>1. echoed'[q][j] = echoed[q][j]
      BY <2>1, EchoShape
    <3>2. Reports(q, j - 1)' = Reports(q, j - 1)
      <4>1. j - 1 \in 0..Len(echoed[q])
        BY <2>0, <2>1
      <4> QED
        BY <4>1, EchoReports
    <3> QED
      BY <1>2, <2>1, <3>1, <3>2 DEF VerdictTrue
  <2>2. CASE j \notin 1..Len(echoed[q])
    <3>1. q = p /\ j = Len(echoed[p]) + 1 /\ echoed'[q][j].text = text
      BY <2>0, <2>2, EchoShape
    <3>2. Reports(q, j - 1)' = AllReports(p)
      <4>1. j - 1 = Len(echoed[p]) /\ Len(echoed[p]) \in 0..Len(echoed[p])
        BY <2>0, <3>1
      <4> QED
        BY <3>1, <4>1, EchoReports DEF AllReports
    <3>3. fds[p] < FdLimit
      <4>1. IsFiniteSet(AllReports(p)) /\ fds[p] <= 2 * Cardinality(AllReports(p)) /\ fds[p] \in Nat
        BY DEF Counted, TypeOK
      <4>2. Cardinality(AllReports(p)) \in Nat
        BY <4>1, FS_CardinalityType
      <4> QED
        BY <1>2, <3>2, <4>1, <4>2
    <3> QED
      BY <1>2, <3>1, <3>3
  <2> QED
    BY <2>1, <2>2
<1> QED
  BY <1>1, <1>2 DEF Counted, VerdictTrue

\* No process is born and nothing is printed in a step that only moves one on.
LEMMA SameProcesses ==
  ASSUME TypeOK, NEW p \in Processes, NEW x \in Stages, pc' = [pc EXCEPT ![p] = x]
  PROVE  /\ Processes' = Processes /\ pc' \in [Processes -> Stages] /\ pc'[p] = x
         /\ \A q \in Processes : q # p => pc'[q] = pc[q]
  BY DEF TypeOK, Processes

LEMMA RunScriptStep == ASSUME IInv, NEW p \in Processes, RunScript(p) PROVE IInv'
<1>1. /\ TypeOK /\ Roles /\ Counted /\ VerdictTrue /\ Kept /\ Single /\ OnlyInheritedTwice
      /\ pc[p] = "script" /\ (p = 0 => Workers = 0) /\ Echo(p, <<"script">>)
      /\ mode' = mode /\ script' = script /\ fds' = fds
      /\ pc' = [pc EXCEPT ![p] = "status"]
  BY DEF IInv, RunScript
<1>2. <<"script">> \in Texts /\ <<"script">>[1] # "status"
  BY DEF Texts
<1>3. /\ Processes' = Processes /\ pc' \in [Processes -> Stages] /\ pc'[p] = "status"
      /\ \A q \in Processes : q # p => pc'[q] = pc[q]
  BY <1>1, SameProcesses DEF Stages
<1>4. TypeOK'
  <2>1. failures' \in [Processes -> Nat]
    <3>1. PICK failed \in {0, 1} : failures' = [failures EXCEPT ![p] = failures[p] + failed]
      BY DEF RunScript
    <3>2. failures \in [Processes -> Nat]
      BY <1>1 DEF TypeOK
    <3> QED
      BY <3>1, <3>2
  <2>2. taint' \in SUBSET Nat
    <3>1. PICK bits \in {{}, {Warn}} : taint' = taint \cup bits
      BY DEF RunScript
    <3>2. taint \in SUBSET Nat
      BY <1>1 DEF TypeOK
    <3>3. \A b \in bits : b \in Nat
      BY DEF Warn
    <3> QED
      BY <3>1, <3>2, <3>3, Zenon
  <2>3. output' \in Seq(Lines) /\ buffer' \in [Processes -> Seq(Lines)] /\ echoed' \in [Processes -> Seq(Lines)]
    BY <1>1, <1>2, EchoPlace, EchoShape
  <2> QED
    BY <1>1, <1>3, <2>1, <2>2, <2>3 DEF TypeOK
<1>5. Roles'
  BY <1>1, <1>3, StatusAssumption DEF Roles, TypeOK
<1>6. Counted' /\ VerdictTrue'
  <2>1. fds \in [Processes -> Nat]
    BY <1>1 DEF TypeOK
  <2> QED
    BY <1>1, <1>2, <1>3, <2>1, EchoCounted, StatusAssumption
<1>7. Kept'
  BY <1>1, <1>2, <1>3, EchoKept
<1>8. Single' /\ OnlyInheritedTwice'
  BY <1>1, <1>2, <1>3, EchoSingle
<1> QED
  BY <1>4, <1>5, <1>6, <1>7, <1>8 DEF IInv

LEMMA EchoForkStep == ASSUME IInv, EchoFork PROVE IInv'
<1>1. /\ TypeOK /\ Roles /\ Counted /\ VerdictTrue /\ Kept /\ Single /\ OnlyInheritedTwice
      /\ pc[0] = "script" /\ Echo(0, <<"forking">>)
      /\ mode' = mode /\ pc' = pc /\ script' = script /\ failures' = failures /\ fds' = fds /\ taint' = taint
  BY DEF IInv, EchoFork
<1>2. <<"forking">> \in Texts /\ <<"forking">>[1] # "status"
  BY DEF Texts
<1>3. Processes' = Processes /\ 0 \in Processes
  BY <1>1 DEF Processes, TypeOK
<1>4. TypeOK'
  <2>1. output' \in Seq(Lines) /\ buffer' \in [Processes -> Seq(Lines)] /\ echoed' \in [Processes -> Seq(Lines)]
    BY <1>1, <1>2, <1>3, EchoPlace, EchoShape
  <2> QED
    BY <1>1, <1>3, <2>1 DEF TypeOK
<1>5. Roles'
  BY <1>1 DEF Roles
<1>6. Counted' /\ VerdictTrue'
  <2>1. fds \in [Processes -> Nat]
    BY <1>1 DEF TypeOK
  <2> QED
    BY <1>1, <1>2, <1>3, <2>1, EchoCounted, StatusAssumption
<1>7. Kept'
  BY <1>1, <1>2, <1>3, EchoKept
<1>8. Single' /\ OnlyInheritedTwice'
  BY <1>1, <1>2, <1>3, EchoSingle
<1> QED
  BY <1>4, <1>5, <1>6, <1>7, <1>8 DEF IInv

LEMMA StatusText ==
  ASSUME NEW f \in Nat, NEW e \in BOOLEAN, NEW t \in SUBSET Nat PROVE <<"status", f, e, t>> \in Texts
  BY DEF Texts

LEMMA PrintStatusStep == ASSUME IInv, NEW p \in Processes, PrintStatus(p) PROVE IInv'
<1>1. /\ TypeOK /\ Roles /\ Counted /\ VerdictTrue /\ Kept /\ Single /\ OnlyInheritedTwice
      /\ pc[p] = "status" /\ mode' = mode /\ failures' = failures /\ taint' = taint /\ AfterStatus(p)
  BY DEF IInv, PrintStatus
<1>2. PICK word \in ReadTaint(p) :
        LET errors == DidKernelError(word)
            opened == fds[p] + (IF errors THEN 2 ELSE 1)
        IN  /\ Echo(p, <<"status", failures[p], errors, taint>>)
            /\ fds' = [fds EXCEPT ![p] = IF opened > FdLimit THEN FdLimit ELSE opened]
  BY DEF PrintStatus
<1> DEFINE errors == word \cap TaintError # {}
           text == <<"status", failures[p], errors, taint>>
<1>3. /\ Echo(p, text)
      /\ fds' = [fds EXCEPT ![p] = IF fds[p] + (IF errors THEN 2 ELSE 1) > FdLimit THEN FdLimit ELSE fds[p] + (IF errors THEN 2 ELSE 1)]
  BY <1>2 DEF DidKernelError
<1>4. text \in Texts /\ text[1] = "status" /\ text[3] = errors /\ text[4] = taint
  <2>1. failures[p] \in Nat /\ errors \in BOOLEAN /\ taint \in SUBSET Nat
    BY <1>1 DEF TypeOK
  <2>2. text \in Texts
    BY <2>1, StatusText
  <2> QED
    BY <2>2
<1>5. fds[p] < FdLimit => errors = (taint \cap TaintError # {})
  BY DEF ReadTaint
<1> HIDE DEF errors, text
<1>6. fds' \in [Processes -> Nat] /\ fds'[p] <= fds[p] + 2 /\ \A q \in Processes : q # p => fds'[q] = fds[q]
  <2>1. fds \in [Processes -> Nat] /\ FdLimit \in Nat
    BY <1>1, StatusAssumption DEF TypeOK
  <2>2. PICK n \in Nat : fds' = [fds EXCEPT ![p] = n] /\ n <= fds[p] + 2
    <3> DEFINE m == IF errors THEN 2 ELSE 1
               n == IF fds[p] + m > FdLimit THEN FdLimit ELSE fds[p] + m
    <3>1. fds' = [fds EXCEPT ![p] = n]
      BY <1>3, Zenon
    <3>2. m \in {1, 2}
      OBVIOUS
    <3>3. n \in Nat /\ n <= fds[p] + 2
      <4> HIDE DEF m
      <4> QED
        BY <2>1, <3>2
    <3> QED
      BY <3>1, <3>3, Zenon
  <2> QED
    BY <2>1, <2>2
<1>7. /\ Processes' = Processes /\ pc' \in [Processes -> Stages] /\ pc'[p] \in {"script", "exit"}
      /\ \A q \in Processes : q # p => pc'[q] = pc[q]
  <2>1. PICK x \in {"script", "exit"} : pc' = [pc EXCEPT ![p] = x]
    BY <1>1 DEF AfterStatus
  <2> QED
    BY <1>1, <2>1, SameProcesses DEF Stages
<1>8. TypeOK'
  <2>1. output' \in Seq(Lines) /\ buffer' \in [Processes -> Seq(Lines)] /\ echoed' \in [Processes -> Seq(Lines)]
    BY <1>1, <1>3, <1>4, EchoPlace, EchoShape
  <2>2. script' \in [Processes -> Nat]
    <3>1. script \in [Processes -> Nat]
      BY <1>1 DEF TypeOK
    <3>2. script' = script \/ script' = [script EXCEPT ![p] = script[p] + 1]
      BY <1>1 DEF AfterStatus
    <3> QED
      BY <3>1, <3>2
  <2> QED
    BY <1>1, <1>6, <1>7, <2>1, <2>2 DEF TypeOK
<1>9. Roles'
  <2>1. Workers > 0 => p # 0
    BY <1>1 DEF Roles
  <2>2. 0 \in Processes
    BY <1>1 DEF TypeOK
  <2> QED
    BY <1>1, <1>6, <1>7, <2>1, <2>2 DEF Roles
<1>10. Counted' /\ VerdictTrue'
  BY <1>1, <1>3, <1>4, <1>5, <1>6, <1>7, EchoCounted, StatusAssumption
<1>11. Kept'
  BY <1>1, <1>3, <1>4, <1>7, EchoKept
<1>12. Single' /\ OnlyInheritedTwice'
  BY <1>1, <1>3, <1>4, <1>7, EchoSingle
<1> QED
  BY <1>8, <1>9, <1>10, <1>11, <1>12 DEF IInv

\* A script that is not loaded, and a worker that is killed, print nothing.
LEMMA SilentStep ==
  ASSUME IInv, NEW p \in Processes, LoadFails(p) \/ Kill(p)
  PROVE  IInv'
<1>1. /\ TypeOK /\ Roles /\ Counted /\ VerdictTrue /\ Kept /\ Single /\ OnlyInheritedTwice
      /\ mode' = mode /\ script' = script /\ failures' = failures /\ fds' = fds /\ taint' = taint
      /\ buffer' = buffer /\ echoed' = echoed /\ output' = output
      /\ (p = 0 => Workers = 0)
  BY DEF IInv, LoadFails, Kill
<1>2. PICK x \in {"status", "killed"} : pc' = [pc EXCEPT ![p] = x]
  BY DEF LoadFails, Kill
<1>3. /\ Processes' = Processes /\ pc' \in [Processes -> Stages] /\ pc'[p] = x
      /\ \A q \in Processes : q # p => pc'[q] = pc[q]
  BY <1>1, <1>2, SameProcesses DEF Stages
<1>4. TypeOK'
  BY <1>1, <1>3 DEF TypeOK
<1>5. Roles'
  <2>1. 0 \in Processes
    BY <1>1 DEF TypeOK
  <2>2. Workers > 0 => p # 0 /\ pc'[0] = pc[0] /\ fds'[0] = fds[0]
    BY <1>1, <1>3, <2>1
  <2> QED
    BY <1>1, <2>2 DEF Roles
<1>6. Counted' /\ VerdictTrue'
  <2>1. Counted /\ VerdictTrue /\ echoed' = echoed /\ fds' = fds /\ Processes' = Processes
    BY <1>1, <1>3
  <2> QED
    BY <2>1 DEF Counted, VerdictTrue, AllReports, Reports
<1>8. Single' /\ OnlyInheritedTwice'
  <2>1. /\ Single /\ OnlyInheritedTwice /\ Processes' = Processes
        /\ mode' = mode /\ buffer' = buffer /\ echoed' = echoed /\ output' = output
    BY <1>1, <1>3
  <2> QED
    BY <2>1 DEF Single, OnlyInheritedTwice, Printed
<1>7. Kept'
  BY <1>1, <1>3 DEF Kept, In
<1> QED
  BY <1>4, <1>5, <1>6, <1>7, <1>8 DEF IInv

LEMMA ExitStep == ASSUME IInv, NEW p \in Processes, Exit(p) PROVE IInv'
<1>1. /\ TypeOK /\ Roles /\ Counted /\ VerdictTrue /\ Kept /\ Single /\ OnlyInheritedTwice
      /\ pc[p] = "exit" \/ p = 0
      /\ mode' = mode /\ script' = script /\ failures' = failures /\ fds' = fds /\ taint' = taint
      /\ echoed' = echoed /\ output' = output \o buffer[p] /\ buffer' = [buffer EXCEPT ![p] = <<>>]
      /\ pc' = [pc EXCEPT ![p] = "done"]
  BY DEF IInv, Exit
<1>2. /\ Processes' = Processes /\ pc' \in [Processes -> Stages] /\ pc'[p] = "done"
      /\ \A q \in Processes : q # p => pc'[q] = pc[q]
  BY <1>1, SameProcesses DEF Stages
<1>3. /\ output \in Seq(Lines) /\ buffer \in [Processes -> Seq(Lines)] /\ <<>> \in Seq(Lines) /\ Len(<<>>) = 0
      /\ mode \in {"line", "full"}
  BY <1>1, EmptySeq DEF TypeOK
<1>4. /\ buffer' \in [Processes -> Seq(Lines)] /\ buffer'[p] = <<>>
      /\ \A q \in Processes : q # p => buffer'[q] = buffer[q]
  BY <1>1, <1>3
<1> DEFINE m == Len(output)
           n == Len(buffer[p])
<1>5. m \in Nat /\ n \in Nat
  BY <1>3, LenProperties
<1>6. output' \in Seq(Lines) /\ Len(output') = m + n
  BY <1>1, <1>3, ConcatProperties
<1>7. \A k \in 1..m : k \in 1..Len(output') /\ output'[k] = output[k]
  <2>1. \A k \in 1..m + n : output'[k] = IF k <= m THEN output[k] ELSE buffer[p][k - m]
    BY <1>1, <1>3, ConcatProperties
  <2> QED
    BY <1>5, <1>6, <2>1
<1>8. \A k \in 1..n : m + k \in 1..Len(output') /\ output'[m + k] = buffer[p][k]
  <2>1. \A k \in 1..m + n : output'[k] = IF k <= m THEN output[k] ELSE buffer[p][k - m]
    BY <1>1, <1>3, ConcatProperties
  <2> QED
    BY <1>5, <1>6, <2>1, SMTT(30)
<1>9. \A k \in 1..Len(output') : k \in 1..m \/ \E i \in 1..n : k = m + i
  <2>1. ASSUME NEW k \in 1..Len(output'), k \notin 1..m PROVE k - m \in 1..n /\ k = m + (k - m)
    BY <1>5, <1>6, <2>1
  <2> QED
    BY <2>1
<1> HIDE DEF m, n
<1>10. TypeOK'
  BY <1>1, <1>2, <1>4, <1>6 DEF TypeOK
<1>11. Roles'
  BY <1>1, <1>2 DEF Roles, TypeOK
<1>12. Counted' /\ VerdictTrue'
  <2>1. Counted /\ VerdictTrue /\ echoed' = echoed /\ fds' = fds /\ Processes' = Processes
    BY <1>1, <1>2
  <2> QED
    BY <2>1 DEF Counted, VerdictTrue, AllReports, Reports
<1>13. Kept'
  <2>1. ASSUME NEW q \in Processes, NEW j \in 1..Len(echoed[q])
        PROVE  In(echoed[q][j], output') \/ In(echoed[q][j], buffer'[q])
    <3>1. In(echoed[q][j], output) => In(echoed[q][j], output')
      BY <1>7 DEF In, m
    <3>2. In(echoed[q][j], buffer[p]) => In(echoed[q][j], output')
      BY <1>8 DEF In, n
    <3> QED
      BY <1>1, <1>4, <3>1, <3>2 DEF Kept
  <2>2. \A q \in Processes : pc'[q] = "done" => buffer'[q] = <<>>
    BY <1>1, <1>2, <1>4 DEF Kept
  <2> QED
    BY <1>1, <1>2, <2>1, <2>2 DEF Kept
<1>14. Single'
  <2>1. mode = "line" => \A q \in Processes : buffer'[q] = <<>>
    BY <1>1, <1>4 DEF Single
  <2>2. ASSUME NEW k \in 1..Len(output') PROVE Printed(output'[k])
    <3>1. CASE k \in 1..m
      BY <1>1, <1>7, <3>1 DEF Single, m
    <3>2. CASE \E i \in 1..n : k = m + i
      BY <1>1, <1>8, <3>2 DEF Single, n
    <3> QED
      BY <1>9, <3>1, <3>2
  <2>3. ASSUME NEW q \in Processes, NEW j \in 1..Len(buffer'[q])
        PROVE  /\ buffer'[q][j].by \in {0, q} /\ Printed(buffer'[q][j])
               /\ \A k \in 1..Len(buffer'[q]) : j # k /\ buffer'[q][j] = buffer'[q][k] => buffer'[q][j].by = 0
               /\ \A k \in 1..Len(output') : buffer'[q][j] = output'[k] => buffer'[q][j].by = 0
    <3>1. q # p /\ buffer'[q] = buffer[q] /\ j \in 1..Len(buffer[q])
      BY <1>3, <1>4
    <3>2. ASSUME NEW k \in 1..Len(output'), buffer[q][j] = output'[k] PROVE buffer[q][j].by = 0
      <4>1. CASE k \in 1..m
        BY <1>1, <1>7, <3>1, <3>2, <4>1 DEF Single, m
      <4>2. CASE \E i \in 1..n : k = m + i
        <5>1. PICK i \in 1..n : buffer[q][j] = buffer[p][i]
          BY <1>8, <3>2, <4>2
        <5>2. buffer[q][j].by \in {0, q} /\ buffer[p][i].by \in {0, p}
          BY <1>1, <3>1 DEF Single, n
        <5> QED
          BY <3>1, <5>1, <5>2
      <4> QED
        BY <1>9, <4>1, <4>2
    <3> QED
      BY <1>1, <3>1, <3>2 DEF Single
  <2> QED
    <3>1. mode' = mode /\ Processes' = Processes /\ echoed' = echoed
      BY <1>1, <1>2
    <3>2. \A k \in 1..Len(output') :
            output'[k].by \in Processes /\ output'[k].nr <= Len(echoed[output'[k].by])
      BY <2>2 DEF Printed
    <3>3. \A q \in Processes : \A k \in 1..Len(buffer'[q]) :
            buffer'[q][k].by \in Processes /\ buffer'[q][k].nr <= Len(echoed[buffer'[q][k].by])
      BY <2>3 DEF Printed
    <3> QED
      BY <2>1, <2>3, <3>1, <3>2, <3>3 DEF Single, Printed
<1>15. OnlyInheritedTwice'
  <2> SUFFICES ASSUME NEW j \in 1..Len(output'), NEW k \in 1..Len(output'), j # k, output'[j] = output'[k]
               PROVE  mode = "full" /\ output'[j].by = 0
    BY <1>1 DEF OnlyInheritedTwice
  <2>0. n # 0 => mode = "full"
    BY <1>1, <1>3 DEF Single, n
  <2>1. CASE j \in 1..m /\ k \in 1..m
    BY <1>1, <1>7, <2>1 DEF OnlyInheritedTwice, m
  <2>2. ASSUME NEW a \in 1..m, NEW i \in 1..n, output[a] = buffer[p][i] PROVE mode = "full" /\ output[a].by = 0
    BY <1>1, <1>5, <2>0, <2>2 DEF Single, m, n
  <2>3. CASE j \in 1..m /\ \E i \in 1..n : k = m + i
    BY <1>7, <1>8, <2>2, <2>3
  <2>4. CASE k \in 1..m /\ \E i \in 1..n : j = m + i
    BY <1>7, <1>8, <2>2, <2>4
  <2>5. CASE (\E i \in 1..n : j = m + i) /\ \E i \in 1..n : k = m + i
    <3>1. PICK a \in 1..n, b \in 1..n : j = m + a /\ k = m + b
      BY <2>5
    <3>2. a # b /\ output'[j] = buffer[p][a] /\ buffer[p][a] = buffer[p][b]
      BY <1>8, <3>1
    <3> QED
      BY <1>1, <1>5, <2>0, <3>2 DEF Single, n
  <2> QED
    BY <1>9, <2>1, <2>3, <2>4, <2>5
<1> QED
  BY <1>10, <1>11, <1>12, <1>13, <1>14, <1>15 DEF IInv

\* A worker begins with the unwritten lines of the main program.
LEMMA ForkStep == ASSUME IInv, Fork PROVE IInv'
<1>0. PICK child : child = Cardinality(Processes)
  OBVIOUS
<1> DEFINE Extended(f, x) == [q \in Processes \cup {child} |-> IF q = child THEN x ELSE f[q]]
<1>1. /\ TypeOK /\ Roles /\ Counted /\ VerdictTrue /\ Kept /\ Single /\ OnlyInheritedTwice
      /\ mode' = mode /\ output' = output /\ taint' = taint /\ Workers > 0 /\ pc[0] = "script"
  BY DEF IInv, Fork
<1>2. PICK n \in Nat : Processes = 0..n
  BY <1>1 DEF TypeOK
<1>3. child = n + 1
  <2>1. Cardinality(0..n) = n + 1
    BY <1>2, FS_Interval
  <2> QED
    BY <1>0, <1>2, <2>1
<1>4. /\ Processes \cup {child} = 0..n + 1 /\ child \notin Processes /\ 0 \in Processes
      /\ child # 0 /\ child \in Nat /\ Processes \subseteq Nat
  BY <1>2, <1>3
<1>5. /\ script' = Extended(script, ((child - 1) \div Workers) + 1) /\ failures' = Extended(failures, failures[0])
      /\ fds' = Extended(fds, fds[0]) /\ echoed' = Extended(echoed, <<>>) /\ buffer' = Inherit(child)
  BY <1>0 DEF Fork
<1>6. PICK x \in {"script", "reap"} : pc' = Extended([pc EXCEPT ![0] = x], "script")
  <2> DEFINE y == IF child < Scripts * Workers THEN "script" ELSE "reap"
  <2>1. pc' = Extended([pc EXCEPT ![0] = y], "script") /\ y \in {"script", "reap"}
    BY <1>0 DEF Fork
  <2> HIDE DEF y
  <2> QED
    BY <2>1
<1>7. Processes' = Processes \cup {child}
  BY <1>6 DEF Processes
<1>8. /\ pc' \in [Processes' -> Stages] /\ pc'[0] = x /\ pc'[child] = "script"
      /\ \A q \in Processes : q # 0 => pc'[q] = pc[q]
  <2>1. pc \in [Processes -> Stages] /\ x \in Stages /\ "script" \in Stages
    BY <1>1 DEF TypeOK, Stages
  <2> QED
    BY <1>4, <1>6, <1>7, <2>1
<1>9. /\ echoed'[child] = <<>> /\ buffer'[child] = buffer[0] /\ fds'[child] = fds[0]
      /\ \A q \in Processes : echoed'[q] = echoed[q] /\ buffer'[q] = buffer[q] /\ fds'[q] = fds[q]
  BY <1>4, <1>5 DEF Inherit
<1>10. Len(<<>>) = 0 /\ <<>> \in Seq(Lines)
  BY EmptySeq
<1>11. TypeOK'
  <2>1. script' \in [Processes' -> Nat]
    <3>1. ((child - 1) \div Workers) + 1 \in Nat
      BY <1>1, <1>2, <1>3, StatusAssumption
    <3>2. script \in [Processes -> Nat]
      BY <1>1 DEF TypeOK
    <3> QED
      BY <1>5, <1>7, <3>1, <3>2
  <2>2. failures' \in [Processes' -> Nat] /\ fds' \in [Processes' -> Nat]
    <3>1. failures \in [Processes -> Nat] /\ fds \in [Processes -> Nat]
      BY <1>1 DEF TypeOK
    <3> QED
      BY <1>4, <1>5, <1>7, <3>1
  <2>3. buffer' \in [Processes' -> Seq(Lines)] /\ echoed' \in [Processes' -> Seq(Lines)]
    <3>1. buffer \in [Processes -> Seq(Lines)] /\ echoed \in [Processes -> Seq(Lines)]
      BY <1>1 DEF TypeOK
    <3> QED
      BY <1>4, <1>5, <1>7, <1>10, <3>1 DEF Inherit
  <2>4. \E k \in Nat : Processes' = 0..k
    <3>1. n + 1 \in Nat
      BY <1>2
    <3> QED
      BY <1>4, <1>7, <3>1
  <2> QED
    BY <1>1, <1>8, <2>1, <2>2, <2>3, <2>4 DEF TypeOK
<1>12. Roles'
  BY <1>1, <1>4, <1>8, <1>9 DEF Roles
<1>13. Counted'
  <2>1. ASSUME NEW q \in Processes PROVE IsFiniteSet(AllReports(q)') /\ fds'[q] <= 2 * Cardinality(AllReports(q)')
    <3>1. AllReports(q)' = AllReports(q) /\ fds'[q] = fds[q]
      BY <1>9 DEF AllReports, Reports
    <3> QED
      BY <1>1, <3>1 DEF Counted
  <2>2. IsFiniteSet(AllReports(child)') /\ fds'[child] <= 2 * Cardinality(AllReports(child)')
    <3>1. AllReports(child)' = {}
      BY <1>9, <1>10 DEF AllReports, Reports
    <3>2. fds'[child] = 0
      BY <1>1, <1>9 DEF Roles
    <3> QED
      BY <3>1, <3>2, FS_EmptySet
  <2> QED
    BY <1>7, <2>1, <2>2 DEF Counted
<1>14. VerdictTrue'
  <2>1. \A q \in Processes : \A j : Reports(q, j)' = Reports(q, j)
    BY <1>9 DEF Reports
  <2> QED
    BY <1>1, <1>7, <1>9, <1>10, <2>1 DEF VerdictTrue
<1>15. Kept'
  <2>1. \A q \in Processes : pc'[q] = "done" => pc[q] = "done"
    BY <1>1, <1>6, <1>8
  <2>2. ASSUME NEW q \in Processes'
        PROVE  /\ \A j \in 1..Len(echoed'[q]) : In(echoed'[q][j], output) \/ In(echoed'[q][j], buffer'[q])
               /\ pc'[q] = "done" => buffer'[q] = <<>>
    <3>1. CASE q = child
      <4>1. 1..Len(echoed'[q]) = {}
        BY <1>9, <1>10, <3>1
      <4> QED
        BY <1>8, <3>1, <4>1
    <3>2. CASE q \in Processes
      <4>1. echoed'[q] = echoed[q] /\ buffer'[q] = buffer[q]
        BY <1>9, <3>2
      <4> QED
        BY <1>1, <2>1, <3>2, <4>1 DEF Kept
    <3> QED
      BY <1>7, <3>1, <3>2
  <2> QED
    BY <1>1, <2>2 DEF Kept, In
<1>16. Single'
  <2>1. ASSUME NEW line, Printed(line) PROVE line.by \in Processes' /\ line.nr <= Len(echoed'[line.by])
    BY <1>7, <1>9, <2>1 DEF Printed
  <2>2. ASSUME NEW q \in Processes', NEW j \in 1..Len(buffer'[q])
        PROVE  /\ buffer'[q][j].by \in {0, q} /\ Printed(buffer'[q][j])
               /\ \A k \in 1..Len(buffer'[q]) : j # k /\ buffer'[q][j] = buffer'[q][k] => buffer'[q][j].by = 0
               /\ \A k \in 1..Len(output) : buffer'[q][j] = output[k] => buffer'[q][j].by = 0
    <3>1. CASE q \in Processes
      BY <1>1, <1>9, <3>1 DEF Single
    <3>2. CASE q = child
      BY <1>1, <1>4, <1>9, <3>2 DEF Single
    <3> QED
      BY <1>7, <3>1, <3>2
  <2>3. mode = "line" => \A q \in Processes' : buffer'[q] = <<>>
    BY <1>1, <1>4, <1>7, <1>9 DEF Single
  <2>4. \A k \in 1..Len(output) : Printed(output[k])
    BY <1>1 DEF Single
  <2> QED
    BY <1>1, <2>1, <2>2, <2>3, <2>4 DEF Single, Printed
<1>17. OnlyInheritedTwice'
  BY <1>1 DEF OnlyInheritedTwice
<1> QED
  BY <1>11, <1>12, <1>13, <1>14, <1>15, <1>16, <1>17 DEF IInv

LEMMA NextIInv == ASSUME IInv, [StatusNext]_statusVars PROVE IInv'
<1>1. CASE EchoFork
  BY <1>1, EchoForkStep
<1>2. CASE Fork
  BY <1>2, ForkStep
<1>3. ASSUME NEW p \in Processes, RunScript(p) PROVE IInv'
  BY <1>3, RunScriptStep
<1>4. ASSUME NEW p \in Processes, LoadFails(p) \/ Kill(p) PROVE IInv'
  BY <1>4, SilentStep
<1>5. ASSUME NEW p \in Processes, PrintStatus(p) PROVE IInv'
  BY <1>5, PrintStatusStep
<1>6. ASSUME NEW p \in Processes, Exit(p) PROVE IInv'
  BY <1>6, ExitStep
<1>7. CASE UNCHANGED statusVars
  <2> USE <1>7 DEF statusVars, Processes
  <2>1. TypeOK' /\ Roles'
    BY DEF IInv, TypeOK, Roles
  <2>2. Counted' /\ VerdictTrue'
    BY DEF IInv, Counted, VerdictTrue, AllReports, Reports
  <2>3. Kept' /\ Single' /\ OnlyInheritedTwice'
    BY DEF IInv, Kept, Single, OnlyInheritedTwice, In, Printed
  <2> QED
    BY <2>1, <2>2, <2>3 DEF IInv
<1> QED
  BY <1>1, <1>2, <1>3, <1>4, <1>5, <1>6, <1>7 DEF StatusNext

(***************************************************************************)
(* The strengthening holds throughout.                                     *)
(***************************************************************************)
THEOREM Invariance == StatusSpec => []IInv
<1>1. StatusInit => IInv
  BY InitIInv
<1>2. IInv /\ [StatusNext]_statusVars => IInv'
  BY NextIInv
<1> QED
  BY <1>1, <1>2, PTL DEF StatusSpec

(***************************************************************************)
(* A report on the kernel that could open the taint file is true, however  *)
(* many processes report: a process uses up two descriptors per report, so *)
(* the first FdLimit \div 2 reports are.                                   *)
(***************************************************************************)
THEOREM VerdictsAreTrue == StatusSpec => []VerdictTrue
<1>1. StatusSpec => []IInv
  BY Invariance
<1>2. IInv => VerdictTrue
  BY DEF IInv
<1> QED
  BY <1>1, <1>2, PTL

(***************************************************************************)
(* What a process has printed is written when it has ended by itself, and  *)
(* no line is written twice, but those the main program had in its buffer  *)
(* when it forked, and those only if the output is no terminal.            *)
(***************************************************************************)
THEOREM OutputIsWhatWasPrinted == StatusSpec => []OutputWritten
<1>1. StatusSpec => []IInv
  BY Invariance
<1>2. IInv => NothingUnwritten
  <2> SUFFICES ASSUME Kept, NEW p \in Processes, pc[p] = "done", NEW j \in 1..Len(echoed[p])
               PROVE  Written(echoed[p][j]) # {}
    BY DEF IInv, NothingUnwritten
  <2>1. buffer[p] = <<>> /\ Len(<<>>) = 0
    BY EmptySeq DEF Kept
  <2>2. In(echoed[p][j], output)
    BY <2>1 DEF Kept, In
  <2> QED
    BY <2>2 DEF In, Written
<1>3. IInv => OutputWritten
  BY <1>2 DEF IInv, OutputWritten
<1> QED
  BY <1>1, <1>3, PTL
=============================================================================
