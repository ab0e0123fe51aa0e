--------------------------- MODULE LktkReplProofs ---------------------------
(***************************************************************************)
(* Theorems about LktkRepl, for sessions of any length with any number of  *)
(* signals.  Shapes says what the stack holds at each place of the loop;   *)
(* Handled, when laction is installed.                                     *)
(***************************************************************************)
EXTENDS LktkRepl, SequenceTheorems, TLAPS

\* The stack where the loop is not at one of the joints of StackBalanced.
Shapes ==
  /\ at \in {"compile", "continue"} => Len(stack) = 1
  /\ at = "running" => Len(stack) = 2
  /\ at = "ended" => Len(stack) >= 1 /\ (status # "ok" => Len(stack) = 2)
  /\ at = "ended" /\ status = "ok" => \A j \in 2..Len(stack) : stack[j][1] = "value"

\* The first signal of a chunk takes laction away, the end of the chunk as well.
Handled == handler = "laction" <=> (at \in {"running", "ended"} /\ inCall = 0)

IInv == ReplTypeOK /\ StackBalanced /\ Shapes /\ Handled /\ NoStopWithoutSignal

LEMMA OneItem ==
  ASSUME NEW x \in Items
  PROVE  <<x>> \in Seq(Items) /\ Len(<<x>>) = 1 /\ <<x>>[1] = x
  OBVIOUS

LEMMA EmptyStack == <<>> \in Seq(Items) /\ Len(<<>>) = 0
  BY EmptySeq

LEMMA AnItem ==
  ASSUME NEW kind \in ItemKinds
  PROVE  Item(kind) \in Items /\ Item(kind)[1] = kind
<1>1. <<>> \in Seq(Kinds)
  BY EmptySeq
<1> QED
  BY <1>1 DEF Items, Item

LEMMA InitIInv == ReplInit => IInv
<1> SUFFICES ASSUME ReplInit PROVE IInv
  OBVIOUS
<1>1. <<>> \in Seq(Items) /\ <<>> \in Seq(Kinds) /\ <<>> \in Seq(Seq(Kinds)) /\ Len(<<>>) = 0
  BY EmptySeq
<1>2. ReplTypeOK
  <2>1. stack \in Seq(Items) /\ typed \in Seq(Kinds) /\ units \in Seq(Seq(Kinds)) /\ hook \in BOOLEAN
    BY <1>1, Zenon DEF ReplInit
  <2>2. caught \in 0..MaxSignals /\ stopped \in Nat /\ inCall \in Nat
    BY ReplAssumption DEF ReplInit
  <2> QED
    BY <2>1, <2>2, Zenon DEF ReplInit, ReplTypeOK
<1>3. StackBalanced /\ Shapes /\ Handled
  BY <1>1 DEF ReplInit, StackBalanced, Shapes, Handled
<1>4. NoStopWithoutSignal
  BY DEF ReplInit, NoStopWithoutSignal
<1> QED
  BY <1>2, <1>3, <1>4 DEF IInv
-----------------------------------------------------------------------------
(* Reading and compiling.                                                  *)

LEMMA ReadFirstStep ==
  ASSUME IInv, NEW line \in Kinds, ReadFirst(line)
  PROVE  IInv'
<1>1. /\ typed' = Append(typed, line) /\ typed' \in Seq(Kinds)
      /\ <<line>> \in Seq(Kinds)
  BY DEF IInv, ReplTypeOK, ReadFirst
<1>2. UNCHANGED <<handler, hook, caught, stopped, inCall>>
  BY DEF ReadFirst, signals
<1>3. CASE CompilesAsReturn(line)
  <2>1. stack' = <<Item("function")>> /\ at' = "call" /\ status' = "ok" /\ units' = Append(units, <<line>>)
    BY <1>3 DEF ReadFirst
  <2>2. units' \in Seq(Seq(Kinds))
    BY <1>1, <2>1 DEF IInv, ReplTypeOK
  <2>3. stack' \in Seq(Items) /\ Len(stack') = 1 /\ stack'[1][1] = "function"
    <3>1. Item("function") \in Items /\ Item("function")[1] = "function"
      BY AnItem DEF ItemKinds
    <3> QED
      BY <2>1, <3>1, OneItem
  <2> QED
    BY <1>1, <1>2, <2>1, <2>2, <2>3 DEF IInv, ReplTypeOK, StackBalanced, Shapes, Handled, NoStopWithoutSignal, ReadFirst
<1>4. CASE ~CompilesAsReturn(line)
  <2>1. stack' = << <<"line", <<line>> >> >> /\ at' = "compile" /\ UNCHANGED <<status, units>>
    BY <1>4 DEF ReadFirst
  <2>2. stack' \in Seq(Items) /\ Len(stack') = 1
    <3>1. <<"line", <<line>> >> \in Items
      BY <1>1 DEF Items, ItemKinds
    <3> QED
      BY <2>1, <3>1, OneItem
  <2> QED
    BY <1>1, <1>2, <2>1, <2>2 DEF IInv, ReplTypeOK, StackBalanced, Shapes, Handled, NoStopWithoutSignal, ReadFirst
<1> QED
  BY <1>3, <1>4

LEMMA EndOfInputStep ==
  ASSUME IInv, EndOfInput
  PROVE  IInv'
<1>1. /\ stack' = <<>> /\ at' = "done" /\ stack' \in Seq(Items)
      /\ UNCHANGED <<status, typed, units, handler, hook, caught, stopped, inCall>>
  BY EmptySeq DEF EndOfInput, signals
<1> QED
  BY <1>1 DEF EndOfInput, IInv, ReplTypeOK, StackBalanced, Shapes, Handled, NoStopWithoutSignal

\* The text of the first item, which is there to be compiled.
LEMMA TextOnStack ==
  ASSUME ReplTypeOK, Len(stack) >= 1
  PROVE  stack[1] \in Items /\ stack[1][2] \in Seq(Kinds)
<1>1. stack \in Seq(Items) /\ 1 \in 1..Len(stack)
  BY LenProperties DEF ReplTypeOK
<1>2. stack[1] \in Items
  BY <1>1, ElementOfSeq
<1> QED
  BY <1>2 DEF Items

LEMMA CompileStep ==
  ASSUME IInv, Compile
  PROVE  IInv'
<1>1. UNCHANGED <<typed, handler, hook, caught, stopped, inCall>>
  BY DEF Compile, signals
<1>2. stack[1][2] \in Seq(Kinds)
  BY TextOnStack DEF IInv, Shapes, Compile
<1>3. CASE Compiled(stack[1][2]) = "incomplete"
  <2>1. at' = "continue" /\ UNCHANGED <<stack, status, units>>
    BY <1>3 DEF Compile
  <2> QED
    BY <1>1, <2>1 DEF Compile, IInv, ReplTypeOK, StackBalanced, Shapes, Handled, NoStopWithoutSignal
<1>4. CASE Compiled(stack[1][2]) # "incomplete"
  <2> DEFINE kind == IF Compiled(stack[1][2]) = "ok" THEN "function" ELSE "message"
  <2>1. /\ stack' = <<Item(kind)>> /\ status' = Compiled(stack[1][2])
        /\ units' = Append(units, stack[1][2])
        /\ at' = IF Compiled(stack[1][2]) = "ok" THEN "call" ELSE "report"
    BY <1>4 DEF Compile
  <2>2. units' \in Seq(Seq(Kinds))
    BY <1>2, <2>1 DEF IInv, ReplTypeOK
  <2>3. status' \in {"ok", "syntax"} /\ (at' = "call" => kind = "function") /\ at' \in {"call", "report"}
    BY <1>4, <2>1 DEF Compiled
  <2>4. stack' \in Seq(Items) /\ Len(stack') = 1 /\ stack'[1][1] = kind
    <3>1. kind \in ItemKinds
      BY DEF ItemKinds
    <3>2. Item(kind) \in Items /\ Item(kind)[1] = kind
      BY <3>1, AnItem
    <3> HIDE DEF kind
    <3> QED
      BY <2>1, <3>2, OneItem
  <2> HIDE DEF kind
  <2> QED
    BY <1>1, <2>2, <2>3, <2>4 DEF Compile, IInv, ReplTypeOK, StackBalanced, Shapes, Handled, NoStopWithoutSignal
<1> QED
  BY <1>3, <1>4

LEMMA ContinueStep ==
  ASSUME IInv, NEW line \in Kinds, ReadMore(line)
  PROVE  IInv'
<1>1. /\ typed' = Append(typed, line) /\ typed' \in Seq(Kinds) /\ at' = "compile"
      /\ UNCHANGED <<status, units, handler, hook, caught, stopped, inCall>>
  BY DEF ReadMore, signals, IInv, ReplTypeOK
<1>2. stack[1][2] \in Seq(Kinds)
  BY TextOnStack DEF IInv, Shapes, ReadMore
<1>3. stack' \in Seq(Items) /\ Len(stack') = 1
  <2>1. <<"line", Append(stack[1][2], line)>> \in Items
    <3>1. Append(stack[1][2], line) \in Seq(Kinds)
      BY <1>2, AppendProperties
    <3> QED
      BY <3>1 DEF Items, ItemKinds
  <2>2. stack' = << <<"line", Append(stack[1][2], line)>> >>
    BY DEF ReadMore, Join
  <2> QED
    BY <2>1, <2>2, OneItem
<1> QED
  BY <1>1, <1>3 DEF ReadMore, IInv, ReplTypeOK, StackBalanced, Shapes, Handled, NoStopWithoutSignal

LEMMA EndInsideStep ==
  ASSUME IInv, NEW prompt \in {"nil", "prompt"}, EndInside(prompt)
  PROVE  IInv'
<1>1. /\ status' = "syntax" /\ at' = "report" /\ units' = Append(units, stack[1][2])
      /\ UNCHANGED <<typed, handler, hook, caught, stopped, inCall>>
  BY DEF EndInside, signals
<1>2. units' \in Seq(Seq(Kinds))
  <2>1. stack[1][2] \in Seq(Kinds)
    BY TextOnStack, SMTT(30) DEF IInv, Shapes, EndInside
  <2> QED
    BY <1>1, <2>1 DEF IInv, ReplTypeOK
<1>3. stack' \in Seq(Items) /\ Len(stack') = 1
  <2>1. Item(prompt) \in Items
    BY AnItem DEF ItemKinds
  <2> QED
    BY <2>1, OneItem DEF EndInside
<1> QED
  BY <1>1, <1>2, <1>3 DEF EndInside, IInv, ReplTypeOK, StackBalanced, Shapes, Handled, NoStopWithoutSignal
-----------------------------------------------------------------------------
(* The call of a chunk.                                                    *)

LEMMA EnterCallStep ==
  ASSUME IInv, EnterCall
  PROVE  IInv'
<1>1. /\ at' = "running" /\ handler' = "laction" /\ inCall' = 0
      /\ UNCHANGED <<status, hook, typed, units, caught, stopped>>
  BY DEF EnterCall
<1>2. /\ stack' \in Seq(Items) /\ Len(stack') = 2
      /\ stack'[1][1] = "msghandler" /\ stack'[2][1] = "function"
  <2>1. Item("msghandler") \in Items /\ Item("msghandler")[1] = "msghandler"
    BY AnItem DEF ItemKinds
  <2>2. /\ <<Item("msghandler")>> \in Seq(Items) /\ Len(<<Item("msghandler")>>) = 1
        /\ <<Item("msghandler")>>[1] = Item("msghandler")
    BY <2>1, OneItem
  <2>3. stack \in Seq(Items) /\ Len(stack) = 1 /\ stack[1][1] = "function"
    BY DEF EnterCall, IInv, ReplTypeOK, StackBalanced
  <2>4. stack' = <<Item("msghandler")>> \o stack
    BY DEF EnterCall
  <2>5. /\ stack' \in Seq(Items) /\ Len(stack') = 2
        /\ stack'[1] = <<Item("msghandler")>>[1] /\ stack'[2] = stack[1]
    BY <2>2, <2>3, <2>4, ConcatProperties
  <2> QED
    BY <2>1, <2>2, <2>3, <2>5
<1> QED
  BY <1>1, <1>2 DEF EnterCall, IInv, ReplTypeOK, StackBalanced, Shapes, Handled, NoStopWithoutSignal

\* lua_pcall leaves the message handler and what it puts above it.
LEMMA EndedShape ==
  ASSUME IInv, at = "running", NEW result, NEW values \in Seq(Items), Ended(result, values)
  PROVE  /\ stack' \in Seq(Items) /\ Len(stack') = 1 + Len(values)
         /\ \A j \in 2..Len(stack') : stack'[j] = values[j - 1]
<1>1. stack \in Seq(Items) /\ Len(stack) = 2
  BY DEF IInv, ReplTypeOK, Shapes
<1>2. Front(stack) \in Seq(Items) /\ Len(Front(stack)) = 1
  <2>1. \A j \in 1..1 : stack[j] \in Items
    BY <1>1, ElementOfSeq
  <2> QED
    BY <1>1, <2>1, SubSeqProperties DEF Front
<1>3. stack' = Front(stack) \o values
  BY DEF Ended
<1>4. Len(values) \in Nat
  BY LenProperties
<1> DEFINE front == Front(stack)
<1> HIDE DEF front
<1>5. /\ front \o values \in Seq(Items) /\ Len(front \o values) = Len(front) + Len(values)
      /\ \A j \in 1..(Len(front) + Len(values)) :
           (front \o values)[j] = IF j <= Len(front) THEN front[j] ELSE values[j - Len(front)]
  BY <1>2, ConcatProperties DEF front
<1> QED
  BY <1>2, <1>3, <1>4, <1>5 DEF front

LEMMA Message == <<Item("message")>> \in Seq(Items) /\ Len(<<Item("message")>>) = 1
<1>1. Item("message") \in Items
  BY AnItem DEF ItemKinds
<1> QED
  BY <1>1, OneItem

LEMMA FailedStep ==
  ASSUME IInv, at = "running", Ended("error", <<Item("message")>>),
         hook' \in BOOLEAN, stopped' \in Nat
  PROVE  ReplTypeOK' /\ StackBalanced' /\ Shapes' /\ Handled'
<1> DEFINE values == <<Item("message")>>
<1>1. stack' \in Seq(Items) /\ Len(stack') = 2
  <2>1. values \in Seq(Items) /\ Len(values) = 1 /\ Ended("error", values)
    BY Message
  <2> HIDE DEF values
  <2>2. stack' \in Seq(Items) /\ Len(stack') = 1 + Len(values)
    BY <2>1, EndedShape
  <2> QED
    BY <2>1, <2>2
<1>2. /\ at' = "ended" /\ status' = "error"
      /\ UNCHANGED <<handler, typed, units, caught, inCall>>
  BY DEF Ended
<1> QED
  BY <1>1, <1>2 DEF IInv, ReplTypeOK, StackBalanced, Shapes, Handled

LEMMA FinishStep ==
  ASSUME IInv, NEW n \in 0..MaxResults, Finish(n)
  PROVE  IInv'
<1> DEFINE values == [j \in 1..n |-> Item("value")]
<1>1. at = "running" /\ Ended("ok", values) /\ UNCHANGED <<hook, stopped>>
  BY DEF Finish
<1>2. /\ at' = "ended" /\ status' = "ok" /\ UNCHANGED <<handler, typed, units, caught, inCall>>
  BY <1>1 DEF Ended
<1>3. Item("value") \in Items /\ Item("value")[1] = "value" /\ n \in Nat
  BY AnItem, ReplAssumption DEF ItemKinds
<1>4. values \in Seq(Items) /\ Len(values) = n /\ \A j \in 1..n : values[j] = Item("value")
  BY <1>3
<1> HIDE DEF values
<1>5. /\ stack' \in Seq(Items) /\ Len(stack') = 1 + n
      /\ \A j \in 2..Len(stack') : stack'[j] = values[j - 1]
  BY <1>1, <1>4, EndedShape
<1>6. \A j \in 2..Len(stack') : stack'[j][1] = "value"
  BY <1>3, <1>4, <1>5
<1> QED
  BY <1>1, <1>2, <1>3, <1>5, <1>6 DEF IInv, ReplTypeOK, StackBalanced, Shapes, Handled, NoStopWithoutSignal

LEMMA FailStep ==
  ASSUME IInv, Fail
  PROVE  IInv'
<1>1. /\ at = "running" /\ Ended("error", <<Item("message")>>) /\ UNCHANGED <<hook, stopped>>
      /\ UNCHANGED caught
  BY DEF Fail, Ended
<1>2. hook' \in BOOLEAN /\ stopped' \in Nat
  BY <1>1, Zenon DEF IInv, ReplTypeOK
<1>3. NoStopWithoutSignal'
  BY <1>1 DEF IInv, NoStopWithoutSignal
<1> QED
  BY <1>1, <1>2, <1>3, FailedStep DEF IInv

LEMMA StopStep ==
  ASSUME IInv, NEW protected \in BOOLEAN, Stop(protected)
  PROVE  IInv'
<1>1. /\ at = "running" /\ hook /\ hook' = FALSE /\ stopped' = stopped + 1 /\ UNCHANGED caught
  BY DEF Stop, HookAfterStop, Ended
<1>2. hook' \in BOOLEAN /\ stopped' \in Nat
  <2>1. stopped' \in Nat
    BY <1>1 DEF IInv, ReplTypeOK
  <2>2. hook' \in BOOLEAN
    BY <1>1, Zenon
  <2> QED
    BY <2>1, <2>2
<1>3. NoStopWithoutSignal'
  <2>1. stopped + 1 <= caught /\ stopped \in Nat
    BY <1>1 DEF IInv, ReplTypeOK, NoStopWithoutSignal
  <2> QED
    BY <1>1, <2>1 DEF NoStopWithoutSignal
<1>4. CASE protected
  <2>1. UNCHANGED <<stack, at, status, handler, typed, units, caught, inCall>>
    BY <1>4 DEF Stop
  <2> QED
    BY <1>2, <1>3, <2>1 DEF IInv, ReplTypeOK, StackBalanced, Shapes, Handled
<1>5. CASE ~protected
  <2>1. Ended("error", <<Item("message")>>)
    BY <1>5 DEF Stop
  <2> QED
    BY <1>1, <1>2, <1>3, <2>1, FailedStep DEF IInv
<1> QED
  BY <1>4, <1>5

LEMMA LeaveCallStep ==
  ASSUME IInv, LeaveCall
  PROVE  IInv'
<1>1. /\ handler' = "default" /\ at' = IF status = "ok" THEN "print" ELSE "report"
      /\ UNCHANGED <<status, hook, typed, units, caught, stopped, inCall>>
  BY DEF LeaveCall
<1>2. stack \in Seq(Items) /\ Len(stack) \in Nat /\ Len(stack) >= 1
  <2>1. stack \in Seq(Items) /\ Len(stack) >= 1
    BY DEF LeaveCall, IInv, ReplTypeOK, Shapes
  <2> QED
    BY <2>1, LenProperties
<1>3. stack' \in Seq(Items) /\ Len(stack') = Len(stack) - 1 /\ \A j \in 1..Len(stack') : stack'[j] = stack[j + 1]
  <2>1. stack # <<>>
    BY <1>2, EmptySeq
  <2>2. stack' = Tail(stack)
    BY DEF LeaveCall, StackAfterCall
  <2> QED
    BY <1>2, <2>1, <2>2, HeadTailProperties
<1>4. status = "ok" => \A j \in 1..Len(stack') : stack'[j][1] = "value"
  <2>1. status = "ok" => \A j \in 2..Len(stack) : stack[j][1] = "value"
    BY DEF LeaveCall, IInv, Shapes
  <2> QED
    BY <1>2, <1>3, <2>1
<1>5. status # "ok" => Len(stack') = 1
  BY <1>3 DEF LeaveCall, IInv, Shapes
<1> QED
  BY <1>1, <1>3, <1>4, <1>5 DEF LeaveCall, IInv, ReplTypeOK, StackBalanced, Shapes, Handled, NoStopWithoutSignal

LEMMA PrintResultsStep ==
  ASSUME IInv, PrintResults
  PROVE  IInv'
<1>1. at = "print" /\ at' = "load" /\ UNCHANGED <<status, handler, typed, units, caught, inCall>>
  BY DEF PrintResults
<1>2. stack' \in Seq(Items)
  <2>1. <<>> \in Seq(Items)
    BY EmptySeq
  <2>2. <<Item("message"), Item("message")>> \in Seq(Items)
    <3>1. Item("message") \in Items
      BY AnItem DEF ItemKinds
    <3> QED
      BY <3>1
  <2> QED
    BY <2>1, <2>2 DEF PrintResults
<1>3. \/ hook /\ hook' = FALSE /\ stopped' = stopped + 1
      \/ UNCHANGED <<hook, stopped>>
  BY DEF PrintResults, HookAfterStop
<1>4. hook' \in BOOLEAN /\ stopped' \in Nat
  <2>1. hook \in BOOLEAN /\ stopped \in Nat /\ stopped + 1 \in Nat
    <3>1. stopped \in Nat
      BY DEF IInv, ReplTypeOK
    <3>2. stopped + 1 \in Nat
      BY <3>1
    <3> QED
      BY <3>1, <3>2, Zenon DEF IInv, ReplTypeOK
  <2>2. hook' \in BOOLEAN
    BY <1>3, <2>1, Zenon
  <2> QED
    BY <1>3, <2>1, <2>2
<1>5. NoStopWithoutSignal'
  <2>1. stopped \in Nat /\ hook \in BOOLEAN
    BY DEF IInv, ReplTypeOK
  <2>2. CASE hook /\ hook' = FALSE /\ stopped' = stopped + 1
    BY <1>1, <2>1, <2>2 DEF IInv, NoStopWithoutSignal
  <2>3. CASE UNCHANGED <<hook, stopped>>
    BY <1>1, <2>3 DEF IInv, NoStopWithoutSignal
  <2> QED
    BY <1>3, <2>2, <2>3
<1> QED
  BY <1>1, <1>2, <1>4, <1>5 DEF IInv, ReplTypeOK, StackBalanced, Shapes, Handled

LEMMA ReportStep ==
  ASSUME IInv, Report
  PROVE  IInv'
<1>1. at = "report" /\ at' = "load" /\ UNCHANGED <<status, typed, units, handler, hook, caught, stopped, inCall>>
  BY DEF Report, signals
<1>2. stack' \in Seq(Items)
  <2>1. stack \in Seq(Items) /\ Len(stack) = 1
    BY <1>1 DEF IInv, ReplTypeOK, StackBalanced
  <2>2. SubSeq(stack, 1, Len(stack) - 1) = <<>>
    BY <2>1, SubSeqEmpty
  <2>3. <<>> \in Seq(Items)
    BY EmptySeq
  <2> QED
    BY <2>2, <2>3 DEF Report, Front
<1> QED
  BY <1>1, <1>2 DEF IInv, ReplTypeOK, StackBalanced, Shapes, Handled, NoStopWithoutSignal

LEMMA InterruptStep ==
  ASSUME IInv, Interrupt
  PROVE  IInv'
<1>1. /\ at \notin {"killed", "done"} /\ caught < MaxSignals /\ inCall' = inCall + 1
      /\ UNCHANGED <<stack, status, typed, units, stopped>>
  BY DEF Interrupt
<1>2. CASE handler = "default"
  <2>1. at' = "killed" /\ UNCHANGED <<handler, hook, caught>>
    BY <1>2 DEF Interrupt
  <2> QED
    BY <1>1, <1>2, <2>1 DEF IInv, ReplTypeOK, StackBalanced, Shapes, Handled, NoStopWithoutSignal
<1>3. CASE handler # "default"
  <2>1. handler' = "default" /\ hook' = TRUE /\ caught' = caught + 1 /\ at' = at
    BY <1>3 DEF Interrupt
  <2>2. ReplTypeOK'
    <3>1. caught' \in 0..MaxSignals /\ inCall' \in Nat
      BY <1>1, <2>1, ReplAssumption DEF IInv, ReplTypeOK
    <3> QED
      BY <1>1, <2>1, <3>1 DEF IInv, ReplTypeOK
  <2>3. NoStopWithoutSignal'
    <3>1. caught \in Nat /\ stopped \in Nat /\ stopped <= caught
      <4>1. caught \in 0..MaxSignals /\ stopped \in Nat /\ hook \in BOOLEAN
        BY DEF IInv, ReplTypeOK
      <4> QED
        BY <4>1, ReplAssumption DEF IInv, NoStopWithoutSignal
    <3> QED
      BY <1>1, <2>1, <3>1 DEF NoStopWithoutSignal
  <2> QED
    BY <1>1, <2>1, <2>2, <2>3 DEF IInv, StackBalanced, Shapes, Handled, ReplTypeOK
<1> QED
  BY <1>2, <1>3
-----------------------------------------------------------------------------
LEMMA NextIInv == IInv /\ [ReplNext]_replVars => IInv'
<1> SUFFICES ASSUME IInv, [ReplNext]_replVars PROVE IInv'
  OBVIOUS
<1>1. CASE UNCHANGED replVars
  BY <1>1 DEF replVars, IInv, ReplTypeOK, StackBalanced, Shapes, Handled, NoStopWithoutSignal
<1>2. ASSUME NEW line \in Kinds, ReadFirst(line) \/ ReadMore(line) PROVE IInv'
  BY <1>2, ReadFirstStep, ContinueStep
<1>3. CASE EndOfInput \/ Compile \/ EnterCall \/ Fail \/ LeaveCall \/ PrintResults \/ Report \/ Interrupt
  BY <1>3, EndOfInputStep, CompileStep, EnterCallStep, FailStep, LeaveCallStep, PrintResultsStep, ReportStep, InterruptStep
<1>4. ASSUME NEW prompt \in {"nil", "prompt"}, EndInside(prompt) PROVE IInv'
  BY <1>4, EndInsideStep
<1>5. ASSUME NEW n \in 0..MaxResults, Finish(n) PROVE IInv'
  BY <1>5, FinishStep
<1>6. ASSUME NEW protected \in BOOLEAN, Stop(protected) PROVE IInv'
  BY <1>6, StopStep
<1> QED
  BY <1>1, <1>2, <1>3, <1>4, <1>5, <1>6 DEF ReplNext

(***************************************************************************)
(* The strengthening holds throughout.                                     *)
(***************************************************************************)
THEOREM Invariance == ReplSpec => []IInv
  BY InitIInv, NextIInv, PTL DEF ReplSpec
-----------------------------------------------------------------------------
(* The lines in the texts.                                                 *)

LEMMA LineDivided ==
  ASSUME NEW lines \in Seq(Kinds), NEW texts \in Seq(Seq(Kinds)), NEW rest \in Seq(Kinds), NEW line \in Kinds,
         Divided(lines, texts, rest)
  PROVE  Divided(Append(lines, line), texts, Append(rest, line))
<1>1. PICK cut \in [0..Len(texts) -> 0..Len(lines)] :
        /\ cut[0] = 0 /\ Len(lines) = cut[Len(texts)] + Len(rest)
        /\ \A j \in 1..Len(rest) : rest[j] = lines[cut[Len(texts)] + j]
        /\ \A k \in 1..Len(texts) :
             /\ cut[k] = cut[k - 1] + Len(texts[k])
             /\ \A j \in 1..Len(texts[k]) : texts[k][j] = lines[cut[k - 1] + j]
  BY DEF Divided
<1> DEFINE more == Append(lines, line)
           longer == Append(rest, line)
<1>2. /\ Len(more) = Len(lines) + 1 /\ more[Len(lines) + 1] = line
      /\ \A j \in 1..Len(lines) : more[j] = lines[j]
  BY AppendProperties
<1>3. /\ Len(longer) = Len(rest) + 1 /\ longer[Len(rest) + 1] = line
      /\ \A j \in 1..Len(rest) : longer[j] = rest[j]
  BY AppendProperties
<1>4. Len(lines) \in Nat /\ Len(rest) \in Nat /\ Len(texts) \in Nat
  BY LenProperties
<1> HIDE DEF more, longer
<1>5. \A k \in 0..Len(texts) : cut[k] \in 0..Len(lines)
  BY <1>1
<1>6. cut \in [0..Len(texts) -> 0..Len(more)]
  BY <1>2, <1>4, <1>5
<1>7. cut[0] = 0 /\ Len(more) = cut[Len(texts)] + Len(longer)
  <2>1. cut[Len(texts)] \in Nat
    BY <1>4, <1>5
  <2>2. Len(lines) = cut[Len(texts)] + Len(rest)
    BY <1>1
  <2>3. Len(more) = Len(lines) + 1 /\ Len(longer) = Len(rest) + 1
    BY <1>2, <1>3
  <2>4. Len(more) = cut[Len(texts)] + Len(longer)
    BY <1>4, <2>1, <2>2, <2>3
  <2> QED
    BY <1>1, <2>4
<1>8. ASSUME NEW j \in 1..Len(longer)
      PROVE  longer[j] = more[cut[Len(texts)] + j]
  <2>1. cut[Len(texts)] \in Nat
    BY <1>4, <1>5
  <2>2. CASE j = Len(rest) + 1
    <3>1. cut[Len(texts)] + j = Len(lines) + 1
      BY <1>1, <1>4, <2>1, <2>2
    <3> QED
      BY <1>2, <1>3, <2>2, <3>1
  <2>3. CASE j \in 1..Len(rest)
    <3>1. cut[Len(texts)] + j \in 1..Len(lines)
      BY <1>1, <1>4, <2>1, <2>3
    <3> QED
      BY <1>1, <1>2, <1>3, <2>3, <3>1
  <2>4. j \in 1..(Len(rest) + 1)
    BY <1>3
  <2>5. j = Len(rest) + 1 \/ j \in 1..Len(rest)
    BY <1>4, <2>4
  <2> QED
    BY <2>2, <2>3, <2>5
<1>9. ASSUME NEW k \in 1..Len(texts)
      PROVE  /\ cut[k] = cut[k - 1] + Len(texts[k])
             /\ \A j \in 1..Len(texts[k]) : texts[k][j] = more[cut[k - 1] + j]
  <2>1. cut[k - 1] \in Nat /\ cut[k] \in 0..Len(lines) /\ Len(texts[k]) \in Nat
    <3>1. texts[k] \in Seq(Kinds)
      BY ElementOfSeq
    <3> QED
      BY <1>4, <1>5, <3>1, LenProperties
  <2>2. \A j \in 1..Len(texts[k]) : cut[k - 1] + j \in 1..Len(lines)
    BY <1>1, <1>4, <2>1, SMTT(30)
  <2> QED
    BY <1>1, <1>2, <2>2
<1> QED
  BY <1>6, <1>7, <1>8, <1>9 DEF Divided, more, longer

LEMMA TextDivided ==
  ASSUME NEW lines \in Seq(Kinds), NEW texts \in Seq(Seq(Kinds)), NEW rest \in Seq(Kinds),
         Divided(lines, texts, rest)
  PROVE  Divided(lines, Append(texts, rest), <<>>)
<1>1. PICK cut \in [0..Len(texts) -> 0..Len(lines)] :
        /\ cut[0] = 0 /\ Len(lines) = cut[Len(texts)] + Len(rest)
        /\ \A j \in 1..Len(rest) : rest[j] = lines[cut[Len(texts)] + j]
        /\ \A k \in 1..Len(texts) :
             /\ cut[k] = cut[k - 1] + Len(texts[k])
             /\ \A j \in 1..Len(texts[k]) : texts[k][j] = lines[cut[k - 1] + j]
  BY DEF Divided
<1> DEFINE more == Append(texts, rest)
           ends == [k \in 0..Len(more) |-> IF k = Len(more) THEN Len(lines) ELSE cut[k]]
           none == <<>>
<1>2. /\ more \in Seq(Seq(Kinds)) /\ Len(more) = Len(texts) + 1 /\ more[Len(texts) + 1] = rest
      /\ \A k \in 1..Len(texts) : more[k] = texts[k]
  BY AppendProperties
<1>3. Len(lines) \in Nat /\ Len(rest) \in Nat /\ Len(texts) \in Nat /\ Len(none) = 0
  BY LenProperties, EmptySeq
<1> HIDE DEF more, none
<1>4. /\ ends \in [0..Len(more) -> 0..Len(lines)] /\ ends[Len(more)] = Len(lines)
      /\ \A k \in 0..Len(texts) : ends[k] = cut[k]
  BY <1>1, <1>2, <1>3
<1> HIDE DEF ends
<1>5. ends[0] = 0 /\ Len(lines) = ends[Len(more)] + Len(none)
  BY <1>1, <1>3, <1>4
<1>6. \A j \in 1..Len(none) : none[j] = lines[ends[Len(more)] + j]
  BY <1>3
<1>7. ASSUME NEW k \in 1..Len(more)
      PROVE  /\ ends[k] = ends[k - 1] + Len(more[k])
             /\ \A j \in 1..Len(more[k]) : more[k][j] = lines[ends[k - 1] + j]
  <2>1. CASE k = Len(texts) + 1
    <3>1. k = Len(more) /\ k - 1 = Len(texts) /\ k - 1 \in 0..Len(texts)
      BY <1>2, <1>3, <2>1
    <3>2. more[k] = rest /\ ends[k] = Len(lines) /\ ends[k - 1] = cut[Len(texts)]
      BY <1>2, <1>4, <2>1, <3>1
    <3> QED
      BY <1>1, <3>2
  <2>2. CASE k \in 1..Len(texts)
    <3>1. k \in 0..Len(texts) /\ k - 1 \in 0..Len(texts)
      BY <1>3, <2>2
    <3>2. more[k] = texts[k] /\ ends[k] = cut[k] /\ ends[k - 1] = cut[k - 1]
      BY <1>2, <1>4, <2>2, <3>1
    <3> QED
      BY <1>1, <2>2, <3>2
  <2> QED
    BY <1>2, <1>3, <2>1, <2>2
<1>8. Divided(lines, more, none)
  BY <1>4, <1>5, <1>6, <1>7 DEF Divided
<1> QED
  BY <1>8 DEF more, none

LEMMA InitLines == ReplInit => LinesInTexts
<1> SUFFICES ASSUME ReplInit PROVE Divided(<<>>, <<>>, <<>>)
  BY DEF ReplInit, LinesInTexts, Unfinished
<1> DEFINE none == <<>>
           cut == [k \in {0} |-> 0]
<1>1. Len(none) = 0
  BY EmptySeq
<1> HIDE DEF none
<1>2. 0..Len(none) = {0}
  BY <1>1
<1>3. cut \in [0..Len(none) -> 0..Len(none)] /\ cut[0] = 0
  BY <1>2
<1> HIDE DEF cut
<1>4. Divided(none, none, none)
  BY <1>1, <1>3 DEF Divided
<1> QED
  BY <1>4 DEF none

\* The text being read is the one line of the stack.
LEMMA UnfinishedText == IInv => Unfinished \in Seq(Kinds)
<1> SUFFICES ASSUME IInv PROVE Unfinished \in Seq(Kinds)
  OBVIOUS
<1>1. <<>> \in Seq(Kinds)
  BY EmptySeq
<1>2. at \in {"compile", "continue"} => stack[1][2] \in Seq(Kinds)
  BY TextOnStack DEF IInv, Shapes
<1> QED
  BY <1>1, <1>2 DEF Unfinished

LEMMA ReadFirstLines ==
  ASSUME IInv, LinesInTexts, NEW line \in Kinds, ReadFirst(line)
  PROVE  LinesInTexts'
<1>1. /\ typed \in Seq(Kinds) /\ units \in Seq(Seq(Kinds)) /\ <<>> \in Seq(Kinds)
      /\ Divided(typed, units, <<>>)
  BY EmptySeq DEF IInv, ReplTypeOK, LinesInTexts, Unfinished, ReadFirst
<1>2. /\ typed' = Append(typed, line) /\ typed' \in Seq(Kinds)
      /\ <<line>> \in Seq(Kinds) /\ Append(<<>>, line) = <<line>>
  BY <1>1 DEF ReadFirst
<1>3. Divided(typed', units, <<line>>)
  <2> DEFINE none == <<>>
  <2>1. none \in Seq(Kinds) /\ Append(none, line) = <<line>> /\ Divided(typed, units, none)
    BY <1>1, <1>2
  <2> HIDE DEF none
  <2>2. Divided(Append(typed, line), units, Append(none, line))
    BY <1>1, <2>1, LineDivided
  <2> QED
    BY <1>2, <2>1, <2>2
<1>4. CASE CompilesAsReturn(line)
  <2>1. units' = Append(units, <<line>>) /\ at' = "call"
    BY <1>4 DEF ReadFirst
  <2>2. Divided(typed', Append(units, <<line>>), <<>>)
    <3> DEFINE lines == typed'
               text == <<line>>
    <3>1. lines \in Seq(Kinds) /\ text \in Seq(Kinds) /\ Divided(lines, units, text)
      BY <1>2, <1>3
    <3> HIDE DEF lines, text
    <3>2. Divided(lines, Append(units, text), <<>>)
      BY <1>1, <3>1, TextDivided
    <3> QED
      BY <3>2 DEF lines, text
  <2> QED
    BY <2>1, <2>2 DEF LinesInTexts, Unfinished
<1>5. CASE ~CompilesAsReturn(line)
  <2>1. stack' = << <<"line", <<line>> >> >> /\ at' = "compile" /\ units' = units
    BY <1>5 DEF ReadFirst
  <2>2. stack'[1][2] = <<line>>
    BY <2>1
  <2> QED
    BY <1>3, <2>1, <2>2 DEF LinesInTexts, Unfinished
<1> QED
  BY <1>4, <1>5

LEMMA ContinueLines ==
  ASSUME IInv, LinesInTexts, NEW line \in Kinds, ReadMore(line)
  PROVE  LinesInTexts'
<1>1. typed \in Seq(Kinds) /\ units \in Seq(Seq(Kinds)) /\ stack[1][2] \in Seq(Kinds)
  <2>1. stack[1][2] \in Seq(Kinds)
    BY TextOnStack DEF IInv, Shapes, ReadMore
  <2> QED
    BY <2>1 DEF IInv, ReplTypeOK
<1>2. Divided(typed, units, stack[1][2])
  BY DEF LinesInTexts, Unfinished, ReadMore
<1>3. Divided(Append(typed, line), units, Append(stack[1][2], line))
  BY <1>1, <1>2, LineDivided
<1>4. /\ typed' = Append(typed, line) /\ units' = units /\ at' = "compile"
      /\ stack' = << <<"line", Append(stack[1][2], line)>> >>
  BY DEF ReadMore, Join
<1>5. stack'[1][2] = Append(stack[1][2], line)
  BY <1>4
<1> QED
  BY <1>3, <1>4, <1>5 DEF LinesInTexts, Unfinished

\* A text is complete, or wrong, or the input ends in it: it becomes a unit.
LEMMA TextEnds ==
  ASSUME IInv, LinesInTexts, at \in {"compile", "continue"}, at' \notin {"compile", "continue"},
         typed' = typed, units' = Append(units, stack[1][2])
  PROVE  LinesInTexts'
<1>1. typed \in Seq(Kinds) /\ units \in Seq(Seq(Kinds)) /\ stack[1][2] \in Seq(Kinds)
  <2>1. stack[1][2] \in Seq(Kinds)
    BY TextOnStack DEF IInv, Shapes
  <2> QED
    BY <2>1 DEF IInv, ReplTypeOK
<1>2. Divided(typed, units, stack[1][2])
  BY DEF LinesInTexts, Unfinished
<1>3. Divided(typed, Append(units, stack[1][2]), <<>>)
  BY <1>1, <1>2, TextDivided
<1> QED
  BY <1>3 DEF LinesInTexts, Unfinished

LEMMA CompileLines ==
  ASSUME IInv, LinesInTexts, Compile
  PROVE  LinesInTexts'
<1>1. CASE Compiled(stack[1][2]) = "incomplete"
  BY <1>1 DEF Compile, LinesInTexts, Unfinished
<1>2. CASE Compiled(stack[1][2]) # "incomplete"
  <2>1. at = "compile" /\ at' \in {"call", "report"} /\ typed' = typed /\ units' = Append(units, stack[1][2])
    BY <1>2 DEF Compile
  <2> QED
    BY <2>1, TextEnds
<1> QED
  BY <1>1, <1>2

LEMMA EndInsideLines ==
  ASSUME IInv, LinesInTexts, NEW prompt \in {"nil", "prompt"}, EndInside(prompt)
  PROVE  LinesInTexts'
<1>1. at = "continue" /\ at' = "report" /\ typed' = typed /\ units' = Append(units, stack[1][2])
  BY DEF EndInside
<1> QED
  BY <1>1, TextEnds

\* What the call of a chunk does has nothing to do with the lines.
LEMMA OtherLines ==
  ASSUME LinesInTexts, UNCHANGED <<typed, units>>,
         \/ at \notin {"killed", "compile", "continue"} /\ at' \notin {"compile", "continue"}
         \/ at' \in {at, "killed"} /\ stack' = stack
  PROVE  LinesInTexts'
  BY DEF LinesInTexts, Unfinished

LEMMA CallLines ==
  ASSUME LinesInTexts,
         \/ EndOfInput \/ EnterCall \/ Fail \/ LeaveCall \/ PrintResults \/ Report \/ Interrupt
         \/ \E n \in 0..MaxResults : Finish(n)
         \/ \E protected \in BOOLEAN : Stop(protected)
  PROVE  LinesInTexts'
<1>1. CASE EndOfInput \/ EnterCall \/ LeaveCall \/ PrintResults \/ Report
  <2>1. /\ UNCHANGED <<typed, units>>
        /\ at \notin {"killed", "compile", "continue"} /\ at' \notin {"compile", "continue"}
    BY <1>1 DEF EndOfInput, EnterCall, LeaveCall, PrintResults, Report
  <2> QED
    BY <2>1, OtherLines
<1>2. CASE Interrupt
  <2>1. UNCHANGED <<typed, units>> /\ at' \in {at, "killed"} /\ stack' = stack
    BY <1>2 DEF Interrupt
  <2> QED
    BY <2>1, OtherLines
<1>3. ASSUME at = "running", NEW result, NEW values, Ended(result, values) PROVE LinesInTexts'
  <2>1. at' = "ended" /\ UNCHANGED <<typed, units>>
    BY <1>3 DEF Ended
  <2> QED
    BY <1>3, <2>1, OtherLines
<1>4. CASE Fail
  BY <1>3, <1>4 DEF Fail
<1>5. ASSUME NEW n \in 0..MaxResults, Finish(n) PROVE LinesInTexts'
  BY <1>3, <1>5 DEF Finish
<1>6. ASSUME NEW protected \in BOOLEAN, Stop(protected) PROVE LinesInTexts'
  <2>1. CASE protected
    <3>1. UNCHANGED <<typed, units>> /\ at' \in {at, "killed"} /\ stack' = stack
      BY <1>6, <2>1 DEF Stop
    <3> QED
      BY <3>1, OtherLines
  <2>2. CASE ~protected
    BY <1>3, <1>6, <2>2 DEF Stop
  <2> QED
    BY <2>1, <2>2
<1> QED
  BY <1>1, <1>2, <1>4, <1>5, <1>6

LEMMA NextLines == IInv /\ LinesInTexts /\ [ReplNext]_replVars => LinesInTexts'
<1> SUFFICES ASSUME IInv, LinesInTexts, [ReplNext]_replVars PROVE LinesInTexts'
  OBVIOUS
<1>1. CASE UNCHANGED replVars
  BY <1>1 DEF replVars, LinesInTexts, Unfinished
<1>2. CASE ReplNext
  BY <1>2, ReadFirstLines, ContinueLines, CompileLines, EndInsideLines, CallLines DEF ReplNext
<1> QED
  BY <1>1, <1>2

(***************************************************************************)
(* Every line typed gets into exactly one text, in order, and at each call *)
(* the stack holds the chunk and its handler alone (multiline, docall).    *)
(***************************************************************************)
THEOREM EveryLineInAText == ReplSpec => []NoLineLost
<1>1. IInv => ReplTypeOK /\ StackBalanced
  BY DEF IInv
<1> QED
  BY <1>1, InitLines, NextLines, Invariance, PTL DEF ReplSpec, NoLineLost

(***************************************************************************)
(* "interrupted!" is raised no more often than a signal was caught, and a  *)
(* caught signal is raised or pending (laction, lstop).                    *)
(***************************************************************************)
THEOREM StopsAreSignals == ReplSpec => []NoStopWithoutSignal
<1>1. IInv => NoStopWithoutSignal
  BY DEF IInv
<1> QED
  BY <1>1, Invariance, PTL

(***************************************************************************)
(* A SIGINT kills the process unless it is the first one while a chunk     *)
(* runs (docall).                                                          *)
(***************************************************************************)
THEOREM FirstSignalOnly == ReplSpec => SecondSignalKills
<1>1. IInv /\ [ReplNext]_replVars => [SignalKills]_replVars
  <2> SUFFICES ASSUME IInv, Interrupt PROVE (at' = "killed") = (at \notin {"running", "ended"} \/ inCall > 0)
    BY DEF SignalKills
  <2>1. handler = "default" <=> at \notin {"running", "ended"} \/ inCall > 0
    BY DEF IInv, ReplTypeOK, Handled
  <2>2. at' = "killed" <=> handler = "default"
    BY DEF Interrupt
  <2> QED
    BY <2>1, <2>2
<1> QED
  BY <1>1, Invariance, PTL DEF ReplSpec, SecondSignalKills
=============================================================================
