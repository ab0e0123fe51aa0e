------------------------- MODULE LktkSyscallProofs -------------------------
(***************************************************************************)
(* Theorems about LktkSyscall, for any tables, blocks and contents, any    *)
(* number of arguments and of calls.  IInv says which block each pointer   *)
(* is, and that the blocks of tables are their own and not freed; Results  *)
(* and Stack are about the way back, when structures are copied and the    *)
(* arguments leave the Lua stack.                                          *)
(***************************************************************************)
EXTENDS LktkSyscall, FiniteSetTheorems, SequenceTheorems, TLAPS

\* One pointer for every argument converted.
Cursor ==
  /\ pc = "convert" => i \in 1..Len(args) + 1 /\ Len(argz) = i - 1 /\ height = Len(args) /\ ~called
  /\ pc = "marshall" => i \in 1..Len(args) + 1 /\ Len(argz) = Len(args) /\ called

\* What a table refers to is not freed, and of no other table.
Owned ==
  /\ \A t \in Table : ud[t] # None => heap[ud[t]] # None
  /\ \A t, u \in Table : t # u /\ ud[t] # None => ud[t] # ud[u]

\* The pointer of a structure is the block of its table, if the table has not been
\* passed again.
Latest(j) == \A k \in j+1..Len(argz) : args[k] # args[j]
Current ==
  pc \in {"convert", "marshall"} =>
    \A j \in 1..Len(argz) : IsTable(args[j]) /\ Typed(args[j]) =>
      argz[j] # None /\ ud[args[j]] # None /\ (Latest(j) => argz[j] = ud[args[j]])

IInv == TypeOK /\ Cursor /\ Owned /\ Current

\* The structures already copied back are in their tables.
Results ==
  /\ pc = "marshall" => \A j \in Structs : j < i => fields[args[j]] = heap[ud[args[j]]]
  /\ ResultsReachTables

\* The arguments still on the stack: each structure popped twice cost one more.
Stack ==
  /\ pc = "marshall" => height = Len(args) - Cardinality({j \in Shrinking : j < i})
  /\ PaddedCallsReturn
-----------------------------------------------------------------------------
LEMMA NoArguments == <<>> \in Seq(Argument) /\ <<>> \in Seq(Blob \cup {None}) /\ Len(<<>>) = 0
  BY EmptySeq

LEMMA InitIInv == Init => IInv
<1> SUFFICES ASSUME Init PROVE IInv
  OBVIOUS
<1>1. TypeOK
  <2>1. /\ type \in [Table -> Types] /\ fields \in [Table -> Content]
        /\ ud \in [Table -> Blob \cup {None}] /\ heap \in [Blob -> Content \cup {None}]
    BY ContentAssumption DEF Init
  <2>2. args \in Seq(Argument) /\ Len(args) = 0 /\ argz \in Seq(Blob \cup {None}) /\ Len(argz) = 0
    BY NoArguments, Zenon DEF Init
  <2>3. pc = "script" /\ i = 0 /\ height = 0 /\ called = FALSE /\ calls = 0
    BY DEF Init
  <2>4. Len(args) <= MaxArgs /\ Len(argz) <= Len(args) /\ 0 \in 0..MaxArgs + 1 /\ 0 \in 0..MaxArgs /\ 0 \in 0..MaxCalls
    BY <2>2, NumbersAssumption
  <2> QED
    BY <2>1, <2>2, <2>3, <2>4, Zenon DEF TypeOK
<1>2. Cursor /\ Owned /\ Current
  BY DEF Init, Cursor, Owned, Current
<1> QED
  BY <1>1, <1>2 DEF IInv

\* The arguments of a call.
LEMMA ArgumentsSeq == \A as \in Arguments : as \in Seq(Argument) /\ Len(as) \in 0..MaxArgs
<1> SUFFICES ASSUME NEW n \in 0..MaxArgs, NEW as \in [1..n -> Argument]
             PROVE  as \in Seq(Argument) /\ Len(as) \in 0..MaxArgs
  BY DEF Arguments
<1>1. n \in Nat /\ n <= MaxArgs
  BY NumbersAssumption
<1>2. as \in Seq(Argument)
  <2>1. as \in UNION {[1..m -> Argument] : m \in Nat}
    BY <1>1
  <2> QED
    BY <2>1, SeqDef
<1>3. Len(as) = n
  BY <1>1, <1>2, LenProperties
<1> QED
  BY <1>1, <1>2, <1>3

LEMMA CallStep == ASSUME IInv, NEW as \in Arguments, Call(as) PROVE IInv'
<1>1. args' \in Seq(Argument) /\ Len(args') \in 0..MaxArgs
  BY ArgumentsSeq, Zenon DEF Call
<1>2. argz' \in Seq(Blob \cup {None}) /\ Len(argz') = 0
  BY NoArguments, Zenon DEF Call
<1>3. /\ pc' \in {"returned", "raised", "convert"} /\ i' = 1 /\ called' = FALSE
      /\ calls < MaxCalls /\ calls' = calls + 1 /\ UNCHANGED <<type, fields, ud, heap>>
  BY DEF Call, Goto
<1>4. height' = Len(args')
  BY Zenon DEF Call
<1>5. TypeOK'
  <2>1. calls' \in 0..MaxCalls
    BY <1>3, NumbersAssumption DEF IInv, TypeOK
  <2>2. i' \in 0..MaxArgs + 1 /\ Len(argz') <= Len(args') /\ Len(args') <= MaxArgs
    BY <1>1, <1>2, <1>3, NumbersAssumption
  <2> QED
    BY <1>1, <1>2, <1>3, <1>4, <2>1, <2>2 DEF IInv, TypeOK
<1>6. Cursor'
  BY <1>1, <1>2, <1>3, <1>4 DEF Cursor
<1>7. Owned'
  BY <1>3 DEF IInv, Owned
<1>8. Current'
  <2>1. 1..Len(argz') = {}
    BY <1>2
  <2> QED
    BY <2>1 DEF Current
<1> QED
  BY <1>5, <1>6, <1>7, <1>8 DEF IInv

\* A pointer is added.
LEMMA ConvertPlainStep == ASSUME IInv, ConvertPlain PROVE IInv'
<1> USE DEF IInv, ConvertPlain, Converting, Converted
<1>1. argz \in Seq(Blob \cup {None}) /\ args \in Seq(Argument) /\ i \in 1..Len(args) /\ Len(argz) = i - 1 /\ i \in Nat
  BY NumbersAssumption DEF TypeOK, Cursor
<1>2. /\ argz' \in Seq(Blob \cup {None}) /\ Len(argz') = i /\ argz'[i] = None
      /\ \A j \in 1..Len(argz) : argz'[j] = argz[j]
  BY <1>1
<1>3. TypeOK'
  BY <1>1, <1>2, NumbersAssumption DEF TypeOK
<1>4. Cursor'
  BY <1>1, <1>2 DEF Cursor
<1>5. Owned'
  BY DEF Owned
<1>6. Current'
  <2> SUFFICES ASSUME NEW j \in 1..Len(argz'), IsTable(args[j]), Typed(args[j])
               PROVE  argz'[j] # None /\ ud[args[j]] # None /\ (Latest(j)' => argz'[j] = ud[args[j]])
    BY DEF Current, Typed
  <2>1. j \in 1..Len(argz)
    BY <1>1, <1>2
  <2>2. Latest(j)' => Latest(j)
    BY <1>1, <1>2 DEF Latest
  <2> QED
    BY <1>2, <2>1, <2>2 DEF Current
<1> QED
  BY <1>3, <1>4, <1>5, <1>6

\* A block is taken that no table refers to; those that tables refer to stay.
LEMMA UnmarshallStep == ASSUME IInv, Unmarshall PROVE IInv'
<1> USE DEF IInv
<1> DEFINE t == args[i]
<1>1. /\ argz \in Seq(Blob \cup {None}) /\ args \in Seq(Argument) /\ i \in 1..Len(args) /\ Len(argz) = i - 1 /\ i \in Nat
      /\ pc = "convert" /\ t \in Table /\ Typed(t)
  BY NumbersAssumption DEF TypeOK, Cursor, Unmarshall, Converting, IsTable
<1>2. PICK dead \in SUBSET Garbage : \E b \in {c \in Blob : heap[c] = None} \cup dead :
         /\ heap' = [c \in Blob |-> IF c = b THEN Unmarshalled(t) ELSE IF c \in dead THEN None ELSE heap[c]]
         /\ ud' = [ud EXCEPT ![t] = b]
         /\ Converted(b)
  BY DEF Unmarshall
<1>3. PICK b \in {c \in Blob : heap[c] = None} \cup dead :
         /\ heap' = [c \in Blob |-> IF c = b THEN Unmarshalled(t) ELSE IF c \in dead THEN None ELSE heap[c]]
         /\ ud' = [ud EXCEPT ![t] = b]
         /\ Converted(b)
  BY <1>2
<1>4. b \in Blob /\ b # None /\ \A u \in Table : ud[u] # b /\ ud[u] \notin dead
  BY NamesAssumption DEF Garbage, Owned
<1>5. UNCHANGED <<type, fields, pc, args, height, called, calls>> /\ i' = i + 1 /\ argz' = Append(argz, b)
  BY <1>3 DEF Converted
<1>6. /\ argz' \in Seq(Blob \cup {None}) /\ Len(argz') = i /\ argz'[i] = b
      /\ \A j \in 1..Len(argz) : argz'[j] = argz[j]
  BY <1>1, <1>4, <1>5
<1>7. Unmarshalled(t) \in Content /\ Unmarshalled(t) # None
  BY <1>1, ContentAssumption DEF Unmarshalled, Narrow, TypeOK
<1>8. TypeOK'
  <2>1. heap' \in [Blob -> Content \cup {None}] /\ ud' \in [Table -> Blob \cup {None}]
    BY <1>3, <1>4, <1>7 DEF TypeOK
  <2> QED
    BY <1>1, <1>5, <1>6, <2>1, NumbersAssumption DEF TypeOK
<1>9. Cursor'
  BY <1>1, <1>5, <1>6 DEF Cursor
<1>10. ud'[t] = b /\ \A u \in Table : u # t => ud'[u] = ud[u]
  BY <1>1, <1>3 DEF TypeOK
<1>11. Owned'
  <2>1. heap'[b] # None
    BY <1>3, <1>4, <1>7
  <2>2. \A u \in Table : u # t /\ ud[u] # None => heap'[ud[u]] = heap[ud[u]]
    BY <1>3, <1>4 DEF TypeOK
  <2>3. \A u \in Table : ud'[u] # None => heap'[ud'[u]] # None
    BY <1>10, <2>1, <2>2 DEF Owned
  <2>4. \A u, v \in Table : u # v /\ ud'[u] # None => ud'[u] # ud'[v]
    BY <1>4, <1>10 DEF Owned
  <2> QED
    BY <2>3, <2>4 DEF Owned
<1>12. Current'
  <2> SUFFICES ASSUME NEW j \in 1..Len(argz'), IsTable(args[j]), Typed(args[j])
               PROVE  argz'[j] # None /\ ud'[args[j]] # None /\ (Latest(j)' => argz'[j] = ud'[args[j]])
    BY <1>5 DEF Current, Typed
  <2>1. CASE j = i
    BY <1>4, <1>6, <1>10, <2>1
  <2>2. CASE j # i
    <3>1. j \in 1..Len(argz)
      BY <1>1, <1>6, <2>2
    <3>2. Latest(j)' => Latest(j) /\ args[j] # t
      BY <1>1, <1>5, <1>6, <3>1 DEF Latest
    <3>3. ud'[args[j]] # None
      BY <1>1, <1>4, <1>10, <3>1 DEF Current, IsTable
    <3> QED
      BY <1>1, <1>6, <1>10, <3>1, <3>2, <3>3 DEF Current, IsTable
  <2> QED
    BY <2>1, <2>2
<1> QED
  BY <1>8, <1>9, <1>11, <1>12

\* The kernel writes to blocks, and frees none.
LEMMA KernelStep == ASSUME IInv, Kernel PROVE IInv'
<1> USE DEF IInv, Kernel, Goto
<1>1. PICK written \in SUBSET {b \in Pointers : heap[b] # None}, c \in Content \ {Wide} :
        heap' = [b \in Blob |-> IF b \in written THEN c ELSE heap[b]]
  OBVIOUS
<1>2. c # None
  BY ContentAssumption
<1>3. TypeOK'
  BY <1>1, NumbersAssumption DEF TypeOK
<1>4. Cursor'
  BY NumbersAssumption DEF TypeOK, Cursor
<1>5. \A b \in Blob : heap[b] # None => heap'[b] # None
  BY <1>1, <1>2
<1>6. Owned'
  BY <1>5 DEF Owned, TypeOK
<1>7. Current'
  BY DEF Current, Latest, Typed
<1> QED
  BY <1>3, <1>4, <1>6, <1>7

\* The way back changes fields and the stack only.
LEMMA WayBackStep ==
  ASSUME IInv, MarshallNothing \/ MarshallLost \/ MarshallFlock \/ MarshallPopsTwo \/ MarshallPopsItself
  PROVE  IInv'
<1> USE DEF IInv, MarshallNothing, MarshallLost, MarshallFlock, MarshallPopsTwo, MarshallPopsItself, Marshalling, Goto
<1>1. i \in 1..Len(args) /\ Len(args) \in Nat /\ args[i] \in Argument /\ UNCHANGED <<type, ud, heap, args, argz, called, calls>>
  BY NumbersAssumption DEF TypeOK, Cursor
<1>2. i' \in {i, i + 1} /\ height' \in {height, height - 1} /\ (height' # height => height \in Nat \ {0}) /\ pc' \in {"marshall", "raised"}
  BY <1>1 DEF TypeOK
<1>3. fields' \in [Table -> Content]
  <2>1. CASE UNCHANGED fields
    BY <2>1 DEF TypeOK
  <2>2. CASE MarshallFlock \/ MarshallPopsTwo
    <3>1. args[i] \in Table /\ Typed(args[i])
      BY <2>2 DEF IsTable, PopsTwo, Typed
    <3>2. ud[args[i]] \in Blob /\ heap[ud[args[i]]] # None
      BY <1>1, <3>1, <2>2 DEF Cursor, Current, Owned, IsTable, TypeOK
    <3> QED
      BY <2>2, <3>1, <3>2 DEF CopyBack, TypeOK
  <2> QED
    BY <2>1, <2>2
<1>4. TypeOK'
  BY <1>1, <1>2, <1>3, NumbersAssumption DEF TypeOK
<1>5. Cursor' /\ Owned'
  <2>1. pc = "marshall" /\ Len(argz) = Len(args) /\ called /\ i' \in 1..Len(args) + 1
    BY <1>1, <1>2 DEF Cursor
  <2>2. Cursor'
    BY <1>1, <1>2, <2>1 DEF Cursor
  <2>3. Owned'
    BY <1>1 DEF Owned
  <2> QED
    BY <2>2, <2>3
<1>6. Current'
  BY <1>1, <1>2 DEF Current, Latest, Typed
<1> QED
  BY <1>4, <1>5, <1>6

LEMMA ScriptStep == ASSUME IInv, ConvertBad \/ Return \/ Resume \/ SetFields PROVE IInv'
<1> USE DEF IInv
<1>1. UNCHANGED <<type, ud, heap, calls>> /\ pc' \in {"raised", "returned", "script"}
  BY DEF ConvertBad, Return, Resume, SetFields, Goto
<1>2. TypeOK'
  <2>1. CASE Resume
    <3>1. args' \in Seq(Argument) /\ Len(args') = 0 /\ argz' \in Seq(Blob \cup {None}) /\ Len(argz') = 0
      BY <2>1, NoArguments, Zenon DEF Resume
    <3>2. i' = 0 /\ height' = 0 /\ called' = FALSE /\ UNCHANGED fields
      BY <2>1 DEF Resume
    <3>3. Len(args') <= MaxArgs /\ Len(argz') <= Len(args') /\ 0 \in 0..MaxArgs + 1 /\ 0 \in 0..MaxArgs
      BY <3>1, NumbersAssumption
    <3>4. /\ type' \in [Table -> Types] /\ fields' \in [Table -> Content] /\ ud' \in [Table -> Blob \cup {None}]
          /\ heap' \in [Blob -> Content \cup {None}] /\ calls' \in 0..MaxCalls
      BY <1>1, <3>2 DEF TypeOK
    <3> QED
      BY <1>1, <3>1, <3>2, <3>3, <3>4 DEF TypeOK
  <2>2. CASE ConvertBad \/ Return \/ SetFields
    BY <1>1, <2>2 DEF ConvertBad, Return, SetFields, TypeOK
  <2> QED
    BY <2>1, <2>2
<1>3. Cursor' /\ Owned' /\ Current'
  BY <1>1 DEF Cursor, Owned, Current
<1> QED
  BY <1>2, <1>3

LEMMA NextIInv == IInv /\ [Next]_vars => IInv'
<1> SUFFICES ASSUME IInv, [Next]_vars PROVE IInv'
  OBVIOUS
<1>1. CASE UNCHANGED vars
  BY <1>1 DEF vars, IInv, TypeOK, Cursor, Owned, Current, Latest, Typed
<1>2. CASE Next
  BY <1>2, CallStep, ConvertPlainStep, UnmarshallStep, KernelStep, WayBackStep, ScriptStep DEF Next
<1> QED
  BY <1>1, <1>2

THEOREM Invariance == Spec => []IInv
  BY InitIInv, NextIInv, PTL DEF Spec
-----------------------------------------------------------------------------
(***************************************************************************)
(* While the kernel works, and until the structures are copied back, the   *)
(* pointer of every structure whose table is not passed again is the block *)
(* that its table keeps alive.                                             *)
(***************************************************************************)
THEOREM PointersStayAnchored == Spec => []PointersAnchored
<1>1. IInv => PointersAnchored
  <2> SUFFICES ASSUME IInv, pc \in {"convert", "marshall"}, NEW j \in Structs, j <= Len(argz), LastAt(j)
               PROVE  argz[j] = ud[args[j]] /\ heap[argz[j]] # None
    BY DEF PointersAnchored
  <2>1. j \in 1..Len(argz) /\ IsTable(args[j]) /\ Typed(args[j]) /\ Len(argz) <= Len(args) /\ Len(argz) \in Nat /\ Len(args) \in Nat
    BY DEF Structs, IInv, TypeOK
  <2>2. Latest(j)
    BY <2>1 DEF LastAt, Latest
  <2> QED
    BY <2>1, <2>2 DEF IInv, Current, Owned, IsTable
<1> QED
  BY <1>1, Invariance, PTL

(***************************************************************************)
(* No two tables of a call share a block.                                  *)
(***************************************************************************)
THEOREM PointersStayDistinct == Spec => []PointersDistinct
<1>1. IInv => PointersDistinct
  <2> SUFFICES ASSUME IInv, pc \in {"convert", "marshall"}, NEW j \in Structs, NEW k \in Structs,
                      j < k, k <= Len(argz), LastAt(j), LastAt(k)
               PROVE  argz[j] # argz[k]
    BY DEF PointersDistinct
  <2>1. /\ Len(argz) <= Len(args) /\ Len(argz) \in Nat /\ Len(args) \in Nat
        /\ j \in 1..Len(argz) /\ args[j] \in Table /\ Typed(args[j])
        /\ k \in 1..Len(argz) /\ args[k] \in Table /\ Typed(args[k])
    BY DEF Structs, IsTable, IInv, TypeOK
  <2>2. Latest(j) /\ Latest(k) /\ args[j] # args[k]
    BY <2>1 DEF LastAt, Latest
  <2>3. argz[j] = ud[args[j]] /\ argz[k] = ud[args[k]] /\ ud[args[j]] # None
    BY <2>1, <2>2 DEF IInv, Current, IsTable
  <2> QED
    BY <2>1, <2>2, <2>3 DEF IInv, Owned
<1> QED
  BY <1>1, Invariance, PTL
-----------------------------------------------------------------------------
\* An argument is done with: it was no structure, or its block is copied.
LEMMA CopiedOne ==
  ASSUME IInv, Results, MarshallNothing \/ MarshallFlock \/ MarshallPopsTwo
  PROVE  Results'
<1> USE DEF MarshallNothing, MarshallFlock, MarshallPopsTwo, Marshalling
<1>1. /\ i \in 1..Len(args) /\ Len(args) \in Nat /\ i' = i + 1 /\ pc = "marshall" /\ pc' = "marshall"
      /\ UNCHANGED <<type, ud, heap, args>> /\ fields \in [Table -> Content]
  BY NumbersAssumption DEF IInv, TypeOK, Cursor
<1>2. Structs' = Structs
  BY <1>1 DEF Structs, Typed
<1>3. CASE MarshallNothing
  BY <1>1, <1>2, <1>3 DEF Results, ResultsReachTables, Structs
<1>4. CASE MarshallFlock \/ MarshallPopsTwo
  <2>1. fields' = [fields EXCEPT ![args[i]] = heap[ud[args[i]]]] /\ args[i] \in Table
    BY <1>4 DEF CopyBack, IsTable
  <2>2. \A j \in Structs : j < i + 1 => j = i \/ j < i
    BY <1>1 DEF Structs
  <2>3. \A j \in Structs : args[j] \in Table
    BY DEF Structs, IsTable
  <2>4. \A j \in Structs : j < i + 1 => fields'[args[j]] = heap[ud[args[j]]]
    BY <1>1, <2>1, <2>2, <2>3 DEF Results
  <2> QED
    BY <1>1, <1>2, <2>4 DEF Results, ResultsReachTables
<1> QED
  BY <1>3, <1>4

LEMMA NextResults == IInv /\ Results /\ [Next]_vars => Results'
<1> SUFFICES ASSUME IInv, Results, [Next]_vars PROVE Results'
  OBVIOUS
<1>1. CASE UNCHANGED vars
  BY <1>1 DEF vars, Results, ResultsReachTables, Structs, Typed
<1>2. CASE \E as \in Arguments : Call(as)
  BY <1>2 DEF Call, Goto, Results, ResultsReachTables
<1>3. CASE ConvertPlain \/ ConvertBad \/ Unmarshall
  BY <1>3 DEF ConvertPlain, ConvertBad, Unmarshall, Converting, Converted, Goto, Results, ResultsReachTables, IInv, Cursor
<1>4. CASE Kernel
  BY <1>4 DEF Kernel, Goto, Results, ResultsReachTables, Structs
<1>5. CASE MarshallNothing \/ MarshallFlock \/ MarshallPopsTwo
  BY <1>5, CopiedOne
<1>6. CASE MarshallLost \/ MarshallPopsItself
  BY <1>6 DEF MarshallLost, MarshallPopsItself, Goto, Results, ResultsReachTables
<1>7. CASE Return
  <2>1. /\ pc = "marshall" /\ i > Len(args) /\ i \in Nat /\ Len(args) \in Nat /\ pc' = "returned"
        /\ UNCHANGED <<type, fields, ud, heap, args>>
    BY <1>7, NumbersAssumption DEF Return, Goto, IInv, TypeOK
  <2>2. Structs' = Structs /\ \A j \in Structs : j < i
    BY <2>1 DEF Structs, Typed
  <2> QED
    BY <2>1, <2>2 DEF Results, ResultsReachTables
<1>8. CASE Resume \/ SetFields
  BY <1>8 DEF Resume, SetFields, Goto, Results, ResultsReachTables
<1> QED
  BY <1>1, <1>2, <1>3, <1>4, <1>5, <1>6, <1>7, <1>8 DEF Next

(***************************************************************************)
(* A call that returns has brought what the kernel wrote into the tables.  *)
(***************************************************************************)
THEOREM ReturnsBringResults == Spec => []ResultsReachTables
<1>1. Init => Results
  BY DEF Init, Results, ResultsReachTables
<1>2. Results => ResultsReachTables
  BY DEF Results
<1> QED
  BY <1>1, <1>2, NextResults, Invariance, PTL DEF Spec
-----------------------------------------------------------------------------
\* Structures popped twice before argument n.
Gone(n) == {j \in Shrinking : j < n}

LEMMA Counting ==
  ASSUME IInv
  PROVE  /\ IsFiniteSet(Shrinking) /\ Cardinality(Shrinking) \in Nat
         /\ \A S \in SUBSET Shrinking : IsFiniteSet(S) /\ Cardinality(S) \in Nat /\ Cardinality(S) <= Cardinality(Shrinking)
<1>1. Len(args) \in Nat
  BY DEF IInv, TypeOK
<1>2. IsFiniteSet(1..Len(args))
  BY <1>1, FS_Interval
<1>3. Shrinking \subseteq 1..Len(args)
  BY DEF Shrinking, Structs
<1>4. IsFiniteSet(Shrinking)
  BY <1>2, <1>3, FS_Subset
<1> QED
  BY <1>4, FS_Subset, FS_CardinalityType

\* Where padding stands for the tables, argument i is still on the stack, and it is
\* not the last one there if it is to be popped twice.
LEMMA Padding ==
  ASSUME IInv, Stack, pc = "marshall", i \in 1..Len(args), IsTable(args[i]),
         i <= Len(args) - Cardinality(Shrinking)
  PROVE  i <= height /\ (Typed(args[i]) /\ PopsTwo(args[i]) => i < height)
<1>1. Len(args) \in Nat /\ i \in Nat /\ height = Len(args) - Cardinality(Gone(i))
  BY DEF IInv, TypeOK, Stack, Gone
<1>2. Gone(i) \in SUBSET Shrinking
  BY DEF Gone
<1>3. i <= height
  BY <1>1, <1>2, Counting
<1>4. ASSUME Typed(args[i]), PopsTwo(args[i]) PROVE i < height
  <2>1. Gone(i) \cup {i} \in SUBSET Shrinking /\ i \notin Gone(i)
    BY <1>1, <1>4 DEF Gone, Shrinking, Structs
  <2>2. Cardinality(Gone(i) \cup {i}) = Cardinality(Gone(i)) + 1
    BY <1>2, <2>1, Counting, FS_AddElement
  <2> QED
    BY <1>1, <1>2, <2>1, <2>2, Counting
<1> QED
  BY <1>3, <1>4

\* An argument leaves the stack for every structure popped twice.
LEMMA PoppedOne ==
  ASSUME IInv, Stack, MarshallNothing \/ MarshallFlock \/ MarshallPopsTwo
  PROVE  Stack'
<1>1. /\ pc = "marshall" /\ pc' = "marshall" /\ i' = i + 1 /\ i \in 1..Len(args) /\ i \in Nat /\ Len(args) \in Nat
      /\ height \in Int /\ height = Len(args) - Cardinality(Gone(i)) /\ UNCHANGED <<type, args>>
  BY NumbersAssumption DEF IInv, TypeOK, Cursor, Stack, Gone, MarshallNothing, MarshallFlock, MarshallPopsTwo, Marshalling
<1>2. Shrinking' = Shrinking
  BY <1>1 DEF Shrinking, Structs, Typed, PopsTwo
<1>3. Gone(i) \in SUBSET Shrinking /\ i \notin Gone(i) /\ Shrinking \subseteq Int
  BY <1>1 DEF Gone, Shrinking, Structs
<1>4. height' = Len(args) - Cardinality(Gone(i + 1))
  <2>1. CASE MarshallPopsTwo
    <3>1. i \in Shrinking /\ height' = height - 1
      BY <1>1, <2>1 DEF MarshallPopsTwo, Shrinking, Structs, PopsTwo, Typed
    <3>2. Gone(i + 1) = Gone(i) \cup {i}
      <4>1. \A j \in Shrinking : j < i + 1 <=> j < i \/ j = i
        BY <1>1, <1>3
      <4> QED
        BY <3>1, <4>1, Zenon DEF Gone
    <3>3. Cardinality(Gone(i) \cup {i}) = Cardinality(Gone(i)) + 1 /\ Cardinality(Gone(i)) \in Nat
      BY <1>3, Counting, FS_AddElement
    <3>4. Cardinality(Gone(i + 1)) = Cardinality(Gone(i)) + 1
      BY <3>2, <3>3, Zenon
    <3> HIDE DEF Gone
    <3> QED
      BY <1>1, <3>1, <3>3, <3>4
  <2>2. CASE MarshallNothing \/ MarshallFlock
    <3>1. i \notin Shrinking /\ height' = height
      BY <1>1, <2>2 DEF MarshallNothing, MarshallFlock, Shrinking, Structs, PopsTwo, Typed
    <3>2. Gone(i + 1) = Gone(i)
      <4>1. \A j \in Shrinking : j < i + 1 <=> j < i
        BY <1>1, <1>3, <3>1
      <4> QED
        BY <4>1, Zenon DEF Gone
    <3> QED
      BY <1>1, <3>1, <3>2
  <2> QED
    BY <2>1, <2>2
<1> QED
  BY <1>1, <1>2, <1>4 DEF Stack, Gone, PaddedCallsReturn

LEMMA NextStack == IInv /\ Stack /\ [Next]_vars => Stack'
<1> SUFFICES ASSUME IInv, Stack, [Next]_vars PROVE Stack'
  OBVIOUS
<1>1. CASE UNCHANGED vars
  BY <1>1 DEF vars, Stack, PaddedCallsReturn, Shrinking, Structs, Typed, PopsTwo
<1>2. CASE \E as \in Arguments : Call(as)
  BY <1>2 DEF Call, Goto, Stack, PaddedCallsReturn
<1>3. CASE ConvertPlain \/ ConvertBad \/ Unmarshall
  BY <1>3 DEF ConvertPlain, ConvertBad, Unmarshall, Converting, Converted, Goto, Stack, PaddedCallsReturn, IInv, Cursor
<1>4. CASE Kernel
  <2>1. pc' = "marshall" /\ i' = 1 /\ height' = Len(args') /\ Len(args') \in Nat
    BY <1>4 DEF Kernel, Goto, IInv, Cursor, TypeOK
  <2>2. Gone(i)' = {}
    BY <2>1 DEF Gone, Shrinking, Structs
  <2> QED
    BY <2>1, <2>2, FS_EmptySet DEF Stack, Gone, PaddedCallsReturn
<1>5. CASE MarshallNothing \/ MarshallFlock \/ MarshallPopsTwo
  BY <1>5, PoppedOne
<1>6. CASE MarshallLost \/ MarshallPopsItself
  <2>1. /\ pc = "marshall" /\ pc' = "raised" /\ i \in 1..Len(args) /\ IsTable(args[i]) /\ UNCHANGED <<type, args>>
        /\ i \in Nat /\ height \in Nat
    BY <1>6, NumbersAssumption DEF MarshallLost, MarshallPopsItself, Marshalling, Goto, IInv, TypeOK, Cursor
  <2>2. ~(i <= height /\ (Typed(args[i]) /\ PopsTwo(args[i]) => i < height))
    BY <1>6, <2>1 DEF MarshallLost, MarshallPopsItself, Typed, PopsTwo
  <2>3. ~(i <= Len(args) - Cardinality(Shrinking))
    BY <2>1, <2>2, Padding
  <2>4. Shrinking' = Shrinking
    BY <2>1 DEF Shrinking, Structs, Typed, PopsTwo
  <2> QED
    BY <2>1, <2>3, <2>4 DEF Stack, PaddedCallsReturn, IsTable
<1>7. CASE Return \/ Resume \/ SetFields
  BY <1>7 DEF Return, Resume, SetFields, Goto, Stack, PaddedCallsReturn
<1> QED
  BY <1>1, <1>2, <1>3, <1>4, <1>5, <1>6, <1>7 DEF Next

(***************************************************************************)
(* A call with enough arguments behind its tables comes back: what the way *)
(* back pops too much is never a table.                                    *)
(***************************************************************************)
THEOREM PaddedCallsComeBack == Spec => []PaddedCallsReturn
<1>1. Init => Stack
  BY DEF Init, Stack, PaddedCallsReturn
<1>2. Stack => PaddedCallsReturn
  BY DEF Stack
<1> QED
  BY <1>1, <1>2, NextStack, Invariance, PTL DEF Spec
=============================================================================
