---------------------------- MODULE LktkSyscall ----------------------------
(***************************************************************************)
(* The global function syscall(nr, ...) of kit/lktklib.c, called by a      *)
(* script any number of times.  It turns every Lua argument into a long,   *)
(* enters the kernel, and copies the structures the kernel may have filled *)
(* back into the tables they came from.                                    *)
(*                                                                         *)
(* A table argument names its C structure in the field __type.  It is      *)
(* converted into a userdata that only its field __userdata keeps alive:   *)
(* the pointer in argz does not count for the garbage collector, which may *)
(* run whenever a userdata is allocated.                                   *)
(***************************************************************************)
EXTENDS Integers, Sequences, FiniteSets

CONSTANTS
  Table,      \* the tables of the script
  Blob,       \* userdata blocks: memory of the Lua heap
  None,       \* no block
  Content,    \* what the fields of a structure may hold
  Wide,       \* a member of Content that does not fit the C fields
  Numbers,    \* syscall numbers scripts use
  IntMax,     \* the largest int
  MaxArgs,    \* bound on the arguments after the number; argz holds 6
  MaxCalls    \* bound on the calls of the script

ASSUME ContentAssumption == {"zero", "noise", "cut", Wide} \subseteq Content /\ None \notin Content
ASSUME NamesAssumption == None \notin Blob /\ {"value", "bad"} \cap Table = {}
ASSUME NumbersAssumption == Numbers \subseteq Int /\ IntMax \in Nat /\ MaxArgs \in 0..6 /\ MaxCalls \in Nat

VARIABLES
  type,    \* __type of every table
  fields,  \* the structure's fields in every table
  ud,      \* __userdata of every table
  heap,    \* the content of every block, or None if it is free
  pc,      \* where the call is
  args,    \* the arguments after the number, as the script passed them
  i,       \* the argument under conversion or marshalling
  argz,    \* the converted arguments: blocks, or None where it is no pointer
  height,  \* how many of the arguments are still on the Lua stack
  called,  \* whether this call has entered the kernel (history)
  calls    \* calls made (history)

vars == <<type, fields, ud, heap, pc, args, i, argz, height, called, calls>>

\* unmarshall and marshall know three structures; any other type is a null pointer.
Types == {"stat", "flock", "sched_attr", "other"}
Typed(t) == type[t] # "other"

\* marshall_stat and marshall_sched_attr pop two values where they pushed one.
PopsTwo(t) == type[t] \in {"stat", "sched_attr"}

\* What lua_type tells apart: booleans, numbers, strings and userdata convert
\* without more ado ("value"); nil, functions and the rest do not ("bad").
Argument == {"value", "bad"} \cup Table
IsTable(a) == a \in Table

\* The Lua integer of the first argument is stored in an int.
ToInt(n) == ((n + IntMax + 1) % (2 * (IntMax + 1))) - (IntMax + 1)

\* Integer fields are cast to the width they have in C.
Narrow(c) == IF c = Wide THEN "cut" ELSE c

\* The positions of a table among the arguments; the last of them counts.
LastAt(j) == \A k \in j+1..Len(args) : args[k] # args[j]

Init ==
  /\ type \in [Table -> Types]
  /\ fields = [t \in Table |-> "zero"]
  /\ ud = [t \in Table |-> None]
  /\ heap = [b \in Blob |-> None]
  /\ pc = "script"
  /\ args = <<>>
  /\ i = 0
  /\ argz = <<>>
  /\ height = 0
  /\ called = FALSE
  /\ calls = 0

Goto(s) == pc' = s

\* The script calls syscall.  Without a number, or with a negative one, the
\* function returns -1 at once; a number that is no integer raises.
Call(as) ==
  /\ pc = "script" /\ calls < MaxCalls
  /\ \/ Goto("returned")
     \/ Goto("raised")
     \/ \E n \in Numbers : Goto(IF ToInt(n) < 0 THEN "returned" ELSE "convert")
  /\ args' = as
  /\ i' = 1 /\ argz' = <<>> /\ height' = Len(as)
  /\ called' = FALSE
  /\ calls' = calls + 1
  /\ UNCHANGED <<type, fields, ud, heap>>

-----------------------------------------------------------------------------
(* any_to_long, argument after argument                                    *)

Converting == pc = "convert" /\ i <= Len(args)

Converted(pointer) ==
  /\ argz' = Append(argz, pointer)
  /\ i' = i + 1
  /\ UNCHANGED <<type, fields, pc, args, height, called, calls>>

ConvertPlain ==
  /\ Converting
  /\ args[i] # "bad" /\ (IsTable(args[i]) => ~Typed(args[i]))
  /\ Converted(None)
  /\ UNCHANGED <<ud, heap>>

\* luaL_error: nothing has been executed, earlier tables keep their __userdata.
ConvertBad ==
  /\ Converting /\ args[i] = "bad"
  /\ Goto("raised")
  /\ UNCHANGED <<type, fields, ud, heap, args, i, argz, height, called, calls>>

\* Blocks no table refers to: lua_newuserdata may collect any of them first.
Garbage == {b \in Blob : heap[b] # None /\ \A t \in Table : ud[t] # b}

\* A stat is not filled in at all: it holds whatever was in memory.
Unmarshalled(t) == IF type[t] = "stat" THEN "noise" ELSE Narrow(fields[t])

\* Faulty: the new block is not anchored in the table.
UnmarshallLoose ==
  /\ Converting /\ IsTable(args[i]) /\ Typed(args[i])
  /\ \E dead \in SUBSET Garbage :
       \E b \in {c \in Blob : heap[c] = None} \cup dead :
         /\ heap' = [c \in Blob |-> IF c = b THEN Unmarshalled(args[i])
                                    ELSE IF c \in dead THEN None ELSE heap[c]]
         /\ Converted(b)
  /\ UNCHANGED ud

Unmarshall ==
  /\ Converting /\ IsTable(args[i]) /\ Typed(args[i])
  /\ \E dead \in SUBSET Garbage :
       \E b \in {c \in Blob : heap[c] = None} \cup dead :
         /\ heap' = [c \in Blob |-> IF c = b THEN Unmarshalled(args[i])
                                    ELSE IF c \in dead THEN None ELSE heap[c]]
         /\ ud' = [ud EXCEPT ![args[i]] = b]
         /\ Converted(b)

-----------------------------------------------------------------------------
(* The system call: the kernel may write to every structure it was given   *)

Pointers == {argz[j] : j \in 1..Len(argz)} \ {None}

Kernel ==
  /\ pc = "convert" /\ i > Len(args)
  /\ \E written \in SUBSET {b \in Pointers : heap[b] # None}, c \in Content \ {Wide} :
       heap' = [b \in Blob |-> IF b \in written THEN c ELSE heap[b]]
  /\ called' = TRUE
  /\ Goto("marshall")
  /\ i' = 1
  /\ UNCHANGED <<type, fields, ud, args, argz, height, calls>>

-----------------------------------------------------------------------------
(* marshall, for every argument that was a table                           *)

Marshalling == pc = "marshall" /\ i <= Len(args)

\* Not a table, or one of an unknown type.
MarshallNothing ==
  /\ Marshalling
  /\ IsTable(args[i]) => i <= height /\ ~Typed(args[i])
  /\ i' = i + 1
  /\ UNCHANGED <<type, fields, ud, heap, pc, args, argz, height, called, calls>>

\* Its stack slot was popped already: lua_getfield indexes a nil.
MarshallLost ==
  /\ Marshalling /\ IsTable(args[i]) /\ i > height
  /\ Goto("raised")
  /\ UNCHANGED <<type, fields, ud, heap, args, i, argz, height, called, calls>>

CopyBack(t) == fields' = [fields EXCEPT ![t] = heap[ud[t]]]

\* Faulty: flock pops two values as well.
MarshallFlockPopsTwo ==
  /\ Marshalling /\ IsTable(args[i]) /\ i <= height
  /\ Typed(args[i]) /\ ~PopsTwo(args[i])
  /\ CopyBack(args[i])
  /\ height' = height - 1
  /\ i' = i + 1
  /\ UNCHANGED <<type, ud, heap, pc, args, argz, called, calls>>

MarshallFlock ==
  /\ Marshalling /\ IsTable(args[i]) /\ i <= height
  /\ Typed(args[i]) /\ ~PopsTwo(args[i])
  /\ CopyBack(args[i])
  /\ i' = i + 1
  /\ UNCHANGED <<type, ud, heap, pc, args, argz, height, called, calls>>

\* Faulty: only the block of the first table is copied back.
MarshallFirstOnly ==
  /\ Marshalling /\ IsTable(args[i]) /\ i < height
  /\ PopsTwo(args[i])
  /\ IF i = 1 THEN CopyBack(args[i]) ELSE UNCHANGED fields
  /\ height' = height - 1
  /\ i' = i + 1
  /\ UNCHANGED <<type, ud, heap, pc, args, argz, called, calls>>

\* The userdata is popped and with it the last argument still on the stack.
MarshallPopsTwo ==
  /\ Marshalling /\ IsTable(args[i]) /\ i < height
  /\ PopsTwo(args[i])
  /\ CopyBack(args[i])
  /\ height' = height - 1
  /\ i' = i + 1
  /\ UNCHANGED <<type, ud, heap, pc, args, argz, called, calls>>

\* That last argument is the table itself: the integer pushed for the first field
\* takes its slot, and lua_setfield indexes a number.
MarshallPopsItself ==
  /\ Marshalling /\ IsTable(args[i]) /\ i = height
  /\ PopsTwo(args[i])
  /\ height' = height - 1
  /\ Goto("raised")
  /\ UNCHANGED <<type, fields, ud, heap, args, i, argz, called, calls>>

Return ==
  /\ pc = "marshall" /\ i > Len(args)
  /\ Goto("returned")
  /\ UNCHANGED <<type, fields, ud, heap, args, i, argz, height, called, calls>>

\* The script goes on with the result, or catches the error.
Resume ==
  /\ pc \in {"returned", "raised"} /\ calls < MaxCalls
  /\ Goto("script")
  /\ args' = <<>> /\ argz' = <<>> /\ i' = 0 /\ height' = 0 /\ called' = FALSE
  /\ UNCHANGED <<type, fields, ud, heap, calls>>

\* The script sets the fields of a table; one that is missing reads as 0.
SetFields ==
  /\ pc = "script"
  /\ \E t \in Table, c \in Content : fields' = [fields EXCEPT ![t] = c]
  /\ UNCHANGED <<type, ud, heap, pc, args, i, argz, height, called, calls>>

Arguments == UNION {[1..n -> Argument] : n \in 0..MaxArgs}

Next ==
  \/ \E as \in Arguments : Call(as)
  \/ ConvertPlain \/ ConvertBad \/ Unmarshall
  \/ Kernel
  \/ MarshallNothing \/ MarshallLost \/ MarshallFlock \/ MarshallPopsTwo \/ MarshallPopsItself
  \/ Return \/ Resume \/ SetFields

Spec == Init /\ [][Next]_vars

-----------------------------------------------------------------------------
(* Properties                                                              *)

TypeOK ==
  /\ type \in [Table -> Types]
  /\ fields \in [Table -> Content]
  /\ ud \in [Table -> Blob \cup {None}]
  /\ heap \in [Blob -> Content \cup {None}]
  /\ pc \in {"script", "convert", "marshall", "returned", "raised"}
  /\ args \in Seq(Argument) /\ Len(args) <= MaxArgs
  /\ i \in 0..MaxArgs+1
  /\ argz \in Seq(Blob \cup {None}) /\ Len(argz) <= Len(args)
  /\ height \in 0..MaxArgs
  /\ called \in BOOLEAN
  /\ calls \in 0..MaxCalls

Structs == {j \in 1..Len(args) : IsTable(args[j]) /\ Typed(args[j])}
Shrinking == {j \in Structs : PopsTwo(args[j])}

\* From the conversion to the end of the call, the pointer the kernel works on is
\* the block its table keeps alive, unless the table is passed again further on:
\* then the collector may have freed the block under the kernel.
PointersAnchored ==
  pc \in {"convert", "marshall"} =>
    \A j \in Structs : j <= Len(argz) /\ LastAt(j) =>
      argz[j] = ud[args[j]] /\ heap[argz[j]] # None

\* No two structures of a call share a block, though blocks are recycled.
PointersDistinct ==
  pc \in {"convert", "marshall"} =>
    \A j, k \in Structs : j < k /\ k <= Len(argz) /\ LastAt(j) /\ LastAt(k) => argz[j] # argz[k]

\* A call that returns has brought every structure back into its table.
ResultsReachTables ==
  pc = "returned" /\ called => \A j \in Structs : fields[args[j]] = heap[ud[args[j]]]

\* When arguments follow the tables, one for every stat or sched_attr, the call
\* returns: what marshall pops too much are never tables.
PaddedCallsReturn ==
  (\A j \in 1..Len(args) : IsTable(args[j]) => j <= Len(args) - Cardinality(Shrinking))
    => ~(called /\ pc = "raised")

\* A call that entered the kernel returns to the script, with the results in its
\* tables; tests/test-truncate.lua reads st_size after syscall(stat, name, table).
CallsReturn == called => pc # "raised"

=============================================================================
