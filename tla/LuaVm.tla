------------------------------- MODULE LuaVm -------------------------------
(***************************************************************************)
(* The virtual machine of the Lua interpreter (luaV_execute in lua/lvm.c,  *)
(* calls of lua/ldo.c, upvalues of lua/lfunc.c) running what the compiler  *)
(* makes of a program.  Registers are slots of one stack; an upvalue is    *)
(* open while its variable is in a slot.  Numbers are integers; tables are *)
(* functions; metamethods, hooks and yields are left out.  The C function  *)
(* emit outputs its arguments and returns them.                            *)
(***************************************************************************)
EXTENDS LuaParser, TLC

CONSTANTS Programs,    \* the programs that may be run
          Args,        \* the arguments of the main function
          StackSize    \* slots of the stack

M == INSTANCE LuaMeaning

VARIABLES program, main, ci, stack, top, upvals, heap, out, status, results
vars == <<program, main, ci, stack, top, upvals, heap, out, status, results>>

Garbage == <<"garbage">>
Emit == <<"cfun">>
False(v) == v = Nil \/ v = Bool(FALSE)

RECURSIVE ProtoAt(_, _)
ProtoAt(p, path) == IF path = <<>> THEN p ELSE ProtoAt(p.p[path[1]], Tail(path))

Frame == ci[Len(ci)]
Cl == heap.closures[Frame.cl]
P == ProtoAt(main, Cl.path)
I == P.code[Frame.pc + 1]
Reg(x) == stack[Frame.base + x]
KorReg(x) == IF x >= BitRK THEN P.k[x - BitRK + 1] ELSE Reg(x)
Get(u) == IF upvals[u].open THEN stack[upvals[u].at] ELSE upvals[u].v
Field(t, k) == IF k \in DOMAIN heap.tables[t[2]] THEN heap.tables[t[2]][k] ELSE Nil
Text(v) == IF v[1] = "int" THEN ToString(v[2]) ELSE v[2]
-----------------------------------------------------------------------------
Running == status = "run"
Op(ops) == Running /\ I.o \in ops
Skip(n) == ci' = [ci EXCEPT ![Len(ci)].pc = @ + n]
Raise == status' = "error" /\ UNCHANGED <<ci, stack, top, upvals, heap, out, results>>
Keep == UNCHANGED <<top, upvals, heap, out, status, results>>
Assign(v) == stack' = [stack EXCEPT ![Frame.base + I.a] = v] /\ Skip(1) /\ Keep

\* luaF_close, of what is open at or above a level.
Closed(level) == [u \in DOMAIN upvals |->
  IF upvals[u].open /\ upvals[u].at >= level THEN [open |-> FALSE, at |-> 0, v |-> stack[upvals[u].at]] ELSE upvals[u]]

LoadConstant ==
  \/ Op({"LOADK"}) /\ Assign(P.k[I.b + 1])
  \/ /\ Op({"LOADKX"}) /\ Skip(2) /\ Keep
     /\ stack' = [stack EXCEPT ![Frame.base + I.a] = P.k[P.code[Frame.pc + 2].a + 1]]
LoadBool == /\ Op({"LOADBOOL"}) /\ Skip(1 + I.c) /\ Keep
            /\ stack' = [stack EXCEPT ![Frame.base + I.a] = Bool(I.b = 1)]
LoadNil == /\ Op({"LOADNIL"}) /\ Skip(1) /\ Keep
           /\ stack' = [i \in DOMAIN stack |-> IF i - Frame.base \in I.a..(I.a + I.b) THEN Nil ELSE stack[i]]
Move == Op({"MOVE"}) /\ Assign(Reg(I.b))

GetUpval == Op({"GETUPVAL"}) /\ Assign(Get(Cl.ups[I.b + 1]))
SetUpval ==
  /\ Op({"SETUPVAL"}) /\ Skip(1) /\ UNCHANGED <<top, heap, out, status, results>>
  /\ LET u == Cl.ups[I.b + 1] IN
     /\ stack' = IF upvals[u].open THEN [stack EXCEPT ![upvals[u].at] = Reg(I.a)] ELSE stack
     /\ upvals' = IF upvals[u].open THEN upvals ELSE [upvals EXCEPT ![u].v = Reg(I.a)]

TableOf == IF I.o = "GETTABUP" THEN Get(Cl.ups[I.b + 1]) ELSE IF I.o = "SETTABUP" THEN Get(Cl.ups[I.a + 1])
           ELSE IF I.o = "SETTABLE" THEN Reg(I.a) ELSE Reg(I.b)
GetTable == Op({"GETTABLE", "GETTABUP"}) /\ IF TableOf[1] = "tab" THEN Assign(Field(TableOf, KorReg(I.c))) ELSE Raise
SetField(t, k, v) ==
  LET old == heap.tables[t[2]] keys == (DOMAIN old \cup {k}) \ (IF v = Nil THEN {k} ELSE {})
  IN  heap' = [heap EXCEPT !.tables[t[2]] = [x \in keys |-> IF x = k THEN v ELSE old[x]]]
SetTable ==
  /\ Op({"SETTABLE", "SETTABUP"})
  /\ IF TableOf[1] = "tab" /\ KorReg(I.b) # Nil
     THEN SetField(TableOf, KorReg(I.b), KorReg(I.c)) /\ Skip(1) /\ UNCHANGED <<stack, top, upvals, out, status, results>>
     ELSE Raise
NewTable ==
  /\ Op({"NEWTABLE"}) /\ Skip(1) /\ UNCHANGED <<top, upvals, out, status, results>>
  /\ heap' = [heap EXCEPT !.tables = Append(@, <<>>)]
  /\ stack' = [stack EXCEPT ![Frame.base + I.a] = <<"tab", Len(heap.tables) + 1>>]
SelfOp ==
  /\ Op({"SELF"})
  /\ LET o == Reg(I.b) IN
     IF o[1] = "tab" THEN /\ stack' = [stack EXCEPT ![Frame.base + I.a + 1] = o, ![Frame.base + I.a] = Field(o, KorReg(I.c))]
                          /\ Skip(1) /\ Keep
     ELSE Raise

Arith ==
  /\ Op(ArithOps)
  /\ LET b == KorReg(I.b) c == KorReg(I.c) IN
     IF b[1] = "int" /\ c[1] = "int" /\ (I.o # "//" \/ c[2] # 0) THEN Assign(Number(IntArith(I.o, b[2], c[2]))) ELSE Raise
Unary ==
  LET b == Reg(I.b) IN
  \/ Op({"NOT"}) /\ Assign(Bool(False(b)))
  \/ Op({"UNM"}) /\ IF b[1] = "int" THEN Assign(Number(-b[2])) ELSE Raise
  \/ Op({"LEN"}) /\ IF b[1] = "str" THEN Assign(Number(Len(b[2])))
                    ELSE IF b[1] = "tab" THEN Assign(Number(Cardinality({k \in DOMAIN heap.tables[b[2]] : k[1] = "int"})))
                    ELSE Raise

\* luaV_concat: from the last operand to the first.
RECURSIVE Concatenated(_, _)
Concatenated(b, c) == IF b = c THEN Reg(b)
  ELSE LET r == Concatenated(b + 1, c) IN IF {Reg(b)[1], r[1]} \subseteq {"int", "str"} THEN <<"str", Text(Reg(b)) \o Text(r)>> ELSE Nil
ConcatOp == /\ Op({"CONCAT"})
            /\ IF Concatenated(I.b, I.c) = Nil THEN Raise
               ELSE stack' = [stack EXCEPT ![Frame.base + I.a] = Concatenated(I.b, I.c)] /\ Skip(1) /\ top' = Frame.top
                    /\ UNCHANGED <<upvals, heap, out, status, results>>

\* dojump: to the jump's place, upvalues closed if it says so.
DoJump(pc) ==
  LET j == P.code[pc + 1] IN
  /\ ci' = [ci EXCEPT ![Len(ci)].pc = pc + 1 + j.b]
  /\ upvals' = IF j.a # 0 THEN Closed(Frame.base + j.a - 1) ELSE upvals
JumpOp == Op({"JMP"}) /\ DoJump(Frame.pc) /\ UNCHANGED <<stack, top, heap, out, status, results>>
Branch(holds) == /\ IF holds THEN DoJump(Frame.pc + 1) ELSE Skip(2) /\ UNCHANGED upvals
                 /\ UNCHANGED <<top, heap, out, status, results>>
Compare ==
  /\ Op({"EQ", "LT", "LE"})
  /\ LET b == KorReg(I.b) c == KorReg(I.c)
         holds == CASE I.o = "EQ" -> b = c [] I.o = "LT" -> b[2] < c[2] [] I.o = "LE" -> b[2] <= c[2]
     IN  IF I.o # "EQ" /\ {b[1], c[1]} # {"int"} THEN Raise
         ELSE Branch(holds = (I.a = 1)) /\ UNCHANGED stack
Test == Op({"TEST"}) /\ Branch(False(Reg(I.a)) = (I.c = 0)) /\ UNCHANGED stack
TestSetOp ==
  /\ Op({"TESTSET"})
  /\ LET holds == False(Reg(I.b)) = (I.c = 0) IN
     Branch(holds) /\ stack' = IF holds THEN [stack EXCEPT ![Frame.base + I.a] = Reg(I.b)] ELSE stack
-----------------------------------------------------------------------------
(* Calls. *)

\* moveresults: what is above the results is no longer of use.
Results(st, res, vs, wanted) ==
  LET n == IF wanted = MultRet THEN Len(vs) ELSE wanted
  IN  [i \in DOMAIN st |-> IF i < res THEN st[i] ELSE IF i >= res + n THEN Garbage
                           ELSE IF i - res + 1 <= Len(vs) THEN vs[i - res + 1] ELSE Nil]

\* luaD_precall, adjust_varargs: the base of the new frame.
BaseOf(p, func, n) == IF p.dots THEN func + 1 + n ELSE func + 1

\* The parameters of a call with n arguments in place.
Entered(st, p, func, n) ==
  LET base == BaseOf(p, func, n)
      arg(i) == IF i <= n THEN st[func + i] ELSE Nil
  IN  [s \in DOMAIN st |->
         IF s >= base /\ s < base + p.np THEN arg(s - base + 1)
         ELSE IF s > func /\ s <= func + p.np /\ s < base THEN Nil
         ELSE IF s >= base + p.np THEN Garbage ELSE st[s]]
NewFrame(p, func, n, wanted, cl) ==
  [func |-> func, base |-> BaseOf(p, func, n), top |-> BaseOf(p, func, n) + p.max, pc |-> 0, nres |-> wanted, cl |-> cl]

ArgsTop == IF I.b # 0 THEN Frame.base + I.a + I.b ELSE top
CallAt(st, func, n, wanted) ==
  LET f == st[func]
      vs == [i \in 1..n |-> st[func + i]]
      next == [ci EXCEPT ![Len(ci)].pc = @ + 1]
      p == ProtoAt(main, heap.closures[f[2]].path)
      fr == NewFrame(p, func, n, wanted, f[2])
  IN  IF f = Emit
      THEN /\ out' = out \o vs /\ ci' = next /\ stack' = Results(st, func, vs, wanted)
           /\ top' = IF wanted = MultRet THEN func + n ELSE Frame.top
           /\ UNCHANGED <<upvals, heap, status, results>>
      ELSE IF f[1] = "fun"
      THEN /\ ci' = Append(next, fr) /\ top' = fr.top /\ stack' = Entered(st, p, func, n)
           /\ UNCHANGED <<upvals, heap, out, status, results>>
      ELSE Raise
Call == Op({"CALL"}) /\ CallAt(stack, Frame.base + I.a, ArgsTop - (Frame.base + I.a) - 1, I.c - 1)

\* The loop instruction that follows finds the results behind its register.
TForCall ==
  /\ Op({"TFORCALL"})
  /\ LET cb == Frame.base + I.a + 3 IN
     CallAt([stack EXCEPT ![cb] = Reg(I.a), ![cb + 1] = Reg(I.a + 1), ![cb + 2] = Reg(I.a + 2)], cb, 2, I.c)

\* Faulty: upvalues of the frame that goes away stay open.
LeaveUpvals(base) == upvals

CloseAll(base) == IF P.p # <<>> THEN Closed(base) ELSE upvals

\* The called function takes the place of the caller.
TailCall ==
  /\ Op({"TAILCALL"})
  /\ LET func == Frame.base + I.a
         f == stack[func]
         n == ArgsTop - func - 1
         p == ProtoAt(main, heap.closures[f[2]].path)
         new == Entered(stack, p, func, n)
         d == func - Frame.func
         fr == NewFrame(p, func, n, Frame.nres, f[2])
     IN  IF f = Emit
         THEN /\ out' = out \o [i \in 1..n |-> stack[func + i]] /\ Skip(1) /\ top' = func + n
              /\ stack' = Results(stack, func, [i \in 1..n |-> stack[func + i]], MultRet)
              /\ UNCHANGED <<upvals, heap, status, results>>
         ELSE IF f[1] = "fun"
         THEN /\ upvals' = CloseAll(Frame.base)
              /\ stack' = [s \in DOMAIN stack |-> IF s < Frame.func THEN stack[s] ELSE IF s + d \in DOMAIN stack THEN new[s + d] ELSE Garbage]
              /\ ci' = [ci EXCEPT ![Len(ci)] = [fr EXCEPT !.func = @ - d, !.base = @ - d, !.top = @ - d]]
              /\ top' = fr.top - d /\ UNCHANGED <<heap, out, status, results>>
         ELSE Raise

Return ==
  /\ Op({"RETURN"})
  /\ LET ra == Frame.base + I.a
         n == IF I.b # 0 THEN I.b - 1 ELSE top - ra
         vs == [i \in 1..n |-> stack[ra + i - 1]]
         before == SubSeq(ci, 1, Len(ci) - 1)
     IN  /\ upvals' = CloseAll(Frame.base)
         /\ IF Len(ci) = 1 THEN status' = "done" /\ results' = vs /\ UNCHANGED <<ci, stack, top>>
            ELSE /\ ci' = before /\ stack' = Results(stack, Frame.func, vs, Frame.nres)
                 /\ top' = IF Frame.nres = MultRet THEN Frame.func + n ELSE before[Len(before)].top
                 /\ UNCHANGED <<status, results>>
  /\ UNCHANGED <<heap, out>>

VarArg ==
  /\ Op({"VARARG"}) /\ Skip(1) /\ UNCHANGED <<upvals, heap, out, status, results>>
  /\ LET n == IF Frame.base - Frame.func - P.np - 1 < 0 THEN 0 ELSE Frame.base - Frame.func - P.np - 1
         b == IF I.b = 0 THEN n ELSE I.b - 1
         ra == Frame.base + I.a
     IN  /\ stack' = [s \in DOMAIN stack |-> IF s < ra \/ s >= ra + b THEN stack[s]
                                             ELSE IF s - ra < n THEN stack[Frame.base - n + (s - ra)] ELSE Nil]
         /\ top' = IF I.b = 0 THEN ra + n ELSE top

SetListOp ==
  /\ Op({"SETLIST"}) /\ Skip(1) /\ top' = Frame.top /\ UNCHANGED <<stack, upvals, out, status, results>>
  /\ LET ra == Frame.base + I.a
         n == IF I.b = 0 THEN top - ra - 1 ELSE I.b
         first == (I.c - 1) * FieldsPerFlush
         t == stack[ra][2]
         old == heap.tables[t]
         keys == {Number(first + i) : i \in {j \in 1..n : stack[ra + j] # Nil}}
     IN  heap' = [heap EXCEPT !.tables[t] = [k \in DOMAIN old \cup keys |-> IF k \in keys THEN stack[ra + k[2] - first] ELSE old[k]]]
-----------------------------------------------------------------------------
(* Closures. *)

OpenAt(slot) == {u \in DOMAIN upvals : upvals[u].open /\ upvals[u].at = slot}
\* getcached: the same variables.
Cached(p, path) ==
  /\ path \in DOMAIN heap.cache
  /\ \A i \in DOMAIN p.ups :
       LET u == heap.closures[heap.cache[path]].ups[i] IN
       IF p.ups[i].instack THEN u \in OpenAt(Frame.base + p.ups[i].idx) ELSE u = Cl.ups[p.ups[i].idx + 1]

\* luaF_findupval: the open upvalue of a slot, a new one if there is none.
ClosureOp ==
  /\ Op({"CLOSURE"}) /\ Skip(1) /\ UNCHANGED <<top, out, status, results>>
  /\ LET path == Append(Cl.path, I.b + 1)
         p == ProtoAt(main, path)
         slots == {Frame.base + p.ups[i].idx : i \in {j \in DOMAIN p.ups : p.ups[j].instack}}
         new == {s \in slots : OpenAt(s) = {}}
         id(s) == IF s \in new THEN Len(upvals) + 1 + Cardinality({t \in new : t < s}) ELSE CHOOSE u \in OpenAt(s) : TRUE
         n == Len(heap.closures) + 1
     IN  IF Cached(p, path)
         THEN stack' = [stack EXCEPT ![Frame.base + I.a] = <<"fun", heap.cache[path]>>] /\ UNCHANGED <<upvals, heap>>
         ELSE /\ upvals' = upvals \o [i \in 1..Cardinality(new) |->
                              [open |-> TRUE, at |-> CHOOSE s \in new : id(s) = Len(upvals) + i, v |-> Nil]]
              /\ heap' = [heap EXCEPT !.closures = Append(@, [path |-> path, ups |-> [i \in DOMAIN p.ups |->
                             IF p.ups[i].instack THEN id(Frame.base + p.ups[i].idx) ELSE Cl.ups[p.ups[i].idx + 1]]]),
                                      !.cache = (path :> n) @@ @]
              /\ stack' = [stack EXCEPT ![Frame.base + I.a] = <<"fun", n>>]
-----------------------------------------------------------------------------
(* Loops. *)

ForPrep ==
  /\ Op({"FORPREP"})
  /\ LET init == Reg(I.a) step == Reg(I.a + 2) IN
     IF {init[1], Reg(I.a + 1)[1], step[1]} # {"int"} THEN Raise
     ELSE stack' = [stack EXCEPT ![Frame.base + I.a] = Number(init[2] - step[2])] /\ Skip(1 + I.b) /\ Keep
ForLoop ==
  /\ Op({"FORLOOP"})
  /\ LET step == Reg(I.a + 2)[2] idx == Reg(I.a)[2] + step limit == Reg(I.a + 1)[2] IN
     IF (IF 0 < step THEN idx <= limit ELSE limit <= idx)
     THEN stack' = [stack EXCEPT ![Frame.base + I.a] = Number(idx), ![Frame.base + I.a + 3] = Number(idx)] /\ Skip(1 + I.b) /\ Keep
     ELSE Skip(1) /\ Keep /\ UNCHANGED stack
TForLoop ==
  /\ Op({"TFORLOOP"})
  /\ IF Reg(I.a + 1) # Nil THEN stack' = [stack EXCEPT ![Frame.base + I.a] = Reg(I.a + 1)] /\ Skip(1 + I.b) /\ Keep
     ELSE Skip(1) /\ Keep /\ UNCHANGED stack
-----------------------------------------------------------------------------
Init ==
  /\ program \in Programs
  /\ main = Compile(program)
  /\ LET n == Len(Args) base == n + 2 IN
     /\ ci = <<[func |-> 1, base |-> base, top |-> base + main.max, pc |-> 0, nres |-> MultRet, cl |-> 1]>>
     /\ stack = [s \in 1..StackSize |-> IF s = 1 THEN <<"fun", 1>> ELSE IF s < base THEN Args[s - 1] ELSE Garbage]
     /\ top = base + main.max
  /\ upvals = <<[open |-> FALSE, at |-> 0, v |-> <<"tab", 1>>]>>
  /\ heap = [tables |-> <<<<"str", "emit">> :> Emit>>, closures |-> <<[path |-> <<>>, ups |-> <<1>>]>>, cache |-> <<>>]
  /\ out = <<>> /\ results = <<>>
  /\ status = IF main.err = "" THEN "run" ELSE "refused"

Next ==
  /\ \/ LoadConstant \/ LoadBool \/ LoadNil \/ Move \/ GetUpval \/ SetUpval \/ GetTable \/ SetTable \/ NewTable \/ SelfOp
     \/ Arith \/ Unary \/ ConcatOp \/ JumpOp \/ Compare \/ Test \/ TestSetOp
     \/ Call \/ TForCall \/ TailCall \/ Return \/ VarArg \/ SetListOp \/ ClosureOp \/ ForPrep \/ ForLoop \/ TForLoop
  /\ UNCHANGED <<program, main>>

Spec == Init /\ [][Next]_vars
-----------------------------------------------------------------------------
Plain(v) == IF v[1] \in {"tab", "fun"} THEN <<v[1]>> ELSE v
PlainSeq(vs) == [i \in DOMAIN vs |-> Plain(vs[i])]

IsOutcome(o) ==
  /\ o.status = status /\ PlainSeq(o.out) = PlainSeq(out)
  /\ status = "done" => PlainSeq(o.results) = PlainSeq(results)

(***************************************************************************)
(* A program computes what it means: it returns, or fails, as the          *)
(* definition of the language says, having output the same.  It is refused *)
(* exactly if a goto or break asks for a label that its function does not  *)
(* offer, or that lies in the scope of a variable declared in between, or  *)
(* if a block defines a label twice (findlabel, closegoto, undefgoto,      *)
(* checkrepeated of lparser.c).  Programs with a goto to a label right     *)
(* behind the first statement of a then part are compiled wrongly (see     *)
(* GotosReachLabels) and excepted.                                         *)
(***************************************************************************)
Outcome == status \in {"done", "error"} => IsOutcome(M!Outcome(program, Args))
MeansTheSame ==
  /\ (status = "refused") = (M!Wanted(program) # {})
  /\ Outcome \/ M!Misled(program)

(***************************************************************************)
(* "Will jump to label if condition is true", "must skip over 'then' part  *)
(* if condition is false" (test_then_block, lparser.c 1392 and 1400): an   *)
(* if whose then part begins with a goto or break does what it means, also *)
(* with labels behind the goto.                                            *)
(***************************************************************************)
GotosReachLabels == Outcome

(***************************************************************************)
(* The registers an instruction reads hold values it may use: they are in  *)
(* the frame of the function, and something was stored in them since it    *)
(* was entered and since the last call above them.                         *)
(***************************************************************************)
Operands(i) ==
  LET rk(x) == IF x >= BitRK THEN {} ELSE {x} IN
  CASE i.o \in {"MOVE", "UNM", "NOT", "LEN", "TESTSET"} -> {i.b}
    [] i.o \in ArithOps \cup {"EQ", "LT", "LE", "SETTABUP"} -> rk(i.b) \cup rk(i.c)
    [] i.o \in {"GETTABLE", "SELF"} -> {i.b} \cup rk(i.c)
    [] i.o = "GETTABUP" -> rk(i.c)
    [] i.o = "SETTABLE" -> {i.a} \cup rk(i.b) \cup rk(i.c)
    [] i.o \in {"SETUPVAL", "TEST"} -> {i.a}
    [] i.o = "CONCAT" -> i.b..i.c
    [] i.o \in {"CALL", "TAILCALL"} -> i.a..(ArgsTop - Frame.base - 1)
    [] i.o = "RETURN" -> i.a..(IF i.b # 0 THEN i.a + i.b - 2 ELSE top - Frame.base - 1)
    [] i.o = "SETLIST" -> i.a..(IF i.b # 0 THEN i.a + i.b ELSE top - Frame.base - 1)
    [] i.o \in {"FORPREP", "FORLOOP", "TFORCALL"} -> i.a..(i.a + 2)
    [] i.o = "TFORLOOP" -> {i.a + 1}
    [] OTHER -> {}
ReadsWhatWasStored == Running => \A x \in Operands(I) : Reg(x) # Garbage

(***************************************************************************)
(* The assertions of the compiler hold (lcode.c, lparser.c): registers are *)
(* freed in the order of a stack, jumps are patched backwards only to code *)
(* that exists, and every statement leaves just the local variables.       *)
(***************************************************************************)
CompilerAsserts == ~main.bad

(***************************************************************************)
(* Every jump is patched, to an instruction of its function; every test is *)
(* followed by a jump, and one that keeps its value knows where            *)
(* (lopcodes.h: all skips assume that next instruction is a jump).         *)
(***************************************************************************)
JumpsLand ==
  main.err = "" => \A f \in {main} \cup {main.p[k] : k \in DOMAIN main.p} : \A pc \in DOMAIN f.code :
    LET i == f.code[pc] IN
    /\ i.o = "JMP" => i.b # NoJump /\ pc + 1 + i.b \in DOMAIN f.code
    /\ i.o \in TestOps => f.code[pc + 1].o = "JMP"
    /\ i.o = "TESTSET" => i.a # NoReg

(***************************************************************************)
(* An open upvalue is the only one of its slot, the slot of a variable     *)
(* that has a value, of a function still active (lfunc.c, and the jumps    *)
(* and returns that have to close).                                        *)
(***************************************************************************)
UpvaluesLive ==
  status = "run" => \A u \in DOMAIN upvals : upvals[u].open =>
    /\ OpenAt(upvals[u].at) = {u}
    /\ stack[upvals[u].at] # Garbage
    /\ \E j \in DOMAIN ci : upvals[u].at \in ci[j].base..(ci[j].top - 1)

(***************************************************************************)
(* The compiler is left with its invariants intact, the code it makes goes *)
(* nowhere but to instructions, and reads nothing that was not stored.     *)
(***************************************************************************)
CodeWellFormed == CompilerAsserts /\ JumpsLand /\ ReadsWhatWasStored
=============================================================================
