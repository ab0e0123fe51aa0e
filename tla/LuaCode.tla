------------------------------ MODULE LuaCode ------------------------------
(***************************************************************************)
(* The code generator of the Lua interpreter (lua/lcode.c).  f is a        *)
(* FuncState with its function: f.code is numbered from 0, f.e is the      *)
(* expression in hand (an expdesc), f.bad says that an assertion of the    *)
(* generator has failed, f.err what the program is refused for.  A list of *)
(* jumps is threaded through the offsets of its instructions.  Numbers are *)
(* integers only; line information is left out.                            *)
(***************************************************************************)
EXTENDS Integers, Sequences, FiniteSets

CONSTANTS MaxIndexRK,  \* MAXINDEXRK
          MaxBx,       \* MAXARG_Bx
          MaxRegs      \* MAXREGS

BitRK == 1000
NoReg == 999
NoJump == -1
MultRet == -1
FieldsPerFlush == 2

Nil == <<"nil">>
Bool(b) == <<"bool", b>>
Number(n) == <<"int", n>>

Exp(k, info) == [k |-> k, info |-> info, t |-> NoJump, f |-> NoJump, idx |-> 0, vt |-> ""]
With(f, e) == [f EXCEPT !.e = e]
Is(f, kinds) == f.e.k \in kinds
HasJumps(e) == e.t # e.f
Check(f, ok) == IF ok THEN f ELSE [f EXCEPT !.bad = TRUE]
Refuse(f, why) == [f EXCEPT !.err = IF @ = "" THEN why ELSE @]

Pc(f) == Len(f.code)
At(f, pc) == f.code[pc + 1]
Instr(o, a, b, c) == [o |-> o, a |-> a, b |-> b, c |-> c]
TestOps == {"EQ", "LT", "LE", "TEST", "TESTSET"}
-----------------------------------------------------------------------------
(* Lists of jumps. *)

GetJump(f, pc) == IF At(f, pc).b = NoJump THEN NoJump ELSE pc + 1 + At(f, pc).b
FixJump(f, pc, dest) == [f EXCEPT !.code[pc + 1].b = dest - (pc + 1)]

RECURSIVE LastJump(_, _)
LastJump(f, list) == IF GetJump(f, list) = NoJump THEN list ELSE LastJump(f, GetJump(f, list))

\* luaK_concat: the head of the joined list, and the code.
Joined(l1, l2) == IF l1 = NoJump THEN l2 ELSE l1
Concat(f, l1, l2) == IF l1 = NoJump \/ l2 = NoJump THEN f ELSE FixJump(f, LastJump(f, l1), l2)

Control(f, pc) == IF pc >= 1 /\ At(f, pc - 1).o \in TestOps THEN pc - 1 ELSE pc
TestSet(f, node) == At(f, Control(f, node)).o = "TESTSET"

PatchTest(f, pc, i, reg) ==
  IF i.o # "TESTSET" THEN f
  ELSE [f EXCEPT !.code[pc + 1] = IF reg # NoReg /\ reg # i.b THEN [i EXCEPT !.a = reg] ELSE Instr("TEST", i.b, 0, i.c)]
PatchTestAt(f, pc, reg) == PatchTest(f, pc, At(f, pc), reg)
PatchTestReg(f, node, reg) == PatchTestAt(f, Control(f, node), reg)

RECURSIVE RemoveValues(_, _)
RemoveValues(f, list) == IF list = NoJump THEN f ELSE RemoveValues(PatchTestReg(f, list, NoReg), GetJump(f, list))

RECURSIVE PatchListAux(_, _, _, _, _)
PatchListAux(f, list, vtarget, reg, dtarget) ==
  IF list = NoJump THEN f
  ELSE PatchListAux(FixJump(PatchTestReg(f, list, reg), list, IF TestSet(f, list) THEN vtarget ELSE dtarget),
                    GetJump(f, list), vtarget, reg, dtarget)

DischargeJpc(f) == [PatchListAux(f, f.jpc, Pc(f), NoReg, Pc(f)) EXCEPT !.jpc = NoJump]
GetLabel(f) == [f EXCEPT !.lasttarget = Pc(f)]

JoinJpc(f, list) == [Concat(f, f.jpc, list) EXCEPT !.jpc = Joined(@, list)]
PatchToHere(f, list) == JoinJpc(GetLabel(f), list)
PatchList(f, list, target) ==
  IF target = Pc(f) THEN PatchToHere(f, list) ELSE PatchListAux(Check(f, target < Pc(f)), list, target, NoReg, target)

RECURSIVE PatchClose(_, _, _)
PatchClose(f, list, level) ==
  IF list = NoJump THEN f
  ELSE PatchClose([Check(f, At(f, list).o = "JMP" /\ (At(f, list).a = 0 \/ At(f, list).a >= level + 1))
                     EXCEPT !.code[list + 1].a = level + 1], GetJump(f, list), level)
-----------------------------------------------------------------------------
(* Instructions, registers and constants. *)

AddInstr(f, i) == [f EXCEPT !.code = Append(@, i)]
Code(f, o, a, b, c) == AddInstr(DischargeJpc(f), Instr(o, a, b, c))
LastPc(f) == Pc(f) - 1

\* luaK_jump: the list is now headed by the new instruction.
HeadJpc(f, jpc) == Concat(f, LastPc(f), jpc)
Jump(f) == HeadJpc(Code([f EXCEPT !.jpc = NoJump], "JMP", 0, NoJump, 0), f.jpc)
CondJump(f, o, a, b, c) == Jump(Code(f, o, a, b, c))
Ret(f, first, nret) == Code(f, "RETURN", first, nret + 1, 0)

NoJumpHere(f) == Pc(f) > f.lasttarget

\* luaK_nil, over registers from..l: prev is extended if the ranges connect.
Connects(prev, from, l) ==
  prev.o = "LOADNIL" /\ (from \in prev.a..(prev.a + prev.b + 1) \/ prev.a \in from..(l + 1))
Extended(f, prev, from, l) ==
  LET Least(a, b) == IF a < b THEN a ELSE b
      lo == Least(prev.a, from)
  IN  [f EXCEPT !.code[Pc(f)] = [prev EXCEPT !.a = lo, !.b = -Least(-(prev.a + prev.b), -l) - lo]]
NilRange(f, from, n) ==
  IF NoJumpHere(f) /\ Connects(At(f, LastPc(f)), from, from + n - 1)
  THEN Extended(f, At(f, LastPc(f)), from, from + n - 1)
  ELSE Code(f, "LOADNIL", from, n - 1, 0)

CodeK(f, reg, k) ==
  IF k <= MaxBx THEN Code(f, "LOADK", reg, k, 0)
  ELSE AddInstr(Code(f, "LOADKX", reg, 0, 0), Instr("EXTRAARG", k, 0, 0))

CheckStack(f, n) ==
  IF f.free + n <= f.max THEN f
  ELSE [(IF f.free + n >= MaxRegs THEN Refuse(f, "too many registers") ELSE f) EXCEPT !.max = f.free + n]
ReserveRegs(f, n) == [CheckStack(f, n) EXCEPT !.free = @ + n]
FreeReg(f, reg) ==
  IF reg < BitRK /\ reg >= f.nactvar THEN [Check(f, reg = f.free - 1) EXCEPT !.free = @ - 1] ELSE f
FreeExp(f, e) == IF e.k = "NONRELOC" THEN FreeReg(f, e.info) ELSE f

\* Faulty: always the second one first.
FreeExpsUnordered(f, e1, e2) == FreeExp(FreeExp(f, e1), e2)

FreeExps(f, e1, e2) ==
  LET r(e) == IF e.k = "NONRELOC" THEN e.info ELSE -1
  IN  IF r(e1) > r(e2) THEN FreeExp(FreeExp(f, e1), e2) ELSE FreeExp(FreeExp(f, e2), e1)

\* addk: the place of a constant, and the function that has it.
KIndex(f, v) == (CHOOSE i \in 1..(Len(f.k) + 1) : (i = Len(f.k) + 1 \/ f.k[i] = v) /\ \A j \in 1..(i - 1) : f.k[j] # v) - 1
AddK(f, v) == IF KIndex(f, v) < Len(f.k) THEN f ELSE [f EXCEPT !.k = Append(@, v)]
-----------------------------------------------------------------------------
(* Expressions. *)

Reloc(f) == [f EXCEPT !.e.k = "RELOC", !.e.info = LastPc(f)]
SetReturns(f, n) ==
  IF f.e.k = "CALL" THEN [f EXCEPT !.code[f.e.info + 1].c = n + 1]
  ELSE IF f.e.k = "VARARG" THEN ReserveRegs([f EXCEPT !.code[f.e.info + 1].b = n + 1, !.code[f.e.info + 1].a = f.free], 1)
  ELSE Check(f, n = MultRet)
SetOneRet(f) ==
  IF f.e.k = "CALL" THEN [f EXCEPT !.e.k = "NONRELOC", !.e.info = At(f, f.e.info).a]
  ELSE IF f.e.k = "VARARG" THEN [f EXCEPT !.code[f.e.info + 1].b = 2, !.e.k = "RELOC"]
  ELSE f

DischargeVars(f) ==
  CASE f.e.k = "LOCAL" -> [f EXCEPT !.e.k = "NONRELOC"]
    [] f.e.k = "UPVAL" -> Reloc(Code(f, "GETUPVAL", 0, f.e.info, 0))
    [] f.e.k = "INDEXED" ->
         Reloc(Code(FreeReg(FreeReg(f, f.e.idx), IF f.e.vt = "LOCAL" THEN f.e.info ELSE BitRK),
                    IF f.e.vt = "LOCAL" THEN "GETTABLE" ELSE "GETTABUP", 0, f.e.info, f.e.idx))
    [] OTHER -> SetOneRet(f)

Constant(e) ==
  CASE e.k = "KINT" -> Number(e.info) [] e.k = "NIL" -> Nil [] e.k = "TRUE" -> Bool(TRUE) [] e.k = "FALSE" -> Bool(FALSE)

InReg(f, reg) == [f EXCEPT !.e.info = reg, !.e.k = "NONRELOC"]
LoadConst(f, reg) == CodeK(f, reg, f.e.info)
\* The instruction for one that is not in a register, nor a constant.
LoadInstr(e, reg) ==
  IF e.k = "NONRELOC" THEN Instr("MOVE", reg, e.info, 0) ELSE Instr("LOADBOOL", reg, IF e.k = "TRUE" THEN 1 ELSE 0, 0)
CodeInstr(f, i) == Code(f, i.o, i.a, i.b, i.c)
IntAsK(f, v) == [f EXCEPT !.e.info = KIndex(f, v)]
Load(f, reg) ==
  CASE f.e.k = "NIL" -> NilRange(f, reg, 1)
    [] f.e.k \in {"K", "KINT"} ->
         LoadConst(IF f.e.k = "K" THEN f ELSE IntAsK(AddK(f, Number(f.e.info)), Number(f.e.info)), reg)
    [] f.e.k = "RELOC" -> [f EXCEPT !.code[f.e.info + 1].a = reg]
    [] OTHER -> IF f.e.k = "NONRELOC" /\ reg = f.e.info THEN f ELSE CodeInstr(f, LoadInstr(f.e, reg))

\* discharge2reg: an expression that is a jump stays one.
LoadValue(f, reg) == IF f.e.k = "JMP" THEN f ELSE InReg(Load(f, reg), reg)
Discharge2Reg(f, reg) == LoadValue(DischargeVars(f), reg)

DischargeToTop(f) == Discharge2Reg(f, f.free - 1)
Discharge2AnyReg(f) == IF f.e.k = "NONRELOC" THEN f ELSE DischargeToTop(ReserveRegs(f, 1))

RECURSIVE NeedValue(_, _)
NeedValue(f, list) == list # NoJump /\ (~TestSet(f, list) \/ NeedValue(f, GetJump(f, list)))

(* exp2reg, in its steps: the jump of the expression itself, the values    *)
(* true and false for the jumps that bring none, the jumps to the end.     *)
OwnJump(f) == IF f.e.k = "JMP" THEN [Concat(f, f.e.t, f.e.info) EXCEPT !.e.t = Joined(@, f.e.info)] ELSE f
JumpsToEnd(f, reg, pf, pt) ==
  PatchListAux(PatchListAux(GetLabel(f), f.e.f, Pc(f), reg, pf), f.e.t, Pc(f), reg, pt)
LoadBools(f, reg) == Code(GetLabel(Code(GetLabel(f), "LOADBOOL", reg, 0, 1)), "LOADBOOL", reg, 1, 0)
BehindBools(f, reg, fj) == JumpsToEnd(PatchToHere(f, fj), reg, LastPc(f) - 1, LastPc(f))
AddBools(f, reg) == BehindBools(LoadBools(f, reg), reg, IF f.e.k = "JMP" THEN NoJump ELSE LastPc(f))
PlaceJumps(f, reg) ==
  IF ~HasJumps(f.e) THEN f
  ELSE IF NeedValue(f, f.e.t) \/ NeedValue(f, f.e.f) THEN AddBools(IF f.e.k = "JMP" THEN f ELSE Jump(f), reg)
  ELSE JumpsToEnd(f, reg, NoJump, NoJump)
Exp2Reg(f, reg) == With(PlaceJumps(OwnJump(Discharge2Reg(f, reg)), reg), Exp("NONRELOC", reg))

FreeOwn(f) == FreeExp(f, f.e)
ToTop(f) == Exp2Reg(f, f.free - 1)
Exp2NextReg(f) == ToTop(ReserveRegs(FreeOwn(DischargeVars(f)), 1))

AnyReg(f) ==
  IF f.e.k = "NONRELOC" /\ ~HasJumps(f.e) THEN f
  ELSE IF f.e.k = "NONRELOC" /\ f.e.info >= f.nactvar THEN Exp2Reg(f, f.e.info)
  ELSE Exp2NextReg(f)
Exp2AnyReg(f) == AnyReg(DischargeVars(f))
Exp2AnyRegUp(f) == IF f.e.k # "UPVAL" \/ HasJumps(f.e) THEN Exp2AnyReg(f) ELSE f
Exp2Val(f) == IF HasJumps(f.e) THEN Exp2AnyReg(f) ELSE DischargeVars(f)

\* luaK_exp2RK: the index is RK of the expression it leaves.
AsK(f, v) == [f EXCEPT !.e.k = "K", !.e.info = KIndex(f, v)]
ToK(f) == IF Is(f, {"TRUE", "FALSE", "NIL", "KINT"}) THEN AsK(AddK(f, Constant(f.e)), Constant(f.e)) ELSE f
KOrReg(f) == IF f.e.k = "K" /\ f.e.info <= MaxIndexRK THEN f ELSE Exp2AnyReg(f)
Exp2RK(f) == KOrReg(ToK(Exp2Val(f)))
RK(e) == IF e.k = "K" THEN BitRK + e.info ELSE e.info

\* luaK_storevar: f.e into var.
SetUpvar(f, var) == FreeOwn(Code(f, "SETUPVAL", f.e.info, var.info, 0))
SetIndexed(f, var) == FreeOwn(Code(f, IF var.vt = "LOCAL" THEN "SETTABLE" ELSE "SETTABUP", var.info, var.idx, RK(f.e)))
StoreVar(f, var) ==
  IF var.k = "LOCAL" THEN Exp2Reg(FreeExp(f, f.e), var.info)
  ELSE IF var.k = "UPVAL" THEN SetUpvar(Exp2AnyReg(f), var)
  ELSE SetIndexed(Exp2RK(f), var)

\* luaK_self: the object was in register obj, the method goes to base.
SelfKey(f, name) == Exp2RK(With(f, Exp("K", KIndex(f, name))))
CodeSelf(f, base, obj) == With(FreeOwn(Code(f, "SELF", base, obj, RK(f.e))), Exp("NONRELOC", base))
SelfAt(f, name, obj) == CodeSelf(SelfKey(AddK(ReserveRegs(f, 2), name), name), f.free, obj)
SelfOf(f, name) == SelfAt(FreeOwn(f), name, f.e.info)
Self(f, name) == SelfOf(Exp2AnyReg(f), name)

NegateCondition(f) == [f EXCEPT !.code[Control(f, f.e.info) + 1].a = 1 - @]

\* jumponcond: the jump is the last instruction.
TestJump(f, cond) == CondJump(FreeOwn(f), "TESTSET", NoReg, f.e.info, cond)
JumpOnCond(f, cond) ==
  IF f.e.k = "RELOC" /\ At(f, f.e.info).o = "NOT"
  THEN CondJump([f EXCEPT !.code = SubSeq(@, 1, Pc(f) - 1)], "TEST", At(f, f.e.info).b, 0, 1 - cond)
  ELSE TestJump(Discharge2AnyReg(f), cond)

\* The list of jumps taken when the condition does not hold grows by pc.
JoinFalse(f, pc) == [PatchToHere(Concat(f, f.e.f, pc), f.e.t) EXCEPT !.e.f = Joined(f.e.f, pc), !.e.t = NoJump]
JoinTrue(f, pc) == [PatchToHere(Concat(f, f.e.t, pc), f.e.f) EXCEPT !.e.t = Joined(f.e.t, pc), !.e.f = NoJump]
FalseAtEnd(f) == JoinFalse(f, LastPc(f))
TrueAtEnd(f) == JoinTrue(f, LastPc(f))
IfTrue(f) ==
  IF f.e.k = "JMP" THEN JoinFalse(NegateCondition(f), f.e.info)
  ELSE IF Is(f, {"K", "KINT", "TRUE"}) THEN JoinFalse(f, NoJump)
  ELSE FalseAtEnd(JumpOnCond(f, 0))
IfFalse(f) ==
  IF f.e.k = "JMP" THEN JoinTrue(f, f.e.info)
  ELSE IF Is(f, {"NIL", "FALSE"}) THEN JoinTrue(f, NoJump)
  ELSE TrueAtEnd(JumpOnCond(f, 1))
GoIfTrue(f) == IfTrue(DischargeVars(f))
GoIfFalse(f) == IfFalse(DischargeVars(f))

\* Faulty: tests keep the values they would have produced.
KeepValues(f, list) == f

UselessValues(f, list) == RemoveValues(f, list)

CodeNotReg(f) == Reloc(Code(FreeOwn(f), "NOT", 0, f.e.info, 0))
Negate(f) ==
  CASE Is(f, {"NIL", "FALSE"}) -> [f EXCEPT !.e.k = "TRUE"]
    [] Is(f, {"K", "KINT", "TRUE"}) -> [f EXCEPT !.e.k = "FALSE"]
    [] f.e.k = "JMP" -> NegateCondition(f)
    [] OTHER -> CodeNotReg(Discharge2AnyReg(f))
SwapLists(f) == [f EXCEPT !.e.t = f.e.f, !.e.f = f.e.t]
NoValues(f) == UselessValues(UselessValues(f, f.e.f), f.e.t)
CodeNot(f) == NoValues(SwapLists(Negate(DischargeVars(f))))

\* luaK_indexed: t is in a register or an upvalue, f.e is the key.
IndexedBy(f, t) ==
  With(Check(f, ~HasJumps(t) /\ t.k \in {"NONRELOC", "LOCAL", "UPVAL"}),
       [Exp("INDEXED", t.info) EXCEPT !.idx = RK(f.e), !.vt = IF t.k = "UPVAL" THEN "UPVAL" ELSE "LOCAL"])
Indexed(f, t) == IndexedBy(Exp2RK(f), t)

Numeral(e) == e.k = "KINT" /\ ~HasJumps(e)
IntArith(op, m, n) == CASE op = "+" -> m + n [] op = "-" -> m - n [] op = "*" -> m * n [] op = "//" -> m \div n

ValidOp(op, n) == op # "//" \/ n # 0

\* The operands must be numerals, here integers; division is of positives.
Foldable(op, e1, e2) == Numeral(e1) /\ Numeral(e2) /\ ValidOp(op, e2.info)

BothInPlace(f, op, e2) == Reloc(Code(FreeExps(f, f.e, e2), op, 0, RK(f.e), RK(e2)))
SecondInPlace(f, op, e1) == BothInPlace(Exp2RK(With(f, e1)), op, f.e)
CodeBinExpVal(f, op, e1) == SecondInPlace(Exp2RK(f), op, e1)

\* codecomp: > and >= are < and <= with the operands exchanged.
CompOp == [op \in {"==", "~=", "<", "<=", ">", ">="} |->
  IF op \in {"==", "~="} THEN "EQ" ELSE IF op \in {"<", ">"} THEN "LT" ELSE "LE"]
IsJump(f, e1) == With(f, [e1 EXCEPT !.k = "JMP", !.info = LastPc(f)])
CompareJump(f, op, e1, e2) ==
  IsJump(IF op \in {">", ">="} THEN CondJump(f, CompOp[op], 1, RK(e2), RK(e1))
         ELSE CondJump(f, CompOp[op], IF op = "~=" THEN 0 ELSE 1, RK(e1), RK(e2)), e1)
CompareWith(f, op, e1) == CompareJump(FreeExps(Check(f, e1.k \in {"K", "NONRELOC"}), e1, f.e), op, e1, f.e)
CodeComp(f, op, e1) == CompareWith(Exp2RK(f), op, e1)

ArithOps == {"+", "-", "*", "//"}
CodeUnary(f, o) == Reloc(Code(FreeOwn(f), o, 0, f.e.info, 0))
Prefix(f, op) ==
  IF op = "not" THEN CodeNot(f)
  ELSE IF op = "-" /\ Numeral(f.e) THEN [f EXCEPT !.e.info = -@]
  ELSE CodeUnary(Exp2AnyReg(f), IF op = "-" THEN "UNM" ELSE "LEN")

Infix(f, op) ==
  CASE op = "and" -> GoIfTrue(f) [] op = "or" -> GoIfFalse(f) [] op = ".." -> Exp2NextReg(f)
    [] op \in ArithOps /\ Numeral(f.e) -> f [] OTHER -> Exp2RK(f)

Merges(f) == f.e.k = "RELOC" /\ At(f, f.e.info).o = "CONCAT"

\* luaK_posfix: e1 op f.e.
JoinAnd(f, e1) == [Concat(Check(f, e1.t = NoJump), f.e.f, e1.f) EXCEPT !.e.f = Joined(f.e.f, e1.f)]
JoinOr(f, e1) == [Concat(Check(f, e1.f = NoJump), f.e.t, e1.t) EXCEPT !.e.t = Joined(f.e.t, e1.t)]
ConcatWith(f, e1) ==
  IF Merges(f)
  THEN [FreeExp(Check(f, e1.info = At(f, f.e.info).b - 1), e1) EXCEPT !.code[f.e.info + 1].b = e1.info, !.e.k = "RELOC"]
  ELSE CodeBinExpVal(Exp2NextReg(f), "CONCAT", e1)
Posfix(f, op, e1) ==
  CASE op = "and" -> JoinAnd(DischargeVars(f), e1)
    [] op = "or" -> JoinOr(DischargeVars(f), e1)
    [] op = ".." -> ConcatWith(Exp2Val(f), e1)
    [] op \in ArithOps -> IF Foldable(op, e1, f.e) THEN With(f, [e1 EXCEPT !.info = IntArith(op, @, f.e.info)])
                          ELSE CodeBinExpVal(f, op, e1)
    [] OTHER -> CodeComp(f, op, e1)

SetList(f, base, nelems, tostore) ==
  [Code(f, "SETLIST", base, IF tostore = MultRet THEN 0 ELSE tostore, ((nelems - 1) \div FieldsPerFlush) + 1)
     EXCEPT !.free = base + 1]
=============================================================================
