----------------------------- MODULE LuaParser -----------------------------
(***************************************************************************)
(* The one-pass compiler of the Lua interpreter (lua/lparser.c) over the   *)
(* code generator.  The token stream is abstracted to lists: f.stats holds *)
(* the statements to come in a block, f.rest the operands and operators to *)
(* come in an expression; an operand is a tuple headed by its kind.  The   *)
(* labels and gotos of Dyndata are kept per function, as no goto leaves    *)
(* one.  f.follow is what ends the block ("until" or "end").               *)
(***************************************************************************)
EXTENDS LuaCode

NewFunc == [code |-> <<>>, lasttarget |-> 0, jpc |-> NoJump, k |-> <<>>, p |-> <<>>, ups |-> <<>>, vars |-> <<>>,
            nactvar |-> 0, free |-> 0, max |-> 2, bl |-> <<>>, gt |-> <<>>, lab |-> <<>>, dots |-> FALSE, np |-> 0,
            e |-> Exp("VOID", 0), rest |-> <<>>, stats |-> <<>>, follow |-> "end", level |-> 0, prev |-> <<>>,
            bad |-> FALSE, err |-> ""]
Top(f) == f.bl[Len(f.bl)]
-----------------------------------------------------------------------------
(* Variables and scopes. *)

NewLocals(f, names) == [f EXCEPT !.vars = @ \o names]
AdjustLocals(f, n) == [f EXCEPT !.nactvar = @ + n]
RemoveVars(f, level) == [f EXCEPT !.vars = SubSeq(@, 1, Len(@) - (f.nactvar - level)), !.nactvar = level]

\* The last i of 0..n - 1 with P(i), -1 if there is none.
LastWith(n, P(_)) == LET S == {i \in 0..(n - 1) : P(i)} IN IF S = {} THEN -1 ELSE CHOOSE i \in S : \A j \in S : j <= i
SearchVar(f, n) == LastWith(f.nactvar, LAMBDA i : f.vars[i + 1] = n)
SearchUpvalue(f, n) == LastWith(Len(f.ups), LAMBDA i : f.ups[i + 1].name = n)

MarkUpval(f, level) == [f EXCEPT !.bl[LastWith(Len(f.bl), LAMBDA i : f.bl[i + 1].nactvar <= level) + 1].upval = TRUE]

\* newupvalue: the variable p.e of the enclosing function.
NewUpvalue(f, n, p) ==
  IF p.e.k = "VOID" THEN With(f, Exp("VOID", 0))
  ELSE [f EXCEPT !.prev = p, !.e = Exp("UPVAL", Len(f.ups)),
                 !.ups = Append(@, [name |-> n, instack |-> p.e.k = "LOCAL", idx |-> p.e.info])]

RECURSIVE SingleVarAux(_, _, _)
SingleVarAux(f, n, base) ==
  IF SearchVar(f, n) >= 0 THEN With(IF base THEN f ELSE MarkUpval(f, SearchVar(f, n)), Exp("LOCAL", SearchVar(f, n)))
  ELSE IF SearchUpvalue(f, n) >= 0 THEN With(f, Exp("UPVAL", SearchUpvalue(f, n)))
  ELSE IF f.level = 0 THEN With(f, Exp("VOID", 0))
  ELSE NewUpvalue(f, n, SingleVarAux(f.prev, n, FALSE))

AsString(f, s) == With(f, Exp("K", KIndex(f, s)))
StringK(f, name) == AsString(AddK(f, <<"str", name>>), <<"str", name>>)
FieldOf(f, n) == Indexed(StringK(f, n), f.e)
LocalOrGlobal(f, n) == IF f.e.k # "VOID" THEN f ELSE FieldOf(SingleVarAux(f, "_ENV", TRUE), n)
SingleVar(f, n) == LocalOrGlobal(SingleVarAux(f, n, TRUE), n)

DropExtra(f, nvars, nexps) == IF nexps > nvars THEN [f EXCEPT !.free = @ - (nexps - nvars)] ELSE f

\* adjust_assign: a call gives what is missing, else nil does.
OpenValues(f, more) == IF more > 1 THEN ReserveRegs(SetReturns(f, more), more - 1) ELSE SetReturns(f, more)
NilValues(f, extra) == IF extra > 0 THEN NilRange(ReserveRegs(f, extra), f.free, extra) ELSE f
AdjustAssign(f, nvars, nexps) ==
  DropExtra(IF Is(f, {"CALL", "VARARG"}) THEN OpenValues(f, IF nvars < nexps THEN 0 ELSE nvars - nexps + 1)
            ELSE NilValues(IF f.e.k # "VOID" THEN Exp2NextReg(f) ELSE f, nvars - nexps), nvars, nexps)
-----------------------------------------------------------------------------
(* Blocks, labels and gotos. *)

Label(f, name, pc) == [name |-> name, pc |-> pc, nactvar |-> f.nactvar]
RemoveAt(s, i) == SubSeq(s, 1, i - 1) \o SubSeq(s, i + 1, Len(s))

CheckScope(f, gt, label) ==
  IF gt.nactvar < label.nactvar THEN Refuse(f, "goto jumps into the scope of a local") ELSE f
CloseGoto(f, g, label) ==
  [PatchList(CheckScope(f, f.gt[g], label), f.gt[g].pc, label.pc) EXCEPT !.gt = RemoveAt(@, g)]

\* findlabel: the first label of the block with the name of goto g.
LabelOf(f, g) == {l \in (Top(f).lab + 1)..Len(f.lab) : f.lab[l].name = f.gt[g].name}
CloseVars(f, g, label) ==
  IF f.gt[g].nactvar > label.nactvar /\ (Top(f).upval \/ Len(f.lab) > Top(f).lab)
  THEN PatchClose(f, f.gt[g].pc, label.nactvar) ELSE f
CloseAt(f, g, label) == CloseGoto(CloseVars(f, g, label), g, label)
FindLabel(f, g) ==
  IF LabelOf(f, g) = {} THEN f ELSE CloseAt(f, g, f.lab[CHOOSE l \in LabelOf(f, g) : \A m \in LabelOf(f, g) : l <= m])

FirstGoto(f) == Top(f).gt + 1

RECURSIVE FindGotos(_, _, _)
FindGotos(f, label, i) ==
  IF i > Len(f.gt) THEN f
  ELSE IF f.gt[i].name = label.name THEN FindGotos(CloseGoto(f, i, label), label, i) ELSE FindGotos(f, label, i + 1)

CloseLeft(f, i, bl) == IF bl.upval THEN PatchClose(f, f.gt[i].pc, bl.nactvar) ELSE f

MoveOut(f, bl, i) ==
  IF f.gt[i].nactvar > bl.nactvar THEN [CloseLeft(f, i, bl) EXCEPT !.gt[i].nactvar = bl.nactvar] ELSE f

RECURSIVE MoveGotosOut(_, _, _)
MovedOut(f, bl, i) == MoveGotosOut(FindLabel(f, i), bl, IF LabelOf(f, i) = {} THEN i + 1 ELSE i)
MoveGotosOut(f, bl, i) == IF i > Len(f.gt) THEN f ELSE MovedOut(MoveOut(f, bl, i), bl, i)

EnterBlock(f, loop) ==
  [Check(f, f.free = f.nactvar) EXCEPT
     !.bl = Append(@, [loop |-> loop, nactvar |-> f.nactvar, lab |-> Len(f.lab), gt |-> Len(f.gt), upval |-> FALSE])]

\* createlabel: the gotos of the block that ask for it are resolved.
ResolveGotos(f, label) == FindGotos([f EXCEPT !.lab = Append(@, label)], label, FirstGoto(f))
BreakLabel(f) == ResolveGotos(f, Label(f, "break", Pc(f)))

\* leaveblock: upvalues are closed by a jump to the next instruction.
CloseHere(f, level) == PatchToHere(PatchClose(f, LastPc(f), level), LastPc(f))
CloseUpvals(f, bl) == IF Len(f.bl) > 1 /\ bl.upval THEN CloseHere(Jump(f), bl.nactvar) ELSE f
PopBlock(f, bl) == RemoveVars([f EXCEPT !.bl = SubSeq(@, 1, Len(@) - 1), !.lab = SubSeq(@, 1, bl.lab)], bl.nactvar)
PendingGotos(f, bl) ==
  IF f.bl # <<>> THEN MoveGotosOut(f, bl, bl.gt + 1)
  ELSE IF bl.gt < Len(f.gt) THEN Refuse(f, "goto without a label") ELSE f
FreeToLocals(f) == [f EXCEPT !.free = f.nactvar]
Leave(f, bl) == PendingGotos(FreeToLocals(PopBlock(IF bl.loop THEN BreakLabel(f) ELSE f, bl)), bl)
LeaveBlock(f) == Leave(CloseUpvals(f, Top(f)), Top(f))
-----------------------------------------------------------------------------
(* Functions and expressions. *)

RECURSIVE Parse(_, _, _)
RECURSIVE Subexpr(_, _)
RECURSIVE Expand(_, _)
RECURSIVE Explist(_, _)
RECURSIVE SuffixedExp(_, _)
RECURSIVE Fields(_, _, _)
RECURSIVE Statlist(_)
RECURSIVE Statement(_)
RECURSIVE TestThenBlocks(_, _, _)
RECURSIVE Targets(_, _, _, _)
RECURSIVE StoreAll(_, _)

Expr(f, toks) == Parse("expr", f, toks)

\* statlist over a list of statements, within the same block.
Stats(f, stats, follow) == Parse(follow, f, stats)

OpenFunc(f) == EnterBlock([NewFunc EXCEPT !.prev = f, !.level = f.level + 1], FALSE)
CloseFunc(f) == LeaveBlock(Ret(f, 0, 0))
Proto(f) == [code |-> f.code, k |-> f.k, p |-> f.p, ups |-> f.ups, np |-> f.np, dots |-> f.dots, max |-> f.max]

\* body: the closure is made in the enclosing function, whose blocks the
\* body may have marked.
CodeClosure(f) == Exp2NextReg(Reloc(With(Code(f, "CLOSURE", 0, Len(f.p), 0), Exp("VOID", 0))))
CloseBody(g) == [CodeClosure([g.prev EXCEPT !.bad = @ \/ g.bad, !.err = IF @ = "" THEN g.err ELSE @]) EXCEPT !.p = Append(@, Proto(g))]
Parameters(f, params, dots) ==
  [ReserveRegs(AdjustLocals(NewLocals(f, params), Len(params)), Len(params)) EXCEPT !.dots = dots, !.np = Len(params)]
Body(f, params, dots, stats) == CloseBody(CloseFunc(Stats(Parameters(OpenFunc(f), params, dots), stats, "end")))

Explist(f, exps) ==
  IF Len(exps) = 1 THEN Expr(f, exps[1]) ELSE Explist(Exp2NextReg(Expr(f, exps[1])), Tail(exps))

\* funcargs: the function is in register base.
CodeCall(f, base, n) == [Code(f, "CALL", base, n, 2) EXCEPT !.e = Exp("CALL", Pc(f)), !.free = base + 1]
ArgsInRegs(f, base) == CodeCall(f, base, f.free - base)
WithArgs(f, base) ==
  IF Is(f, {"CALL", "VARARG"}) THEN CodeCall(SetReturns(f, MultRet), base, 0)
  ELSE ArgsInRegs(IF f.e.k # "VOID" THEN Exp2NextReg(f) ELSE f, base)
ArgsAt(f, args, base) == WithArgs(IF args = <<>> THEN With(f, Exp("VOID", 0)) ELSE Explist(f, args), base)
FuncArgs(f, args) == ArgsAt(Check(f, f.e.k = "NONRELOC"), args, f.e.info)

\* A name, a parenthesised expression, and what may follow them.
IndexExp(f, toks) == Indexed(Exp2Val(Expr(f, toks)), f.e)
Suffix(f, x) ==
  CASE x[1] = "index" -> IndexExp(Exp2AnyRegUp(f), x[3])
    [] x[1] \in {"call", "method"} -> FuncArgs(IF x[1] = "call" THEN Exp2NextReg(f) ELSE Self(f, <<"str", x[3]>>), x[Len(x)])
SuffixedExp(f, x) ==
  CASE x[1] = "name" -> SingleVar(f, x[2])
    [] x[1] = "paren" -> DischargeVars(Expr(f, x[2]))
    [] OTHER -> Suffix(SuffixedExp(f, x[2]), x)

(* constructor: cc.pending is the number of list items not stored yet,     *)
(* cc.item the last one, which is still an expression.                     *)
FlushFull(f, cc) == IF cc.pending = FieldsPerFlush THEN SetList(f, cc.base, cc.na, FieldsPerFlush) ELSE f
CloseListField(f, cc) == IF cc.item.k = "VOID" THEN f ELSE FlushFull(Exp2NextReg(With(f, cc.item)), cc)
Closing(cc) ==
  [cc EXCEPT !.pending = IF cc.item.k # "VOID" /\ @ = FieldsPerFlush THEN 0 ELSE @, !.item = Exp("VOID", 0)]

LastListField(f, cc) ==
  IF cc.pending = 0 THEN f
  ELSE IF cc.item.k \in {"CALL", "VARARG"} THEN SetList(SetReturns(With(f, cc.item), MultRet), cc.base, cc.na, MultRet)
  ELSE SetList(IF cc.item.k = "VOID" THEN f ELSE Exp2NextReg(With(f, cc.item)), cc.base, cc.na, cc.pending)

SetRecField(f, key, cc, free) == [Code(f, "SETTABLE", cc.base, RK(key), RK(f.e)) EXCEPT !.free = free]
RecValue(f, value, cc, free) == SetRecField(Exp2RK(Expr(f, value)), f.e, cc, free)
RecField(f, x, cc) == RecValue(Exp2RK(Exp2Val(Expr(f, x[2]))), x[3], cc, f.free)
ListField(f, fields, cc) == Fields(f, fields, [cc EXCEPT !.item = f.e, !.na = @ + 1, !.pending = @ + 1])

FieldFrom(f, fields, cc) ==
  IF Head(fields)[1] = "rec" THEN Fields(RecField(f, Head(fields), cc), Tail(fields), cc)
  ELSE ListField(Expr(f, Head(fields)[2]), Tail(fields), cc)
Fields(f, fields, cc) ==
  IF fields = <<>> THEN LastListField(f, cc) ELSE FieldFrom(CloseListField(f, cc), fields, Closing(cc))
FieldsIn(f, fields) == With(Fields(f, fields, [base |-> f.e.info, item |-> Exp("VOID", 0), na |-> 0, pending |-> 0]), f.e)
Constructor(f, fields) == FieldsIn(Exp2NextReg(Reloc(With(Code(f, "NEWTABLE", 0, 0, 0), Exp("VOID", 0)))), fields)

VarargExp(f) == [Code(f, "VARARG", 0, 1, 0) EXCEPT !.e = Exp("VARARG", Pc(f))]
SimpleExp(f, x) ==
  CASE x[1] = "int" -> With(f, Exp("KINT", x[2]))
    [] x[1] = "str" -> StringK(f, x[2])
    [] x[1] = "nil" -> With(f, Exp("NIL", 0))
    [] x[1] = "bool" -> With(f, Exp(IF x[2] THEN "TRUE" ELSE "FALSE", 0))
    [] x[1] = "dots" -> VarargExp(IF f.dots THEN f ELSE Refuse(f, "cannot use '...'"))
    [] x[1] = "table" -> Constructor(f, x[2])
    [] x[1] = "function" -> Body(f, x[2], x[3], x[4])
    [] OTHER -> SuffixedExp(f, x)

Priority == [op \in {"+", "-", "*", "//", "..", "<", ">", "<=", ">=", "==", "~=", "and", "or"} |->
  CASE op \in {"+", "-"} -> <<10, 10>> [] op \in {"*", "//"} -> <<11, 11>> [] op = ".." -> <<9, 8>>
    [] op = "and" -> <<2, 2>> [] op = "or" -> <<1, 1>> [] OTHER -> <<3, 3>>]
UnaryPriority == 12

FirstOperand(f, x) == IF x[1] = "op" THEN Prefix(Subexpr(f, UnaryPriority), x[2]) ELSE SimpleExp(f, x)
Subexpr(f, limit) == Expand(FirstOperand([f EXCEPT !.rest = Tail(@)], Head(f.rest)), limit)

\* subexpr: v.e is the first operand, and the second one follows.
SecondOperand(v, op) == Posfix(Subexpr(v, Priority[op][2]), op, v.e)
Expand(f, limit) ==
  IF f.rest = <<>> \/ Priority[Head(f.rest)[2]][1] <= limit THEN f
  ELSE Expand(SecondOperand(Infix([f EXCEPT !.rest = Tail(@)], Head(f.rest)[2]), Head(f.rest)[2]), limit)
-----------------------------------------------------------------------------
(* Statements. *)

Block(f, stats) == LeaveBlock(Stats(EnterBlock(f, FALSE), stats, "end"))
BlockFollow(f) == f.stats = <<>> /\ f.follow # "until"

\* check_conflict: earlier targets use a copy of the variable v.
Conflict(f, lhs, v) ==
  LET tab(x) == x.k = "INDEXED" /\ x.vt = v.k /\ x.info = v.info
      key(x) == x.k = "INDEXED" /\ v.k = "LOCAL" /\ x.idx = v.info
      safe(x) == [x EXCEPT !.vt = IF tab(x) THEN "LOCAL" ELSE @, !.info = IF tab(x) THEN f.free ELSE @,
                           !.idx = IF key(x) THEN f.free ELSE @]
      conflict == v.k # "INDEXED" /\ \E i \in DOMAIN lhs : tab(lhs[i]) \/ key(lhs[i])
  IN  [f |-> IF conflict THEN ReserveRegs(Code(f, IF v.k = "LOCAL" THEN "MOVE" ELSE "GETUPVAL", f.free, v.info, 0), 1) ELSE f,
       lhs |-> IF conflict THEN [i \in DOMAIN lhs |-> safe(lhs[i])] ELSE lhs]

Conflicts(f, lhs, v) == Conflict(f, lhs, v)

\* assignment: the expressions come when all targets are in lhs.
NextTarget(c, v, targets, exps) == Targets(c.f, targets, exps, Append(c.lhs, v))
AddTarget(f, targets, exps, lhs) == NextTarget(Conflicts(f, lhs, f.e), f.e, targets, exps)
StoreAll(f, lhs) ==
  IF lhs = <<>> THEN f ELSE StoreAll(StoreVar(With(f, Exp("NONRELOC", f.free - 1)), lhs[Len(lhs)]), SubSeq(lhs, 1, Len(lhs) - 1))
StoreValues(f, lhs, n) ==
  IF n # Len(lhs) THEN StoreAll(AdjustAssign(f, Len(lhs), n), lhs)
  ELSE StoreAll(StoreVar(SetOneRet(f), lhs[n]), SubSeq(lhs, 1, n - 1))
Targets(f, targets, exps, lhs) ==
  IF targets = <<>> THEN StoreValues(Explist(f, exps), lhs, Len(exps))
  ELSE AddTarget(SuffixedExp(f, Head(targets)), Tail(targets), exps, lhs)
Assignment(f, targets, exps) == Targets(f, targets, exps, <<>>)

\* cond: all values but false and nil are true.
NilIsFalse(f) == IF f.e.k = "NIL" THEN [f EXCEPT !.e.k = "FALSE"] ELSE f
Cond(f, c) == GoIfTrue(NilIsFalse(Expr(f, c)))

Goto(f, g) == FindLabel([f EXCEPT !.gt = Append(@, g)], Len(f.gt) + 1)
GotoStat(f, name, pc) == Goto(f, Label(f, name, pc))

\* skipnoopstat: labels are statements that do nothing.
RECURSIVE SkipNoop(_)
SkipNoop(f) == IF f.stats # <<>> /\ Head(f.stats)[1] = "label" THEN SkipNoop(Statement(f)) ELSE f

BlockEnd(f, n) == IF BlockFollow(f) THEN [f EXCEPT !.lab[n].nactvar = Top(f).nactvar] ELSE f

Resolve(f, n) == FindGotos(f, f.lab[n], FirstGoto(f))
CheckRepeated(f, name) ==
  IF \E l \in (Top(f).lab + 1)..Len(f.lab) : f.lab[l].name = name THEN Refuse(f, "label already defined") ELSE f
LabelStat(f, name) ==
  Resolve(BlockEnd(SkipNoop([GetLabel(CheckRepeated(f, name)) EXCEPT !.lab = Append(@, Label(f, name, Pc(f)))]), Len(f.lab) + 1),
          Len(f.lab) + 1)

\* A jump back to pc start, and out of the loop for the false exits.
JumpBack(f, start) == PatchList(f, LastPc(f), start)
WhileBody(f, body, start) == PatchToHere(LeaveBlock(JumpBack(Jump(Block(EnterBlock(f, TRUE), body)), start)), f.e.f)
WhileStat(f, c, body) == WhileBody(Cond(GetLabel(f), c), body, Pc(f))

CloseExit(f) == IF Top(f).upval THEN PatchClose(f, f.e.f, Top(f).nactvar) ELSE f
Until(f, start) == LeaveBlock(PatchList(LeaveBlock(CloseExit(f)), f.e.f, start))
RepeatStat(f, body, c) == Until(Cond(Stats(EnterBlock(EnterBlock(GetLabel(f), TRUE), FALSE), body, "until"), c), Pc(f))

\* forbody: prep is the jump in front of the loop.
LoopInstr(f, base, names, isnum) ==
  IF isnum THEN Code(f, "FORLOOP", base, NoJump, 0)
  ELSE AddInstr(Code(f, "TFORCALL", base, 0, Len(names)), Instr("TFORLOOP", base + 2, NoJump, 0))
LoopBlock(f, names, body) ==
  LeaveBlock(Block(ReserveRegs(AdjustLocals(EnterBlock(f, FALSE), Len(names)), Len(names)), body))
Loop(f, base, names, isnum, body, prep) ==
  JumpBack(LoopInstr(PatchToHere(LoopBlock(f, names, body), prep), base, names, isnum), prep + 1)
Prepared(f, base, names, isnum, body) == Loop(f, base, names, isnum, body, LastPc(f))
Prep(f, base, isnum) == IF isnum THEN Code(f, "FORPREP", base, NoJump, 0) ELSE Jump(f)
ForBody(f, base, names, isnum, body) == Prepared(Prep(AdjustLocals(f, 3), base, isnum), base, names, isnum, body)

RECURSIVE ExpsToRegs(_, _)
ExpsToRegs(f, exps) == IF exps = <<>> THEN f ELSE ExpsToRegs(Exp2NextReg(Expr(f, Head(exps))), Tail(exps))
StepOne(f) == ReserveRegs(CodeK(f, f.free, KIndex(f, Number(1))), 1)
ForExps(f, exps) == IF Len(exps) = 2 THEN StepOne(AddK(ExpsToRegs(f, exps), Number(1))) ELSE ExpsToRegs(f, exps)
Hidden(f, names) == NewLocals(EnterBlock(f, TRUE), names)
ForNum(f, name, exps, body) ==
  LeaveBlock(ForBody(ForExps(Hidden(f, <<"(index)", "(limit)", "(step)", name>>), exps), f.free, <<name>>, TRUE, body))
Generator(f, exps) == CheckStack(AdjustAssign(Explist(f, exps), 3, Len(exps)), 3)
ForList(f, names, exps, body) ==
  LeaveBlock(ForBody(Generator(Hidden(f, <<"(generator)", "(state)", "(control)">> \o names), exps), f.free, names, FALSE, body))

(* test_then_block and the list of jumps to the end of the if; an else     *)
(* part is a clause without a condition.  jf is the jump that skips the    *)
(* block, which is only a goto if alone.                                   *)
Escaped(f, jf, clauses, escape) ==
  TestThenBlocks(PatchToHere(Concat(f, escape, LastPc(f)), jf), clauses, Joined(escape, LastPc(f)))
EndThen(f, jf, alone, clauses, escape) ==
  IF alone THEN TestThenBlocks(f, clauses, escape)
  ELSE IF clauses = <<>> THEN PatchToHere(PatchToHere(f, jf), escape)
  ELSE Escaped(Jump(f), jf, clauses, escape)
Then(f, jf, alone, clauses, escape) == EndThen(LeaveBlock(Statlist(f)), jf, alone, clauses, escape)

GoneTo(f, alone, clauses, escape) == Then(f, LastPc(f), alone, clauses, escape)
AfterGoto(f, clauses, escape) == GoneTo(IF BlockFollow(f) THEN f ELSE Jump(f), BlockFollow(f), clauses, escape)

BlockOf(f, stats) == [EnterBlock(f, FALSE) EXCEPT !.stats = stats, !.follow = "end"]
JumpOf(x) == IF x[1] = "break" THEN "break" ELSE x[2]
IfGoto(f, stats) == SkipNoop(GotoStat(BlockOf(f, Tail(stats)), JumpOf(stats[1]), f.e.t))
IfBlock(f, stats, clauses, escape) == Then(BlockOf(f, stats), f.e.f, FALSE, clauses, escape)
IfThen(f, stats, clauses, escape) ==
  IF stats # <<>> /\ stats[1][1] \in {"goto", "break"} THEN AfterGoto(IfGoto(GoIfFalse(f), stats), clauses, escape)
  ELSE IfBlock(GoIfTrue(f), stats, clauses, escape)
TestThenBlocks(f, clauses, escape) ==
  IF clauses = <<>> THEN PatchToHere(f, escape)
  ELSE IF clauses[1][1] = <<>> THEN PatchToHere(Block(f, clauses[1][2]), escape)
  ELSE IfThen(Expr(f, clauses[1][1]), clauses[1][2], Tail(clauses), escape)

LocalStat(f, names, exps) ==
  AdjustLocals(AdjustAssign(IF exps = <<>> THEN With(NewLocals(f, names), Exp("VOID", 0)) ELSE Explist(NewLocals(f, names), exps),
                            Len(names), Len(exps)), Len(names))

AsTailCall(f, pc) == [Check(f, At(f, pc).a = f.nactvar) EXCEPT !.code[pc + 1].o = "TAILCALL"]
RetOpen(f, n) ==
  Ret(IF f.e.k = "CALL" /\ n = 1 THEN AsTailCall(SetReturns(f, MultRet), f.e.info) ELSE SetReturns(f, MultRet), f.nactvar, MultRet)
RetRegs(f, n) == Ret(Check(f, n = f.free - f.nactvar), f.nactvar, n)
RetOne(f) == Ret(f, f.e.info, 1)
RetValues(f, n) ==
  IF Is(f, {"CALL", "VARARG"}) THEN RetOpen(f, n)
  ELSE IF n = 1 THEN RetOne(Exp2AnyReg(f)) ELSE RetRegs(Exp2NextReg(f), n)
RetStat(f, exps) == IF exps = <<>> THEN Ret(f, 0, 0) ELSE RetValues(Explist(f, exps), Len(exps))

FuncStat(f, x) == StoreVar(Body(f, x[3], FALSE, x[4]), f.e)
NoResults(f) == [f EXCEPT !.code[f.e.info + 1].c = 1]
JumpStat(f, x) == GotoStat(f, JumpOf(x), LastPc(f))

StatementOf(f, x) ==
  CASE x[1] = "if" -> [TestThenBlocks(f, x[2], NoJump) EXCEPT !.stats = f.stats, !.follow = f.follow]
    [] x[1] = "while" -> WhileStat(f, x[2], x[3])
    [] x[1] = "do" -> Block(f, x[2])
    [] x[1] = "for" -> ForNum(f, x[2], x[3], x[4])
    [] x[1] = "forin" -> ForList(f, x[2], x[3], x[4])
    [] x[1] = "repeat" -> RepeatStat(f, x[2], x[3])
    [] x[1] = "functionstat" -> FuncStat(SuffixedExp(f, x[2]), x)
    [] x[1] = "localfunction" -> Body(AdjustLocals(NewLocals(f, <<x[2]>>), 1), x[3], FALSE, x[4])
    [] x[1] = "local" -> LocalStat(f, x[2], x[3])
    [] x[1] = "label" -> LabelStat(f, x[2])
    [] x[1] = "return" -> RetStat(f, x[2])
    [] x[1] \in {"break", "goto"} -> JumpStat(Jump(f), x)
    [] x[1] = "assign" -> Assignment(f, x[2], x[3])
    [] x[1] = "callstat" -> NoResults(SuffixedExp(f, x[2]))
EndStat(f) == FreeToLocals(Check(f, f.max >= f.free /\ f.free >= f.nactvar))
Statement(f) == EndStat(StatementOf([f EXCEPT !.stats = Tail(@)], Head(f.stats)))

Statlist(f) == IF f.stats = <<>> \/ f.err # "" THEN f ELSE Statlist(Statement(f))

\* What the parser calls itself for: an expression, or the statements of a
\* block; the tokens of the caller are there again afterwards.
Parse(what, f, x) ==
  IF what = "expr" THEN [Subexpr([f EXCEPT !.rest = x], 0) EXCEPT !.rest = f.rest]
  ELSE [Statlist([f EXCEPT !.stats = x, !.follow = what]) EXCEPT !.stats = f.stats, !.follow = f.follow]

\* mainfunc.
Compile(program) ==
  LET f == EnterBlock([NewFunc EXCEPT !.dots = TRUE, !.ups = <<[name |-> "_ENV", instack |-> TRUE, idx |-> 0]>>], FALSE)
  IN  CloseFunc(Stats(f, program, "end"))
=============================================================================
