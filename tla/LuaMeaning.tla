----------------------------- MODULE LuaMeaning -----------------------------
(***************************************************************************)
(* What programs of the language mean, in the syntax of LuaParser: a       *)
(* store s of variables, tables, functions and output; env maps names to   *)
(* variables.  A result r is the store, how evaluation went on (r.ctl) and *)
(* values or a label (r.v).  This is the definition LuaVm is compared      *)
(* with: no registers, jumps or instructions.                              *)
(***************************************************************************)
EXTENDS Integers, Sequences, FiniteSets, TLC

LOCAL NilV == <<"nil">>
LOCAL Truth(v) == v # NilV /\ v # <<"bool", FALSE>>
LOCAL First(vs) == IF vs = <<>> THEN NilV ELSE vs[1]
LOCAL Res(s, v) == [s |-> s, ctl |-> "go", v |-> v]
LOCAL Err(s) == [s |-> s, ctl |-> "error", v |-> <<>>]
LOCAL Pad(vs, n) == [i \in 1..n |-> IF i <= Len(vs) THEN vs[i] ELSE NilV]
LOCAL Text(v) == IF v[1] = "int" THEN ToString(v[2]) ELSE v[2]

LevelOf == [op \in {"+", "-", "*", "//", "..", "<", ">", "<=", ">=", "==", "~=", "and", "or"} |->
  CASE op = "or" -> 1 [] op = "and" -> 2 [] op = ".." -> 4 [] op \in {"+", "-"} -> 5 [] op \in {"*", "//"} -> 6 [] OTHER -> 3]

\* The operator that is applied last.
Split(toks) ==
  LET bin == {i \in 2..Len(toks) : toks[i][1] = "op" /\ toks[i - 1][1] # "op"}
      low == {i \in bin : \A j \in bin : LevelOf[toks[i][2]] <= LevelOf[toks[j][2]]}
  IN  IF bin = {} THEN 0
      ELSE IF \E i \in low : toks[i][2] = ".." THEN CHOOSE i \in low : \A j \in low : i <= j
      ELSE CHOOSE i \in low : \A j \in low : i >= j

LOCAL Apply2(s, op, a, b) ==
  LET ints == a[1] = "int" /\ b[1] = "int" IN
  CASE op = "==" -> Res(s, <<<<"bool", a = b>>>>) [] op = "~=" -> Res(s, <<<<"bool", a # b>>>>)
    [] op = ".." -> IF {a[1], b[1]} \subseteq {"int", "str"} THEN Res(s, <<<<"str", Text(a) \o Text(b)>>>>) ELSE Err(s)
    [] op \in {"+", "-", "*", "//"} /\ ints /\ (op # "//" \/ b[2] # 0) ->
         Res(s, <<<<"int", CASE op = "+" -> a[2] + b[2] [] op = "-" -> a[2] - b[2] [] op = "*" -> a[2] * b[2] [] OTHER -> a[2] \div b[2]>>>>)
    [] op \in {"<", "<=", ">", ">="} /\ ints ->
         Res(s, <<<<"bool", CASE op = "<" -> a[2] < b[2] [] op = "<=" -> a[2] <= b[2] [] op = ">" -> a[2] > b[2] [] OTHER -> a[2] >= b[2]>>>>)
    [] OTHER -> Err(s)
LOCAL Apply1(s, op, a) ==
  CASE op = "not" -> Res(s, <<<<"bool", ~Truth(a)>>>>)
    [] op = "-" /\ a[1] = "int" -> Res(s, <<<<"int", -a[2]>>>>)
    [] op = "#" /\ a[1] = "str" -> Res(s, <<<<"int", Len(a[2])>>>>)
    [] op = "#" /\ a[1] = "tab" -> Res(s, <<<<"int", Cardinality({k \in DOMAIN s.tables[a[2]] : k[1] = "int"})>>>>)
    [] OTHER -> Err(s)

LOCAL GetField(s, t, k) ==
  IF t[1] # "tab" THEN Err(s) ELSE Res(s, <<IF k \in DOMAIN s.tables[t[2]] THEN s.tables[t[2]][k] ELSE NilV>>)
LOCAL SetField(s, t, k, v) ==
  IF t[1] # "tab" \/ k = NilV THEN Err(s)
  ELSE LET old == s.tables[t[2]]
           keys == (DOMAIN old \cup {k}) \ (IF v = NilV THEN {k} ELSE {})
       IN  Res([s EXCEPT !.tables[t[2]] = [x \in keys |-> IF x = k THEN v ELSE old[x]]], <<>>)

\* New variables with values vs, innermost last.
LOCAL Bind(s, env, names, vs) ==
  [s |-> [s EXCEPT !.cells = @ \o Pad(vs, Len(names))],
   env |-> env \o [i \in DOMAIN names |-> <<names[i], Len(s.cells) + i>>]]
LOCAL CellOf(env, n) ==
  LET S == {i \in DOMAIN env : env[i][1] = n} IN IF S = {} THEN 0 ELSE env[CHOOSE i \in S : \A j \in S : j <= i][2]

RECURSIVE Run(_, _, _, _)
RECURSIVE EvalAll(_, _, _, _)
RECURSIVE Operand(_, _, _)
RECURSIVE CallFun(_, _, _)
RECURSIVE Items(_, _, _, _, _)
RECURSIVE ExecFrom(_, _, _, _)
RECURSIVE Loop(_, _, _, _)
RECURSIVE Steps(_, _, _, _, _, _)
RECURSIVE Iterate(_, _, _, _, _)
RECURSIVE Clauses(_, _, _)
RECURSIVE Stores(_, _, _)
RECURSIVE Places(_, _, _, _)

Eval(toks, env, s) == Run("eval", toks, env, s)
Exec(stats, env, s) == Run("exec", stats, env, s)

\* A list of expressions: one value each, all values of the last.
EvalAll(exps, env, s, vs) ==
  IF exps = <<>> THEN Res(s, vs)
  ELSE LET r == Eval(Head(exps), env, s)
       IN  IF r.ctl = "error" THEN r
           ELSE EvalAll(Tail(exps), env, r.s, vs \o (IF Len(exps) = 1 THEN r.v ELSE <<First(r.v)>>))

LOCAL EvalToks(toks, env, s) ==
  LET i == Split(toks)
      op == toks[i][2]
      a == Eval(SubSeq(toks, 1, i - 1), env, s)
      b == Eval(SubSeq(toks, i + 1, Len(toks)), env, a.s)
      u == Eval(Tail(toks), env, s)
  IN  IF i # 0
      THEN IF a.ctl = "error" THEN a
           ELSE IF (op = "and" /\ ~Truth(First(a.v))) \/ (op = "or" /\ Truth(First(a.v))) THEN Res(a.s, <<First(a.v)>>)
           ELSE IF b.ctl = "error" THEN b
           ELSE IF op \in {"and", "or"} THEN Res(b.s, <<First(b.v)>>)
           ELSE Apply2(b.s, op, First(a.v), First(b.v))
      ELSE IF toks[1][1] = "op" THEN IF u.ctl = "error" THEN u ELSE Apply1(u.s, toks[1][2], First(u.v))
      ELSE Operand(toks[1], env, s)

Items(fields, env, s, t, n) ==
  LET x == Head(fields)
      e == Eval(x[2], env, s)
      w == Eval(x[3], env, e.s)
      put == [i \in 1..(IF Len(fields) = 1 THEN Len(e.v) ELSE 1) |-> IF Len(fields) = 1 THEN e.v[i] ELSE First(e.v)]
      old == e.s.tables[t]
      keys == {<<"int", n + i>> : i \in {j \in DOMAIN put : put[j] # NilV}}
      r == IF x[1] = "rec" THEN SetField(w.s, <<"tab", t>>, First(e.v), First(w.v))
           ELSE Res([e.s EXCEPT !.tables[t] = [k \in DOMAIN old \cup keys |-> IF k \in keys THEN put[k[2] - n] ELSE old[k]]], <<>>)
  IN  IF fields = <<>> THEN Res(s, <<<<"tab", t>>>>)
      ELSE IF e.ctl = "error" \/ (x[1] = "rec" /\ w.ctl = "error") \/ r.ctl = "error" THEN Err(s)
      ELSE Items(Tail(fields), env, r.s, t, IF x[1] = "rec" THEN n ELSE n + 1)

Closure(s, params, dots, body, env) ==
  Res([s EXCEPT !.funs = Append(@, [params |-> params, dots |-> dots, body |-> body, env |-> env])], <<<<"fun", Len(s.funs) + 1>>>>)

Operand(x, env, s) ==
  CASE x[1] \in {"int", "str", "nil", "bool"} -> Res(s, <<x>>)
    [] x[1] = "name" -> IF CellOf(env, x[2]) = 0 THEN GetField(s, <<"tab", 1>>, <<"str", x[2]>>) ELSE Res(s, <<s.cells[CellOf(env, x[2])]>>)
    [] x[1] = "dots" -> Res(s, s.dots)
    [] x[1] = "paren" -> LET r == Eval(x[2], env, s) IN IF r.ctl = "error" THEN r ELSE Res(r.s, <<First(r.v)>>)
    [] x[1] = "function" -> Closure(s, x[2], x[3], x[4], env)
    [] x[1] = "table" -> Items(x[2], env, [s EXCEPT !.tables = Append(@, <<>>)], Len(s.tables) + 1, 0)
    [] x[1] = "index" ->
         LET t == Operand(x[2], env, s) k == Eval(x[3], env, t.s)
         IN  IF t.ctl = "error" \/ k.ctl = "error" THEN Err(s) ELSE GetField(k.s, First(t.v), First(k.v))
    [] x[1] = "call" ->
         LET f == Operand(x[2], env, s) a == EvalAll(x[3], env, f.s, <<>>)
         IN  IF f.ctl = "error" \/ a.ctl = "error" THEN Err(s) ELSE CallFun(a.s, First(f.v), a.v)
    [] x[1] = "method" ->
         LET o == Operand(x[2], env, s) f == GetField(o.s, First(o.v), <<"str", x[3]>>) a == EvalAll(x[4], env, f.s, <<First(o.v)>>)
         IN  IF o.ctl = "error" \/ f.ctl = "error" \/ a.ctl = "error" THEN Err(s) ELSE CallFun(a.s, First(f.v), a.v)

CallFun(s, f, args) ==
  IF f = <<"cfun">> THEN Res([s EXCEPT !.out = @ \o args], args)
  ELSE IF f[1] # "fun" THEN Err(s)
  ELSE LET fn == s.funs[f[2]]
           n == Len(fn.params)
           b == Bind(s, fn.env, fn.params, args)
           r == Exec(fn.body, b.env, [b.s EXCEPT !.dots = IF fn.dots THEN SubSeq(args, n + 1, Len(args)) ELSE <<>>])
       IN  [s |-> [r.s EXCEPT !.dots = s.dots], ctl |-> IF r.ctl = "error" THEN "error" ELSE "go",
            v |-> IF r.ctl = "return" THEN r.v ELSE <<>>]
-----------------------------------------------------------------------------
(* A block is executed in its own scope; a goto goes on behind the label   *)
(* of a block it is in; r.env is the scope at the end.                     *)

LOCAL Ctl(r, env) == [s |-> r.s, ctl |-> r.ctl, v |-> r.v, env |-> env]

LabelIn(stats, name) == {i \in DOMAIN stats : stats[i] = <<"label", name>>}

LOCAL Assign(s, p, v) ==
  IF p[1] = "cell" THEN Res([s EXCEPT !.cells[p[2]] = v], <<>>) ELSE SetField(s, p[2], p[3], v)
LOCAL FieldPlace(t, k, targets, env, ps) ==
  IF t.ctl = "error" \/ k.ctl = "error" THEN Err(k.s) ELSE Places(targets, env, k.s, Append(ps, <<"field", First(t.v), First(k.v)>>))
LOCAL KeyOf(t, x, targets, env, ps) == FieldPlace(t, Eval(x[3], env, t.s), targets, env, ps)
Places(targets, env, s, ps) ==
  IF targets = <<>> THEN Res(s, ps)
  ELSE LET x == Head(targets)
       IN  IF x[1] = "name"
           THEN Places(Tail(targets), env, s, Append(ps, IF CellOf(env, x[2]) # 0 THEN <<"cell", CellOf(env, x[2])>>
                                                         ELSE <<"field", <<"tab", 1>>, <<"str", x[2]>>>>))
           ELSE KeyOf(Operand(x[2], env, s), x, Tail(targets), env, ps)
Stores(s, ps, vs) ==
  IF ps = <<>> THEN Res(s, <<>>)
  ELSE LET n == Len(ps) r == Assign(s, ps[n], vs[n])
       IN  IF r.ctl = "error" THEN r ELSE Stores(r.s, SubSeq(ps, 1, n - 1), vs)

Clauses(cs, env, s) ==
  IF cs = <<>> THEN Res(s, <<>>)
  ELSE IF cs[1][1] = <<>> THEN Exec(cs[1][2], env, s)
  ELSE LET c == Eval(cs[1][1], env, s)
       IN  IF c.ctl = "error" THEN c ELSE IF Truth(First(c.v)) THEN Exec(cs[1][2], env, c.s) ELSE Clauses(Tail(cs), env, c.s)

\* while, and repeat when until is TRUE.
Loop(c, body, env, s) ==
  LET w == Eval(c, env, s) b == Exec(body, env, w.s)
  IN  IF w.ctl = "error" \/ ~Truth(First(w.v)) THEN w
      ELSE IF b.ctl = "break" THEN Res(b.s, <<>>) ELSE IF b.ctl # "go" THEN b ELSE Loop(c, body, env, b.s)
RECURSIVE Repeat(_, _, _, _)
Repeat(body, c, env, s) ==
  LET b == Exec(body, env, s) w == Eval(c, b.env, b.s)
  IN  IF b.ctl = "break" THEN Res(b.s, <<>>) ELSE IF b.ctl # "go" THEN b
      ELSE IF w.ctl = "error" \/ Truth(First(w.v)) THEN w ELSE Repeat(body, c, env, w.s)

Steps(name, i, limit, step, body, es) ==
  LET v == Bind(es.s, es.env, <<name>>, <<<<"int", i>>>>) b == Exec(body, v.env, v.s)
  IN  IF (IF step > 0 THEN i > limit ELSE i < limit) THEN Res(es.s, <<>>)
      ELSE IF b.ctl = "break" THEN Res(b.s, <<>>) ELSE IF b.ctl # "go" THEN b
      ELSE Steps(name, i + step, limit, step, body, [es EXCEPT !.s = b.s])
LOCAL AfterBody(b, names, gen, control, body, es) ==
  IF b.ctl = "break" THEN Res(b.s, <<>>) ELSE IF b.ctl # "go" THEN b
  ELSE Iterate(names, gen, control, body, [es EXCEPT !.s = b.s])
LOCAL InLoop(v, names, gen, control, body, es) == AfterBody(Exec(body, v.env, v.s), names, gen, control, body, es)
LOCAL WithItem(c, names, gen, body, es) ==
  IF c.ctl = "error" THEN c ELSE IF First(c.v) = NilV THEN Res(c.s, <<>>)
  ELSE InLoop(Bind(c.s, es.env, names, c.v), names, gen, First(c.v), body, es)
Iterate(names, gen, control, body, es) == WithItem(CallFun(es.s, gen[1], <<gen[2], control>>), names, gen, body, es)

LOCAL Scoped(b) == Ctl(Res(b.s, <<>>), b.env)
LOCAL Declare(r, names, env) == IF r.ctl = "error" THEN Ctl(r, env) ELSE Scoped(Bind(r.s, env, names, r.v))
LOCAL Recursive(f, b) == Ctl(Res([f.s EXCEPT !.cells[Len(b.s.cells)] = f.v[1]], <<>>), b.env)
LOCAL StoreAt(p, r) == IF p.ctl = "error" THEN p ELSE IF r.ctl = "error" THEN r ELSE Stores(r.s, p.v, Pad(r.v, Len(p.v)))
LOCAL StoreFun(p, x, env) == StoreAt(p, Closure(p.s, x[3], FALSE, x[4], env))
LOCAL StoreExps(p, exps, env) == StoreAt(p, EvalAll(exps, env, p.s, <<>>))
LOCAL Returned(r) == IF r.ctl = "error" THEN r ELSE [r EXCEPT !.ctl = "return"]
LOCAL NumberAt(vs, i) == IF i <= Len(vs) THEN vs[i] ELSE <<"int", 1>>
LOCAL CountUp(r, x, env) ==
  IF r.ctl = "error" \/ \E i \in 1..3 : NumberAt(r.v, i)[1] # "int" THEN Err(r.s)
  ELSE Steps(x[2], NumberAt(r.v, 1)[2], NumberAt(r.v, 2)[2], NumberAt(r.v, 3)[2], x[4], [s |-> r.s, env |-> env])
LOCAL Generate(r, x, env) ==
  IF r.ctl = "error" THEN r ELSE Iterate(x[2], Pad(r.v, 3), Pad(r.v, 3)[3], x[4], [s |-> r.s, env |-> env])
LOCAL LocalFun(b, x) == Recursive(Closure(b.s, x[3], FALSE, x[4], b.env), b)
LOCAL Leaves(s, ctl, v) == [s |-> s, ctl |-> ctl, v |-> v]

\* Statements that declare nothing.
LOCAL Plainly(x, env, s) ==
  CASE x[1] = "functionstat" -> StoreFun(Places(<<x[2]>>, env, s, <<>>), x, env)
    [] x[1] = "assign" -> StoreExps(Places(x[2], env, s, <<>>), x[3], env)
    [] x[1] = "callstat" -> [Operand(x[2], env, s) EXCEPT !.v = <<>>]
    [] x[1] = "return" -> Returned(EvalAll(x[2], env, s, <<>>))
    [] x[1] = "break" -> Leaves(s, "break", <<>>)
    [] x[1] = "goto" -> Leaves(s, "goto", <<x[2]>>)
    [] x[1] = "label" -> Res(s, <<>>)
    [] x[1] = "do" -> Exec(x[2], env, s)
    [] x[1] = "if" -> Clauses(x[2], env, s)
    [] x[1] = "while" -> Loop(x[2], x[3], env, s)
    [] x[1] = "repeat" -> Repeat(x[2], x[3], env, s)
    [] x[1] = "for" -> CountUp(EvalAll([i \in DOMAIN x[3] |-> <<<<"paren", x[3][i]>>>>], env, s, <<>>), x, env)
    [] x[1] = "forin" -> Generate(EvalAll(x[3], env, s, <<>>), x, env)
LOCAL ExecStat(x, env, s) ==
  CASE x[1] = "local" -> Declare(EvalAll(x[3], env, s, <<>>), x[2], env)
    [] x[1] = "localfunction" -> LocalFun(Bind(s, env, <<x[2]>>, <<>>), x)
    [] OTHER -> Ctl(Plainly(x, env, s), env)

\* envs[i] is the scope in front of statement i, for gotos backwards.
LOCAL GoOn(stats, at, i, envs, s) == ExecFrom(stats, at, [j \in 1..at |-> IF j <= i THEN envs[j] ELSE envs[i]], s)
LOCAL AfterStat(r, stats, i, envs) ==
  IF r.ctl = "goto" /\ LabelIn(stats, r.v[1]) # {} THEN GoOn(stats, CHOOSE j \in LabelIn(stats, r.v[1]) : TRUE, i, envs, r.s)
  ELSE IF r.ctl # "go" THEN r
  ELSE ExecFrom(stats, i + 1, Append(envs, r.env), r.s)
ExecFrom(stats, i, envs, s) ==
  IF i > Len(stats) THEN Ctl(Res(s, <<>>), envs[Len(envs)]) ELSE AfterStat(ExecStat(stats[i], envs[i], s), stats, i, envs)
Run(what, x, env, s) == IF what = "eval" THEN EvalToks(x, env, s) ELSE ExecFrom(x, 1, <<env>>, s)

\* The labels a block asks for and does not have; "wild" when a goto would
\* skip the declaration of a variable still in scope at the label.
RECURSIVE Wanted(_)
LOCAL WantedBy(x) ==
  CASE x[1] = "goto" -> {x[2]} [] x[1] = "break" -> {"break"} [] x[1] = "do" -> Wanted(x[2])
    [] x[1] = "while" -> Wanted(x[3]) \ {"break"} [] x[1] = "if" -> UNION {Wanted(x[2][i][2]) : i \in DOMAIN x[2]}
    [] OTHER -> {}
Wanted(stats) ==
  LET skips(i, j) == /\ \E k \in (i + 1)..(j - 1) : stats[k][1] = "local"
                     /\ \E k \in j..Len(stats) : stats[k][1] # "label"
      of(i, n) == IF LabelIn(stats, n) = {} THEN {n} ELSE IF \E j \in LabelIn(stats, n) : skips(i, j) THEN {"wild"} ELSE {}
      repeated == \E i, j \in DOMAIN stats : i < j /\ stats[i][1] = "label" /\ stats[i] = stats[j]
  IN  UNION {UNION {of(i, n) : n \in WantedBy(stats[i])} : i \in DOMAIN stats} \cup (IF repeated THEN {"wild"} ELSE {})

(***************************************************************************)
(* A goto to a label where test_then_block does not expect one: the block  *)
(* of an if begins with a goto or break and these labels come next.  The   *)
(* jump over the then part is emitted behind the labels; if nothing        *)
(* follows them in the block, none is, and what comes is the next part of  *)
(* the if.                                                                 *)
(***************************************************************************)
LOCAL Leading(block) == {block[i][2] : i \in {j \in 2..Len(block) : \A k \in 2..j : block[k][1] = "label"}}
LOCAL Misplaced(block, last) ==
  /\ block # <<>> /\ block[1][1] \in {"goto", "break"} /\ (last => \E i \in 2..Len(block) : block[i][1] # "label")
  /\ Leading(block) \cap UNION {WantedBy(block[i]) : i \in DOMAIN block} # {}
RECURSIVE Misled(_)
Misled(stats) ==
  \E i \in DOMAIN stats : LET x == stats[i] IN
    CASE x[1] = "if" -> \E k \in DOMAIN x[2] : (x[2][k][1] # <<>> /\ Misplaced(x[2][k][2], k = Len(x[2]))) \/ Misled(x[2][k][2])
      [] x[1] \in {"do", "repeat"} -> Misled(x[2]) [] x[1] = "while" -> Misled(x[3])
      [] x[1] \in {"for", "forin"} -> Misled(x[4]) [] OTHER -> FALSE

\* Global variables are fields of table 1; emit is the one there is.
Start(args) == [cells |-> <<>>, tables |-> <<<<"str", "emit">> :> <<"cfun">>>>, funs |-> <<>>, out |-> <<>>, dots |-> args]
LOCAL End(r) ==
  [status |-> IF r.ctl = "error" THEN "error" ELSE "done", results |-> IF r.ctl = "return" THEN r.v ELSE <<>>, out |-> r.s.out]
Outcome(program, args) == End(Exec(program, <<>>, Start(args)))
=============================================================================
