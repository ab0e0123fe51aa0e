---------------------------- MODULE MCLuaPrograms ----------------------------
(* Families of programs for the compiler and the machine. *)
EXTENDS Integers, Sequences

N(x) == <<"name", x>>
I_(n) == <<"int", n>>
T == <<"bool", TRUE>>
F == <<"bool", FALSE>>
NilX == <<"nil">>
S(x) == <<"str", x>>
O(op) == <<"op", op>>
Fn(params, body) == <<"function", params, FALSE, body>>
VFn(params, body) == <<"function", params, TRUE, body>>
C(f, args) == <<"call", f, args>>
P_(e) == <<"paren", e>>
Dot(t, k) == <<"index", t, <<S(k)>>>>
At_(t, e) == <<"index", t, e>>
Tab(fields) == <<"table", fields>>
It(e) == <<"item", e>>
Rec(k, e) == <<"rec", k, e>>
Loc(x, e) == <<"local", <<x>>, <<e>>>>
Set(x, e) == <<"assign", <<N(x)>>, <<e>>>>
Rt(es) == <<"return", es>>
Do(c) == <<"callstat", c>>
If1(c, b) == <<"if", <<<<c, b>>>>>>
If2(c, b, e) == <<"if", <<<<c, b>>, <<<<>>, e>>>>>>
Label_(l) == <<"label", l>>
Goto_(l) == <<"goto", l>>
EmitX(x) == C(N("emit"), <<<<x>>>>)

MCArgs == <<I_(7), NilX>>
Before == <<Loc("x", <<I_(2)>>), <<"local", <<"y">>, <<>>>>, Set("g", <<F>>)>>

(* Arithmetic, comparison and concatenation of three operands. *)
Triples(ops1, ops2, xs) ==
  {<<a, O(p), b, O(q), c>> : a \in xs, b \in xs, c \in xs, p \in ops1, q \in ops2}
ArithPrograms ==
  {Before \o <<Rt(<<e, <<S("end")>>>>)>> :
     e \in Triples({"+", "-", "..", "<"}, {"-", "*", "//", "..", "=="}, {N("x"), I_(3), I_(0), EmitX(I_(5))})}

(* Logical operators as values, as conditions, and negated. *)
Logic == Triples({"and", "or"}, {"and", "or", "<", "=="}, {N("x"), N("y"), I_(1), EmitX(F)})
Negations == {<<O("not"), P_(e)>> : e \in Triples({"and", "or"}, {"and", "or"}, {N("x"), N("y"), T, EmitX(F)})}
        \cup {<<O("not"), a, O(p), O("not"), b>> : a \in {N("x"), N("y"), NilX, I_(1)}, b \in {N("x"), N("g"), F}, p \in {"and", "or", "=="}}
Contexts(e) == {
  Before \o <<Rt(<<e>>)>>,
  Before \o <<Set("x", e), Rt(<<<<N("x")>>, <<N("y")>>>>)>>,
  Before \o <<If2(e, <<Rt(<<<<I_(1)>>>>)>>, <<Do(EmitX(N("x")))>>), Rt(<<<<I_(2)>>>>)>>,
  Before \o <<<<"while", e, <<Set("y", <<T>>), Set("x", <<NilX>>), If1(<<N("y")>>, <<<<"break">>>>)>>>>, Rt(<<<<N("x")>>>>)>>}
LogicPrograms == UNION {Contexts(e) : e \in Logic \cup Negations}

(* Scopes, loops, closures: what a block leaves, and what outlives it. *)
X(n) == <<N(n)>>
Inc(v) == Set(v, <<N(v), O("+"), I_(1)>>)
Lt(v, n) == <<N(v), O("<"), I_(n)>>
StowAs(body) == <<"assign", <<At_(N("t"), X("i"))>>, <<<<Fn(<<>>, body)>>>>>>
Stow == StowAs(<<Rt(<<X("v")>>)>>)
CallK(k) == C(At_(N("t"), <<I_(k)>>), <<>>)
TwoEach == Rt(<<<<CallK(1)>>, <<CallK(1)>>, <<CallK(2)>>>>)
NewT == Loc("t", <<Tab(<<>>)>>)
Loops(body) == {
  <<NewT, <<"for", "i", <<<<I_(1)>>, <<I_(3)>>>>, body>>, TwoEach>>,
  <<NewT, Loc("i", <<I_(1)>>), <<"while", Lt("i", 3), Append(body, Inc("i"))>>, TwoEach>>,
  <<NewT, Loc("i", <<I_(0)>>), <<"repeat", <<Inc("i")>> \o body, <<N("i"), O(">="), I_(3)>>>>, TwoEach>>,
  <<NewT, Loc("i", <<I_(0)>>), Label_("top"), Inc("i"), <<"do", body>>, If1(Lt("i", 2), <<Goto_("top")>>), TwoEach>>,
  <<NewT, <<"forin", <<"i", "w">>, <<<<Fn(<<"s", "c">>, <<If1(Lt("c", 2), <<Rt(<<<<N("c"), O("+"), I_(1)>>, <<N("s")>>>>)>>)>>)>>, <<S("w")>>, <<I_(0)>>>>, body>>, TwoEach>>}
BodyList == {
  <<Loc("v", X("i")), Stow>>,
  <<Loc("v", X("i")), Stow, If1(<<N("i"), O("=="), I_(2)>>, <<<<"break">>>>)>>,
  <<Loc("v", X("i")), Stow, If1(<<N("i"), O("=="), I_(2)>>, <<Do(EmitX(N("i"))), <<"break">>>>)>>,
  <<<<"do", <<Loc("v", X("i")), Stow, If1(<<N("v"), O(">"), I_(1)>>, <<Goto_("on")>>), Do(EmitX(N("v")))>>>>, Label_("on")>>,
  <<Loc("u", <<I_(1)>>), <<"do", <<Loc("v", <<N("i"), O("*"), I_(2)>>), Stow, Inc("v")>>>>, Do(EmitX(N("u")))>>}
Counting == <<"for", "i", <<<<I_(1)>>, <<I_(3)>>>>, <<Loc("v", X("i")), StowAs(<<Inc("v"), Rt(<<X("v")>>)>>)>>>>
LoopPrograms == {<<NewT, Counting, TwoEach>>} \cup UNION {Loops(b) : b \in BodyList}

StatPrograms == {
  \* assignments whose targets use what is assigned
  <<NewT, Loc("i", <<I_(1)>>), <<"assign", <<N("i"), At_(N("t"), X("i"))>>, <<<<I_(2)>>, <<I_(20)>>>>>>, Rt(<<X("i"), <<At_(N("t"), <<I_(1)>>)>>, <<At_(N("t"), <<I_(2)>>)>>>>)>>,
  <<NewT, Loc("i", <<I_(1)>>), <<"assign", <<At_(N("t"), X("i")), N("i")>>, <<<<I_(20)>>, <<I_(2)>>>>>>, Rt(<<X("i"), <<At_(N("t"), <<I_(1)>>)>>, <<At_(N("t"), <<I_(2)>>)>>>>)>>,
  <<NewT, Loc("o", X("t")), <<"assign", <<Dot(N("t"), "a"), N("t")>>, <<<<I_(20)>>, <<I_(2)>>>>>>, Rt(<<X("t"), <<Dot(N("o"), "a")>>>>)>>,
  <<NewT, Loc("o", X("t")), Loc("f", <<Fn(<<>>, <<<<"assign", <<Dot(N("t"), "a"), N("t")>>, <<<<I_(20)>>, <<I_(2)>>>>>>>>)>>), Do(C(N("f"), <<>>)), Rt(<<X("t"), <<Dot(N("o"), "a")>>>>)>>,
  <<Loc("a", <<I_(1)>>), Loc("b", <<I_(2)>>), <<"assign", <<N("a"), N("b")>>, <<X("b"), X("a")>>>>, Rt(<<X("a"), X("b")>>)>>,
  \* more and fewer values than variables
  <<<<"local", <<"a", "b", "c">>, <<<<I_(1)>>, <<C(N("emit"), <<<<I_(2)>>, <<I_(3)>>, <<I_(4)>>>>)>>>>>>, Rt(<<X("a"), X("b"), X("c")>>)>>,
  <<<<"local", <<"a", "b">>, <<<<C(N("emit"), <<<<I_(2)>>, <<I_(3)>>>>)>>, <<I_(5)>>, <<EmitX(I_(6))>>>>>>, Loc("c", X("b")), Rt(<<X("a"), X("b"), X("c")>>)>>,
  <<<<"local", <<"a", "b">>, <<<<P_(<<<<"dots">>>>)>>>>>>, Rt(<<X("a"), X("b")>>)>>,
  <<<<"local", <<"a", "b">>, <<<<<<"dots">>>>>>>>, Loc("c", <<<<"dots">>>>), Rt(<<X("c"), <<<<"dots">>>>>>)>>,
  <<<<"assign", <<N("a"), N("b"), N("c")>>, <<<<EmitX(I_(1))>>>>>>, Rt(<<X("a"), X("c"), <<P_(<<C(N("emit"), <<<<I_(8)>>, <<I_(9)>>>>)>>)>>>>)>>,
  <<<<"local", <<"a">>, <<>>>>, <<"assign", <<N("a"), N("b")>>, <<<<I_(1)>>, <<I_(2)>>, <<I_(3)>>>>>>, Rt(<<X("a"), X("b")>>)>>,
  <<<<"forin", <<"i">>, <<<<Fn(<<"s", "c">>, <<If1(Lt("c", 2), <<Rt(<<<<N("c"), O("+"), N("s")>>>>)>>)>>)>>, <<I_(1)>>, <<I_(0)>>, <<I_(9)>>>>, <<Do(EmitX(N("i")))>>>>, Rt(<<>>)>>,
  <<Loc("x", <<I_(1)>>), If1(<<N("g")>>, <<<<"local", <<"a">>, <<>>>>>>), <<"local", <<"b", "c">>, <<>>>>, Rt(<<X("x"), X("b"), X("c")>>)>>,
  \* constructors
  <<Loc("t", <<Tab(<<It(<<I_(1)>>), Rec(<<S("k")>>, <<I_(2)>>), It(<<I_(3)>>), It(<<I_(4)>>), It(<<<<"dots">>>>)>>)>>), Rt(<<<<O("#"), N("t")>>, <<At_(N("t"), <<I_(4)>>)>>, <<Dot(N("t"), "k")>>>>)>>,
  <<Loc("t", <<Tab(<<It(<<EmitX(I_(1))>>), It(<<N("g"), O("or"), I_(9)>>)>>)>>), Rt(<<<<At_(N("t"), <<I_(2)>>)>>, <<O("-"), O("#"), N("t")>>>>)>>,
  \* methods, functions as fields, recursion, tail calls, varargs
  <<Loc("o", <<Tab(<<Rec(<<S("n")>>, <<I_(3)>>)>>)>>), <<"functionstat", Dot(N("o"), "get"), <<"self", "d">>, <<Rt(<<<<Dot(N("self"), "n"), O("+"), N("d")>>>>)>>>>, Rt(<<<<<<"method", N("o"), "get", <<<<I_(4)>>>>>>>>>>)>>,
  <<<<"localfunction", "f", <<"n", "a">>, <<If1(<<N("n"), O("=="), I_(0)>>, <<Rt(<<X("a")>>)>>), Rt(<<<<C(N("f"), <<<<N("n"), O("-"), I_(1)>>, <<N("a"), O("*"), N("n")>>>>)>>>>)>>>>, Rt(<<<<C(N("f"), <<<<I_(3)>>, <<I_(1)>>>>)>>>>)>>,
  <<<<"localfunction", "f", <<"n">>, <<If1(<<N("n"), O("<"), I_(2)>>, <<Rt(<<<<I_(1)>>>>)>>), Rt(<<<<N("n"), O("*"), C(N("f"), <<<<N("n"), O("-"), I_(1)>>>>)>>>>)>>>>, Rt(<<<<C(N("f"), <<<<I_(3)>>>>)>>>>)>>,
  <<Loc("f", <<VFn(<<"a", "b">>, <<Rt(<<X("b"), <<<<"dots">>>>>>)>>)>>), Rt(<<<<C(N("f"), <<<<I_(1)>>>>)>>, <<C(N("f"), <<<<I_(1)>>, <<I_(2)>>, <<I_(3)>>, <<I_(4)>>>>)>>>>)>>,
  <<Loc("f", <<VFn(<<"a">>, <<Loc("k", <<Fn(<<>>, <<Inc("a"), Rt(<<X("a")>>)>>)>>), Do(C(N("k"), <<>>)), Rt(<<<<C(N("emit"), <<X("a"), <<<<"dots">>>>>>)>>>>)>>)>>), Rt(<<<<C(N("f"), <<<<I_(1)>>, <<I_(2)>>>>)>>>>)>>,
  <<Loc("mk", <<Fn(<<"n">>, <<Rt(<<<<Fn(<<>>, <<Inc("n"), Rt(<<X("n")>>)>>)>>>>)>>)>>), Loc("p", <<C(N("mk"), <<<<I_(1)>>>>)>>), Loc("q", <<C(N("mk"), <<<<I_(10)>>>>)>>), Do(C(N("p"), <<>>)), Rt(<<<<C(N("p"), <<>>)>>, <<C(N("q"), <<>>)>>>>)>>,
  <<Loc("n", <<I_(0)>>), Loc("mk", <<Fn(<<>>, <<Rt(<<<<Fn(<<>>, <<Inc("n"), Rt(<<X("n")>>)>>)>>>>)>>)>>), Loc("p", <<C(N("mk"), <<>>)>>), Do(C(N("p"), <<>>)), Rt(<<<<C(C(N("mk"), <<>>), <<>>)>>, X("n")>>)>>,
  \* upvalues of functions on the way, tail call that leaves captured variables
  <<Loc("a", <<I_(1)>>), Loc("f", <<Fn(<<>>, <<Loc("b", <<I_(2)>>), Rt(<<<<Fn(<<>>, <<Inc("a"), Inc("b"), Rt(<<<<N("a"), O("*"), N("b")>>>>)>>)>>>>)>>)>>), Loc("h", <<C(N("f"), <<>>)>>), Do(C(N("h"), <<>>)), Rt(<<<<C(N("h"), <<>>)>>, X("a")>>)>>,
  <<Loc("call", <<Fn(<<"k">>, <<Loc("z", <<I_(50)>>), Loc("w", <<I_(60)>>), Rt(<<<<C(N("k"), <<>>)>>, X("z")>>)>>)>>), Loc("f", <<Fn(<<"v">>, <<Rt(<<<<C(N("call"), <<<<Fn(<<>>, <<Inc("v"), Rt(<<X("v")>>)>>)>>>>)>>>>)>>)>>), Rt(<<<<C(N("f"), <<<<I_(4)>>>>)>>>>)>>,
  \* gotos out of blocks, continue, nested breaks
  <<<<"for", "i", <<<<I_(3)>>, <<I_(1)>>, <<O("-"), I_(1)>>>>, <<If1(<<N("i"), O("=="), I_(2)>>, <<Goto_("continue")>>), Do(EmitX(N("i"))), Label_("continue")>>>>, Rt(<<>>)>>,
  <<<<"do", <<Loc("a", <<I_(1)>>), <<"do", <<Goto_("out")>>>>, Do(EmitX(N("a")))>>>>, Label_("out"), Rt(<<<<I_(6)>>>>)>>,
  <<<<"for", "i", <<<<I_(1)>>, <<I_(2)>>>>, <<<<"while", <<T>>, <<If2(<<N("i"), O("<"), I_(2)>>, <<<<"break">>>>, <<Goto_("done")>>)>>>>, Do(EmitX(N("i")))>>>>, Label_("done"), Rt(<<>>)>>,
  <<Loc("i", <<I_(0)>>), <<"repeat", <<Inc("i"), Loc("d", <<N("i"), O("=="), I_(2)>>)>>, X("d")>>, Rt(<<X("i")>>)>>,
  <<Loc("x", <<I_(2)>>), <<"if", <<<<<<N("x"), O("=="), I_(1)>>, <<Set("x", <<I_(10)>>)>>>>, <<<<N("x"), O("=="), I_(2)>>, <<Set("x", <<I_(20)>>)>>>>, <<<<>>, <<Set("x", <<I_(30)>>)>>>>>>>>, Rt(<<X("x")>>)>>,
  \* errors at run time and at compile time
  <<Do(EmitX(I_(1))), Do(C(N("nothing"), <<>>)), Rt(<<>>)>>, <<Rt(<<<<NilX, O("+"), I_(1)>>>>)>>, <<Rt(<<<<Dot(N("nothing"), "x")>>>>)>>,
  <<<<"for", "i", <<<<S("a")>>, <<I_(1)>>>>, <<>>>>, Rt(<<>>)>>, <<Loc("x", <<I_(1)>>), <<"assign", <<Dot(N("x"), "y")>>, <<<<I_(1)>>>>>>>>, <<Rt(<<<<O("#"), I_(1)>>>>)>>, <<Rt(<<<<O("-"), T>>>>)>>,
  <<Rt(<<<<<<"method", P_(<<I_(1)>>), "m", <<>>>>>>>>)>>, <<Rt(<<<<I_(1), O("<"), T>>>>)>>, <<Rt(<<<<T, O(".."), I_(1)>>>>)>>
}
(* Every order of four statements that jump, are jumped to, or declare. *)
JumpStats == {Goto_("a"), Label_("a"), Loc("x", <<I_(1)>>), Set("x", <<I_(5)>>), <<"break">>,
              <<"do", <<Loc("z", <<I_(3)>>), Set("y", <<N("z")>>), Goto_("a")>>>>, <<"do", <<Label_("a"), Set("y", X("x"))>>>>,
              <<"while", <<T>>, <<Set("y", <<I_(4)>>), <<"break">>>>>>}
\* A label with a goto to itself behind it would jump nowhere for ever.
Endless(body) == \E k \in 1..Len(body) - 1 : body[k] = Label_("a") /\ body[k + 1] = Goto_("a")
GotoPrograms == {Before \o <<a, b, c, d>> \o e : a \in JumpStats, b \in JumpStats, c \in JumpStats, d \in JumpStats,
                 e \in {<<>>, <<Rt(<<X("x"), X("y")>>)>>}}
ShortPrograms == {<<a>> : a \in JumpStats} \cup {<<a, b>> : a \in JumpStats, b \in JumpStats}
            \cup {<<a, b, c>> : a \in JumpStats, b \in JumpStats, c \in JumpStats}
(* Conditions whose then part begins with a goto or a break, alone, before   *)
(* labels, or before what only other jumps get to; the if is the body of a   *)
(* loop, a label b and an else part may follow it.                           *)
Again(l) == <<Inc("x"), If1(Lt("x", 5), <<Goto_(l)>>)>>
IfBodies == {<<j>> \o l \o r : j \in {Goto_("a"), Goto_("b"), <<"break">>},
             l \in {<<>>, <<Label_("a")>>, <<Label_("b")>>, <<Label_("a"), Label_("b")>>},
             r \in {<<>>, <<Do(EmitX(N("x")))>>, <<Set("x", <<I_(5)>>), Label_("a"), Do(EmitX(N("x")))>>, Again("a"), Again("b")}}
Ifs(b) == UNION {{If1(c, b), If2(c, b, <<Do(EmitX(I_(9)))>>), <<"if", <<<<<<N("y")>>, <<>>>>, <<c, b>>>>>>} : c \in {<<N("x")>>, <<N("y")>>, <<N("x"), O("=="), I_(2), O("and"), O("not"), N("g")>>}}
IfPrograms == {Before \o <<<<"while", <<T>>, <<i, Do(EmitX(N("x"))), <<"break">>>>>>>> \o e :
                 i \in UNION {Ifs(b) : b \in IfBodies}, e \in {<<Rt(<<X("x"), X("y")>>)>>, <<Label_("b"), Do(EmitX(I_(8)))>>}}
AllPrograms == {p \in GotoPrograms \cup ShortPrograms : ~Endless(p)} \cup LogicPrograms \cup ArithPrograms \cup IfPrograms
          \cup {Before \o p : p \in StatPrograms \cup LoopPrograms}
=============================================================================
