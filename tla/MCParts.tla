------------------------------ MODULE MCParts ------------------------------
(***************************************************************************)
(* Small instances of the parts of lktkit (MCKit) and of the Lua           *)
(* interpreter that run on their own.  A behaviour belongs to one part; the*)
(* others are at rest.                                                     *)
(***************************************************************************)
EXTENDS LuaThreads, MCLuaVm

VARIABLES
  t, map, it, seen, op      \* LuaTable

tableVars == <<t, map, it, seen, op>>
compiledVars == <<vmVars, metaVars>>
vars == <<part, kitVars, tableVars, threadVars, compiledVars, callVars>>

NoTable == t = 0 /\ map = 0 /\ it = 0 /\ seen = 0 /\ op = 0
NoThreads == th = 0 /\ L = 0 /\ c = 0 /\ ctl = Ctl("stop", "ok", "") /\ calls = 0
NoCompiled == NoVm /\ NoMeta
-----------------------------------------------------------------------------
\* Integer keys 1 to 4, 2 as a float as well, and one more key whose hash
\* collides with those of integers.
Table == INSTANCE LuaTable WITH MaxInt <- 4, IntLimit <- 5, Floats <- {20}, Float <- 20 :> 2, Others <- {101},
  Hash <- 101 :> 3 @@ 20 :> 1, Shapes <- {<<0, 0>>, <<0, 4>>}
-----------------------------------------------------------------------------
(* The libraries and the loader of chunks: one call and its answer.        *)
\* Patterns of up to three classes with suffixes, and with captures, %b, %f,
\* back references and $ among classes; a and b as the parentheses of %b.
One(text, chars, rep) == [at |-> "one", text |-> text, chars |-> chars, rep |-> rep]
Zero(what, text, chars) == [at |-> what, text |-> text, chars |-> chars, rep |-> <<>>]
Classes4 == {One(<<"a">>, {"a"}, <<>>), One(<<".">>, {"a", "b", "1"}, <<"*">>), One(<<"[", "^", "a", "]">>, {"b", "1"}, <<"-">>),
             One(<<"[", "a", "-", "b", "]">>, {"a", "b"}, <<"?">>), One(<<"%", "A">>, {"1"}, <<"?">>), One(<<"[", "%", "a", "]">>, {"a", "b"}, <<"+">>)}
Open == Zero("open", <<"(">>, {})
Close == Zero("close", <<")">>, {})
Here == Zero("position", <<"(", ")">>, {})
Back(d) == Zero("back", <<"%", d>>, {})
Pair == Zero("balance", <<"%", "b", "a", "b">>, {})
Edge == Zero("frontier", <<"%", "f", "[", "a", "]">>, {"a"})
AtEnd == Zero("end", <<"$">>, {})
Pattern == INSTANCE LuaPattern WITH
  Subjects <- {<<>>, <<"a">>, <<"b">>, <<"a", "a">>, <<"a", "b">>, <<"b", "a">>, <<"1", "a">>, <<"a", "b", "a">>, <<"a", "a", "b", "b">>, <<"b", "a", "b", "1">>},
  Patterns <- {<<>>} \cup {<<x>> : x \in Classes4} \cup {<<x, y>> : x, y \in Classes4}
    \cup UNION {{<<Open, x, Close, y, Back("1")>>, <<Open, x, Here, Close, y, Back("2")>>, <<Here, x, Open, y, Close, AtEnd>>,
                 <<Open, x, Open, y, Close, Close, Back("2")>>, <<x, Pair, y>>, <<x, Edge, y>>, <<x, x, y>>, <<x, Pair, AtEnd>>} : x \in Classes4, y \in {One(<<"a">>, {"a"}, <<>>), One(<<".">>, {"a", "b", "1"}, <<"-">>)}},
  Inits <- {1, -1}, MaxCaptures <- 4, MaxDepth <- 12,
  Code <- "a" :> 2 @@ "b" :> 3 @@ "1" :> 1, Digit <- "0" :> 0 @@ "1" :> 1 @@ "2" :> 2,
  Classes <- "a" :> {"a", "b"} @@ "d" :> {"1"}, Negated <- "A" :> "a" @@ "D" :> "d",
  Replacements <- {[kind |-> "string", text |-> <<"%", "0">>, makes |-> "same"], [kind |-> "string", text |-> <<"x">>, makes |-> "x"],
                   [kind |-> "string", text |-> <<"%", "2", "%", "%">>, makes |-> ""], [kind |-> "string", text |-> <<"%">>, makes |-> ""],
                   [kind |-> "function", get |-> [k \in 0..4 |-> "string"], makes |-> "x"],
                   [kind |-> "table", get |-> [k \in 0..4 |-> IF k = 1 THEN "false" ELSE IF k = 2 THEN "table" ELSE "string"], makes |-> ""]},
  Malformed <- {<<q, <<"a", "a">>>> : q \in {<<"%">>, <<"[", "a">>, <<"(", "a">>, <<"a", ")">>, <<"%", "1">>, <<"(", "%", "1", ")">>, <<"%", "f", "a">>,
                   <<"%", "b", "a">>, <<"[", "%">>, [k \in 1..10 |-> IF k % 2 = 1 THEN "(" ELSE ")"]}}
    \cup {<<[k \in 1..26 |-> IF k % 2 = 1 THEN "a" ELSE "?"], [k \in 1..13 |-> "a"]>>}

\* Bytes of two bits, integers of two bytes: -8 to 7.
Opt(text, sort, size) == [text |-> text, kind |-> sort, size |-> size]
Options11 == {Opt(<<"b">>, "int", 1), Opt(<<"B">>, "uint", 1), Opt(<<"j">>, "int", 2), Opt(<<"i", "3">>, "int", 3), Opt(<<"I", "2">>, "uint", 2), Opt(<<"I", "3">>, "uint", 3),
              Opt(<<"d">>, "float", 2), Opt(<<"c", "2">>, "char", 2), Opt(<<"s", "1">>, "string", 1), Opt(<<"s">>, "string", 2), Opt(<<"z">>, "zstr", 0)}
Marks == {Opt(<<"<">>, "nop", 0), Opt(<<">">>, "nop", 0), Opt(<<"!", "2", ">">>, "nop", 0), Opt(<<"!", " ">>, "nop", 0), Opt(<<"x">>, "padding", 1), Opt(<<"X", "j">>, "paddalign", 0)}
Packing == INSTANCE LuaPack WITH
  Byte <- 4, SzInt <- 2, MaxIntSize <- 4, MaxAlign <- 2, MaxNum <- 3,
  Digit <- "0" :> 0 @@ "1" :> 1 @@ "2" :> 2 @@ "3" :> 3 @@ "4" :> 4 @@ "5" :> 5,
  Fixed <- "b" :> <<"int", 1>> @@ "B" :> <<"uint", 1>> @@ "j" :> <<"int", 2>> @@ "d" :> <<"float", 2>>,
  Formats <- {<<>>} \cup {<<m, x>> : m \in Marks, x \in Options11} \cup {<<m, x, y>> : m \in Marks, x \in {o \in Options11 : o.size < 2}, y \in Options11},
  Ints <- {-8, -3, -2, -1, 0, 2, 3, 7}, Strings <- {<<>>, <<1>>, <<3, 2>>, <<0, 1>>, <<1, 1, 1, 1>>},
  Data <- UNION {[1..n -> {0, 1, 3}] : n \in 0..3} \cup {<<1, 2, 3, 3>>},
  Malformed <- {<<"q">>, <<"c">>, <<"i", "5">>, <<"i", "0">>, <<"X">>, <<"X", "z">>, <<"X", "c", "2">>, <<"!", "3", "i", "3">>, <<"!", "5">>, <<"X", "q">>, <<"c", "4", "4">>}

\* Lists of up to three elements among twelve integers; lists of up to four to
\* sort with any relation of three values, and of up to ten with an order.
Less3 == {<<1, 2>>, <<1, 3>>, <<2, 3>>}
Perm(n, a, b) == [i \in 1..n |-> 1 + ((a * i + b) % 3)]
TableLib == INSTANCE LuaTableLib WITH
  MaxInteger <- 5, MaxResults <- 4, RanLimit <- 4, Imbalance <- 2, Seeds <- {0, 5, 6},
  Lists <- {<<>>, <<1>>, <<2, 3>>, <<1, 2, 3>>},
  Orders <- {<<s, r>> : s \in UNION {[1..n -> 1..3] : n \in 0..3} \cup {<<1, 2, 3, 1>>, <<3, 2, 2, 1>>, <<2, 1, 3, 3>>, <<3, 1, 2, 1, 2>>, <<1, 1, 1, 2, 3>>},
                         r \in SUBSET ((1..3) \X (1..2)) \cup {Less3}}
    \cup {<<[i \in 1..n |-> IF i <= k THEN x ELSE Perm(n, a, b)[i]], Less3>> : n \in 5..9, k \in {0, 3, 6}, x \in 1..3, a \in 0..2, b \in 0..2}

\* Functions with a nested one each, of the same source or another; strings around
\* the length that a byte cannot hold, scaled to four.
ProtoWith(source, k, p, debug) ==
  [source |-> source, line |-> 1, lastline |-> 3, params |-> 1, vararg |-> 0, stack |-> 2, code |-> <<7, 8>>, k |-> k,
   upvalues |-> <<[instack |-> 1, idx |-> 0]>>, p |-> p, lineinfo |-> IF debug THEN <<1, 2>> ELSE <<>>,
   locvars |-> IF debug THEN <<[name |-> <<5>>, startpc |-> 0, endpc |-> 2]>> ELSE <<>>, upnames |-> IF debug THEN <<<<6, 6, 6>>>> ELSE <<>>]
Constant(tag, v) == [t |-> tag, v |-> v]
Inner(source) == ProtoWith(source, <<>>, <<>>, TRUE)
Chunk == INSTANCE LuaDump WITH
  ByteMax <- 4, None <- <<-1>>, Header <- <<27, 76, 53, 0, 19, 4, 8>>,
  Protos <- {ProtoWith(s, k, p, d) : s \in {<<9>>, <<9, 9, 9, 9>>}, d \in BOOLEAN,
               k \in {<<>>, <<Constant(0, <<>>), Constant(1, <<1>>), Constant(3, <<12>>), Constant(19, <<-4>>)>>}
                     \cup {<<Constant(4, [i \in 1..n |-> 5])>> : n \in 0..3} \cup {<<Constant(20, <<1, 2, 3, 4, 5>>)>>},
               p \in {<<>>, <<Inner(<<9>>)>>, <<Inner(<<3>>), Inner(<<9>>)>>, <<ProtoWith(<<9>>, <<>>, <<Inner(<<3>>)>>, TRUE)>>}}

-----------------------------------------------------------------------------
LibInit ==
  \/ part = "pattern" /\ Pattern!Init
  \/ part = "packing" /\ Packing!Init
  \/ part = "tablelib" /\ TableLib!Init
  \/ part = "chunk" /\ Chunk!Init
LibNext ==
  \/ part = "pattern" /\ Pattern!Next
  \/ part = "packing" /\ Packing!Next
  \/ part = "tablelib" /\ TableLib!Next
  \/ part = "chunk" /\ Chunk!Next

NoLua == NoTable /\ NoThreads /\ NoCompiled
LuaInit ==
  \/ part = "table" /\ Table!Init /\ NoThreads /\ NoCompiled /\ NoCall
  \/ part = "threads" /\ ThreadsInit /\ NoTable /\ NoCompiled /\ NoCall
  \/ LibInit /\ NoLua
  \/ CompiledInit /\ NoTable /\ NoThreads
LuaNext ==
  \/ part = "table" /\ Table!Next /\ UNCHANGED <<threadVars, compiledVars, callVars>>
  \/ part = "threads" /\ ThreadsNext /\ UNCHANGED <<tableVars, compiledVars, callVars>>
  \/ LibNext /\ UNCHANGED <<tableVars, threadVars, compiledVars>>
  \/ CompiledNext /\ UNCHANGED <<tableVars, threadVars>>

Init == (KitInit /\ NoLua) \/ (LuaInit /\ NoKit)
Next ==
  /\ part' = part
  /\ \/ KitNext /\ UNCHANGED <<tableVars, threadVars, compiledVars>>
     \/ LuaNext /\ UNCHANGED kitVars

Spec == Init /\ [][Next]_vars

\* Nothing but programs with an if of IfPrograms.
IfSpec == (IfInit /\ NoTable /\ NoThreads /\ NoKit) /\ [][Next]_vars
-----------------------------------------------------------------------------
(* The properties of each part are stated where it is modelled; those of   *)
(* LuaThreads say nothing while ctl.go = "stop", as in the other parts.    *)
\* A table is a map, its nodes are chained as its invariant says, and its length
\* is a border.
TableIsMap == part = "table" => Table!IsMap /\ Table!MainInvariant /\ Table!Boundary

\* A traversal visits every element that stays, none twice; a rehash makes the
\* array as large as half of it is used.
TraversalComplete == [][part = "table" => Table!TraversalCompleteStep /\ Table!ArrayHalfUsedStep]_vars

(***************************************************************************)
(* The libraries: a search gives the first and best match, replacement and *)
(* iteration every match once, what is no pattern an error; what was packed*)
(* is read back; lists keep their elements when they are moved, and are    *)
(* sorted by an order that is one; a chunk is loaded as it was dumped, and *)
(* refused when a part of it is missing or wrong.                          *)
(***************************************************************************)
LibraryRight ==
  /\ part = "pattern" => Pattern!FirstBestFound /\ Pattern!AllMatchesOnce /\ Pattern!MalformedRaises
  /\ part = "packing" => Packing!PackedBack /\ Packing!ReadsBack /\ Packing!MalformedFormats
  /\ part = "tablelib" => TableLib!ElementsMoved /\ TableLib!SortedSame
  /\ part = "chunk" => Chunk!LoadedAsDumped /\ Chunk!PartsRefused
=============================================================================
