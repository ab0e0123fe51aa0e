------------------------------- MODULE MCLuaVm -------------------------------
(***************************************************************************)
(* Small instances of the compiler and the virtual machine, and of what    *)
(* they are made from: the scanner, the values and their operations, the   *)
(* metamethods.  MCParts runs them beside the other parts; part, call and  *)
(* answer are those of MCKit.                                              *)
(***************************************************************************)
EXTENDS MCLuaPrograms, MCKit

VARIABLES
  program, main, ci, slots, top, upvals, heap, out, ended, results,  \* LuaVm
  fields, meta, flags       \* LuaMeta

vmVars == <<program, main, ci, slots, top, upvals, heap, out, ended, results>>
metaVars == <<fields, meta, flags>>

NoVm == /\ program = 0 /\ main = 0 /\ ci = 0 /\ slots = 0 /\ top = 0
        /\ upvals = 0 /\ heap = 0 /\ out = 0 /\ ended = 0 /\ results = 0
NoMeta == fields = 0 /\ meta = 0 /\ flags = 0
-----------------------------------------------------------------------------
\* Two constants fit in an instruction, two fields in an OP_SETLIST.
Vm == INSTANCE LuaVm WITH stack <- slots, status <- ended, MaxIndexRK <- 1, MaxBx <- 2, MaxRegs <- 40, StackSize <- 40, Args <- MCArgs, Programs <- AllPrograms
\* Of these, the ones with an if that begins with a jump.
IfVm == INSTANCE LuaVm WITH stack <- slots, status <- ended, MaxIndexRK <- 1, MaxBx <- 2, MaxRegs <- 40, StackSize <- 40, Args <- MCArgs, Programs <- IfPrograms
-----------------------------------------------------------------------------
\* Two tables and strings, and accesses or comparisons by their metamethods.
Access == INSTANCE LuaMeta WITH Tables <- 1..2, Plain <- 8, Fun <- 9, MaxTagLoop <- 4, Events <- {"index", "newindex"},
  Contents <- [index |-> <<{0, 1, 2, 9}, {0, 1, 8}>>, newindex |-> <<{0, 2, 9}, {0, 1}>>, k |-> <<{0, 6}, {0, 7}>>, metatable |-> <<{0}, {0, 6}>>],
  Metas <- 1 :> {0, 1, 2} @@ 2 :> {0, 1, 2} @@ 8 :> {0, 2}, Rank <- <<1, 2>>
Order == INSTANCE LuaMeta WITH Tables <- 1..3, Plain <- 8, Fun <- 9, MaxTagLoop <- 4, Events <- {"index", "newindex", "eq", "lt", "le"},
  Contents <- [eq |-> <<{0, 9}, {0, 9}, {0}>>, lt |-> <<{0}, {0, 9}, {0}>>, le |-> <<{0, 9}, {0, 9}, {0}>>, index |-> <<{0}, {0}, {0}>>, newindex |-> <<{0}, {0}, {0}>>],
  Metas <- 1 :> {0, 1, 2} @@ 2 :> {0, 1} @@ 3 :> {0, 2} @@ 8 :> {0}, Rank <- <<1, 2, 1>>
-----------------------------------------------------------------------------
\* Integers of five bits, floats with mantissas of three.
CodeStrings == UNION {[1..n -> 0..2] : n \in 0..3}
Values == INSTANCE LuaValues WITH Bits <- 5, Mant <- 3, Huge <- 1000, TableBits <- 3, Naturals_ <- 1..150,
  Steps <- {-16, -3, -1, 1, 2, 7, 15},
  Limits <- {[k |-> "int", n |-> n, s |-> <<>>] : n \in {-16, -2, 0, 5, 14, 15}}
    \cup {[k |-> "float", n |-> q, s |-> <<>>] : q \in {-1000, 1000, 1001, -64, 64, -80, 14, -14, 56}}
    \cup {[k |-> "str", n |-> 0, s |-> q] : q \in {<<"1", "2">>, <<"9", "9">>, <<"-", "2", "0">>, <<"x">>}},
  Texts <- CodeStrings,
  Numerals <- {<<>>, <<"-">>, <<" ", "7", " ">>, <<"1", "5">>, <<"1", "6">>, <<"-", "1", "6">>, <<"-", "1", "7">>, <<"0", "x", "f", "f">>, <<"0", "x">>,
               <<"+", "3", ".">>, <<"3", ".", "5">>, <<".", "5">>, <<"2", ".", "0">>, <<"n", "a", "n">>, <<"1", "2", "3">>, <<"1", " ", "2">>, <<".">>, <<"a">>, <<"-", "0", "x", "1", "a">>}

\* Code points around the limits of one to four bytes; bytes that begin, go on,
\* or are never in a character.
Utf8 == INSTANCE LuaUtf8 WITH MaxChars <- 3, CodePoints <- {0, 127, 128, 2047, 2048, 55296, 65535, 65536, 1114111, 1114112},
  Strings <- UNION {[1..n -> {65, 128, 191, 194, 224, 240}] : n \in 0..4} \cup [1..3 -> {65, 160, 192, 237, 245, 255}]
    \cup {<<244, 143, 191, 191>>, <<244, 144, 128, 128>>, <<224, 159, 191>>, <<240, 143, 191, 191>>, <<248, 136, 128, 128, 128>>, <<255, 191, 191, 191, 191, 191, 191, 191>>}

\* Numbers of six bits, of which four count.
Bit32 == INSTANCE LuaBits WITH NBits <- 4, Width <- 6

\* Pieces of chunks: what separates tokens, and tokens; strings of up to three
\* characters and escapes.
Piece(text, tokens, breaks) == [text |-> text, tokens |-> tokens, breaks |-> breaks]
Word(sort, text) == Piece(text, <<[t |-> sort, v |-> text]>>, 0)
Gaps == {Piece(<<" ">>, <<>>, 0), Piece(<<"nl">>, <<>>, 1), Piece(<<"cr", "nl">>, <<>>, 1), Piece(<<"nl", "nl", "cr", "cr">>, <<>>, 3),
         Piece(<<"-", "-", "[", "=", "a", "nl">>, <<>>, 1), Piece(<<"-", "-", "[", "=", "[", "nl", "]", "]", "cr", "]", "=", "]">>, <<>>, 2)}
Minus == Word("symbol", <<"-">>)
Words == {Word("name", <<"a", "1">>), Word("reserved", <<"f", "n">>), Word("number", <<"0", "x", "f">>), Word("symbol", <<"[">>), Word("symbol", <<".", ".">>), Minus,
          Piece(<<"[", "[", "nl", "a", "cr", "nl", "]", "=", "]", "]">>, <<[t |-> "string", v |-> <<"a", "nl", "]", "=">>]>>, 2),
          Piece(<<"[", "=", "[", "]", "]", "]", "=", "]">>, <<[t |-> "string", v |-> <<"]", "]">>]>>, 0)}
Inside == {<<<<"a">>, <<"a">>, 0>>, <<<<"\\", "n">>, <<"nl">>, 0>>, <<<<"\\", "x", "6", "1">>, <<"a">>, 0>>, <<<<"\\", "0", "9", "7">>, <<"a">>, 0>>, <<<<"\\", "u", "{", "6", "1", "}">>, <<"a">>, 0>>,
           <<<<"\\", "u", "{", "7", "f", "f", "}">>, <<"A", "B">>, 0>>, <<<<"\\", "z", " ", "nl", "cr", " ">>, <<>>, 1>>, <<<<"\\", "cr", "nl">>, <<"nl">>, 1>>, <<<<"\\", "'">>, <<"'">>, 0>>, <<<<"1">>, <<"1">>, 0>>}
Quoted(p) == Piece(<<"'">> \o p[1] \o <<"'">>, <<[t |-> "string", v |-> p[2]]>>, p[3])
Then(p, q) == <<p[1] \o q[1], p[2] \o q[2], p[3] + q[3]>>
Bad(text, err) == [text |-> text, err |-> err]
Lexer == INSTANCE LuaLex WITH
  Chunks <- {<<>>} \cup {<<u, p, v, q, w>> \in {Piece(<<"nl">>, <<>>, 1)} \X Words \X Gaps \X Words \X Gaps :
                          Minus \notin {p, q} \/ {v.text[1], w.text[1]} \cap {"-"} = {}}
    \cup {<<Quoted(p)>> : p \in Inside} \cup {<<Quoted(Then(p, q))>> : p, q \in Inside} \cup {<<Quoted(Then(Then(p, q), r))>> : p, q, r \in Inside},
  Symbols <- UNION {[1..n -> {"=", "<", ">", "/", "~", ":", ".", "+"}] : n \in 1..3} \cup [1..4 -> {"<", "=", "."}],
  Char <- 97 :> "a" @@ 10 :> "nl", Utf8Esc <- 97 :> <<"a">> @@ 2047 :> <<"A", "B">>, Numerals <- {<<"0", "x", "f">>, <<"1">>}, Reserved <- {<<"f", "n">>},
  Malformed <- {Bad(<<"'", "a">>, "unfinished string"), Bad(<<"'", "nl", "'">>, "unfinished string"), Bad(<<"'", "\\">>, "unfinished string"), Bad(<<"'", "\\", "q", "'">>, "invalid escape sequence"),
    Bad(<<"'", "\\", "3", "0", "0", "'">>, "decimal escape too large"), Bad(<<"'", "\\", "x", "6", "z", "'">>, "hexadecimal digit expected"), Bad(<<"'", "\\", "x", "'">>, "hexadecimal digit expected"),
    Bad(<<"'", "\\", "u", "6", "'">>, "missing '{'"), Bad(<<"'", "\\", "u", "{", "}", "'">>, "hexadecimal digit expected"), Bad(<<"'", "\\", "u", "{", "6", "'">>, "missing '}'"),
    Bad(<<"'", "\\", "u", "{", "1", "1", "0", "0", "0", "0", "}", "'">>, "UTF-8 value too large"), Bad(<<"[", "=", "a">>, "invalid long string delimiter"), Bad(<<"[", "[", "]">>, "unfinished long"),
    Bad(<<"-", "-", "[", "=", "[", "]", "]">>, "unfinished long"), Bad(<<"1", ".", "1">>, "malformed number"), Bad(<<"0", "x">>, "malformed number")}
-----------------------------------------------------------------------------
MetaInit ==
  \/ part = "access" /\ Access!Init
  \/ part = "order" /\ Order!Init
MetaNext ==
  \/ part = "access" /\ Access!Next
  \/ part = "order" /\ Order!Next

CallInit ==
  \/ part = "values" /\ Values!Init
  \/ part = "utf8" /\ Utf8!Init
  \/ part = "bits" /\ Bit32!Init
  \/ part = "lexer" /\ Lexer!Init
CallNext ==
  \/ part = "values" /\ Values!Next
  \/ part = "utf8" /\ Utf8!Next
  \/ part = "bits" /\ Bit32!Next
  \/ part = "lexer" /\ Lexer!Next

CompiledInit ==
  \/ part = "vm" /\ Vm!Init /\ NoMeta /\ NoCall
  \/ MetaInit /\ NoVm /\ NoCall
  \/ CallInit /\ NoVm /\ NoMeta

CompiledNext ==
  \/ part = "vm" /\ Vm!Next /\ UNCHANGED <<metaVars, callVars>>
  \/ MetaNext /\ UNCHANGED <<vmVars, callVars>>
  \/ CallNext /\ UNCHANGED <<vmVars, metaVars>>

IfInit == part = "vm" /\ IfVm!Init /\ NoMeta /\ NoCall
-----------------------------------------------------------------------------
(* The properties of each part are stated where it is modelled.            *)
\* A program does what it means: its calls, results and errors.
MeansTheSame == part = "vm" => Vm!MeansTheSame

\* A goto or break that begins a then part does what it means.
GotosReachLabels == part = "vm" => Vm!GotosReachLabels

\* The compiler is left with its invariants intact, the code it makes goes
\* nowhere but to instructions, and reads nothing that was not stored.
CodeWellFormed == part = "vm" => Vm!CodeWellFormed

\* Open upvalues are the only ones of slots of variables that have a value.
UpvaluesLive == part = "vm" => Vm!UpvaluesLive

(***************************************************************************)
(* Metamethods: what is cached as absent is absent; values are read and    *)
(* stored where the chain of metatables says, and compared by the order of *)
(* the metamethods.                                                        *)
(***************************************************************************)
MetamethodsMeant ==
  /\ part = "access" => Access!AbsenceTrue /\ Access!AccessMeant
  /\ part = "order" => Order!AbsenceTrue /\ Order!OrderMeant

(***************************************************************************)
(* Integers and floats compare by their exact values, operations give what *)
(* the manual says within the integers there are, loops run to their limit,*)
(* and numerals convert back; code points and offsets in UTF-8 agree with  *)
(* the characters; bits and fields are those of numbers; and a chunk gives *)
(* the tokens it was written with.                                         *)
(***************************************************************************)
ValuesRight ==
  /\ part = "values" => Values!ComparesExactly /\ Values!ComputesRight /\ Values!LoopsToLimit /\ Values!ConvertsBack
  /\ part = "utf8" => Utf8!CodesComeBack /\ Utf8!OffsetsRight
  /\ part = "bits" => Bit32!BitsRight
  /\ part = "lexer" => Lexer!TokensMeant /\ Lexer!LongestTaken
=============================================================================
