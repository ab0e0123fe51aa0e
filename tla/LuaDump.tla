------------------------------ MODULE LuaDump ------------------------------
(***************************************************************************)
(* Precompiled chunks: ldump.c and lundump.c.  A chunk is a sequence of    *)
(* numbers; how many bytes each takes is left out.  A string is a sequence *)
(* of numbers, and None a string that is NULL.                             *)
(***************************************************************************)
EXTENDS Integers, Sequences

CONSTANTS
  Protos,          \* functions to dump
  Header,          \* what DumpHeader writes, behind the signature
  ByteMax,         \* 0xFF, which marks a long string
  None

VARIABLES call, answer
vars == <<call, answer>>

\* The types of constants: nil, boolean, float, integer, string.
Const(t, v) == [t |-> t, v |-> v]
NilType == 0
Strings == {4, 20}            \* LUA_TSHRSTR, LUA_TLNGSTR
Last(q) == q[Len(q)]
Front(q) == SubSeq(q, 1, Len(q) - 1)
-----------------------------------------------------------------------------
(* Dumping.  D: what the writer took, how many more blocks it will take,   *)
(* and its status.                                                         *)
DumpBlock(D, block) ==
  IF D.status # 0 \/ block = <<>> THEN D
  ELSE IF D.left = 0 THEN [D EXCEPT !.status = 1] ELSE [D EXCEPT !.left = @ - 1, !.out = @ \o block]
DumpByte(D, y) == DumpBlock(D, <<y>>)
DumpInt(D, x) == DumpBlock(D, <<x>>)
DumpSize(D, size) == IF size < ByteMax THEN DumpByte(D, size) ELSE DumpInt(DumpByte(D, ByteMax), size)
DumpString(D, s) == IF s = None THEN DumpByte(D, 0) ELSE DumpBlock(DumpSize(D, Len(s) + 1), s)

DumpConstant(D, o) ==
  IF o.t \in Strings THEN DumpString(DumpByte(D, o.t), o.v)
  ELSE IF o.t = NilType THEN DumpByte(D, o.t) ELSE DumpBlock(DumpByte(D, o.t), o.v)
DumpUpvalue(D, u) == DumpByte(DumpByte(D, u.instack), u.idx)
DumpLocVar(D, v) == DumpInt(DumpInt(DumpString(D, v.name), v.startpc), v.endpc)

RECURSIVE DumpFunction(_, _, _, _)
DumpOne(D, kind, x, source, strip) ==
  CASE kind = "constant" -> DumpConstant(D, x)
    [] kind = "upvalue" -> DumpUpvalue(D, x)
    [] kind = "locvar" -> DumpLocVar(D, x)
    [] kind = "name" -> DumpString(D, x)
    [] kind = "proto" -> DumpFunction(D, x, source, strip)
RECURSIVE DumpEach(_, _, _, _, _)
DumpEach(D, kind, s, source, strip) ==
  IF s = <<>> THEN D ELSE DumpEach(DumpOne(D, kind, Head(s), source, strip), kind, Tail(s), source, strip)
DumpList(D, kind, s, source, strip) == DumpEach(DumpInt(D, Len(s)), kind, s, source, strip)

Stripped(s, strip) == IF strip THEN <<>> ELSE s
DumpVector(D, s) == DumpBlock(DumpInt(D, Len(s)), s)
DumpDebug(D, f, strip) ==
  DumpList(DumpList(DumpVector(D, Stripped(f.lineinfo, strip)), "locvar", Stripped(f.locvars, strip), None, strip),
           "name", Stripped(f.upnames, strip), None, strip)

SourceToDump(f, psource, strip) == IF strip \/ f.source = psource THEN None ELSE f.source
DumpLines(D, f) == DumpByte(DumpByte(DumpByte(DumpInt(DumpInt(D, f.line), f.lastline), f.params), f.vararg), f.stack)
DumpFunction(D, f, psource, strip) ==
  DumpDebug(DumpList(DumpList(DumpList(DumpVector(DumpLines(DumpString(D, SourceToDump(f, psource, strip)), f), f.code),
    "constant", f.k, None, strip), "upvalue", f.upvalues, None, strip), "proto", f.p, f.source, strip), f, strip)

DumpHeader(D) == DumpBlock(D, Header)
Dump(f, strip, left) ==
  DumpFunction(DumpByte(DumpHeader([out |-> <<>>, left |-> left, status |-> 0]), Len(f.upvalues)), f, None, strip)
-----------------------------------------------------------------------------
(* Loading.  S: what is left of the chunk, the values loaded so far, and   *)
(* why it was given up.                                                    *)
Fails(S, why) == IF S.err = "" THEN [S EXCEPT !.err = why] ELSE S
LoadBlock(S, n) ==
  IF S.err # "" THEN S
  ELSE IF Len(S.q) < n THEN Fails(S, "truncated")
  ELSE [S EXCEPT !.q = SubSeq(@, n + 1, Len(@)), !.vals = Append(@, SubSeq(S.q, 1, n))]
LoadNumber(S) ==
  IF S.err # "" THEN S
  ELSE IF S.q = <<>> THEN Fails(S, "truncated") ELSE [S EXCEPT !.q = Tail(@), !.vals = Append(@, Head(S.q))]
\* Without the value on top, which a load uses; what replaces it.
Without(S) == [S EXCEPT !.vals = Front(@)]
Instead(S, v) == IF S.err # "" THEN S ELSE [S EXCEPT !.vals = Append(Front(@), v)]

LoadChars(S) == IF S.err # "" THEN S ELSE IF Last(S.vals) = 0 THEN Instead(S, None) ELSE LoadBlock(Without(S), Last(S.vals) - 1)
LoadLong(S) == IF S.err = "" /\ Last(S.vals) = ByteMax THEN LoadNumber(Without(S)) ELSE S
LoadString(S) == LoadChars(LoadLong(LoadNumber(S)))

\* n values from the top as one.
ValueOf(kind, v) ==
  CASE kind = "constant" -> Const(v[1], v[2])
    [] kind = "upvalue" -> [instack |-> v[1], idx |-> v[2]]
    [] kind = "locvar" -> [name |-> v[1], startpc |-> v[2], endpc |-> v[3]]
    [] kind = "list" -> v
    [] kind = "proto" -> [source |-> v[1], line |-> v[2], lastline |-> v[3], params |-> v[4], vararg |-> v[5], stack |-> v[6],
                          code |-> v[7], k |-> v[8], upvalues |-> v[9], p |-> v[10], lineinfo |-> v[11], locvars |-> v[12],
                          upnames |-> v[13]]
Grouped(S, n, kind) ==
  IF S.err # "" THEN S
  ELSE [S EXCEPT !.vals = Append(SubSeq(@, 1, Len(@) - n), ValueOf(kind, SubSeq(@, Len(@) - n + 1, Len(@))))]

LoadVector(S) == IF S.err # "" THEN S ELSE LoadBlock(Without(S), Last(S.vals))
ConstantOf(S) ==
  IF S.err # "" THEN S
  ELSE IF Last(S.vals) \in Strings THEN Grouped(LoadString(S), 2, "constant")
  ELSE IF Last(S.vals) = NilType THEN Instead(S, Const(NilType, <<>>))
  ELSE Grouped(LoadBlock(S, 1), 2, "constant")
LoadUpvalue(S) == Grouped(LoadNumber(LoadNumber(S)), 2, "upvalue")
LoadLocVar(S) == Grouped(LoadNumber(LoadNumber(LoadString(S))), 3, "locvar")

RECURSIVE LoadFunction(_, _)
LoadOne(S, kind, source) ==
  CASE kind = "constant" -> ConstantOf(LoadNumber(S))
    [] kind = "upvalue" -> LoadUpvalue(S)
    [] kind = "locvar" -> LoadLocVar(S)
    [] kind = "name" -> LoadString(S)
    [] kind = "proto" -> LoadFunction(S, source)
RECURSIVE LoadEach(_, _, _, _)
LoadEach(S, kind, n, source) == IF n = 0 \/ S.err # "" THEN S ELSE LoadEach(LoadOne(S, kind, source), kind, n - 1, source)
LoadN(S, kind, n, source) == Grouped(LoadEach(Without(S), kind, n, source), n, "list")
Counted(S, kind, source) == IF S.err # "" THEN S ELSE LoadN(S, kind, Last(S.vals), source)
LoadList(S, kind, source) == Counted(LoadNumber(S), kind, source)

LoadDebug(S) == LoadList(LoadList(LoadVector(LoadNumber(S)), "locvar", None), "name", None)
LoadLines(S) == LoadNumber(LoadNumber(LoadNumber(LoadNumber(LoadNumber(S)))))
SourceLoaded(S, psource) == IF S.err = "" /\ Last(S.vals) = None THEN Instead(S, psource) ELSE S
LoadBody(S) ==
  IF S.err # "" THEN S
  ELSE Grouped(LoadDebug(LoadList(LoadList(LoadList(LoadVector(LoadNumber(LoadLines(S))), "constant", None), "upvalue", None),
                                  "proto", Last(S.vals))), 13, "proto")
LoadFunction(S, psource) == LoadBody(SourceLoaded(LoadString(S), psource))

\* checkHeader: each part is compared as it is read.
RECURSIVE CheckFrom(_, _)
CheckFrom(S, i) ==
  IF i > Len(Header) \/ S.err # "" THEN S
  ELSE IF S.q = <<>> THEN Fails(S, "truncated")
  ELSE IF Head(S.q) # Header[i] THEN Fails(S, "mismatch") ELSE CheckFrom([S EXCEPT !.q = Tail(@)], i + 1)
Undump(q) == LoadFunction(LoadNumber(CheckFrom([q |-> q, vals |-> <<>>, err |-> ""], 1)), None)
-----------------------------------------------------------------------------
Init == call \in Protos /\ answer = <<>>

Whole == 1000000
DumpAndLoad == \E strip \in BOOLEAN : LET D == Dump(call, strip, Whole) IN answer' = <<"load", strip, D.status, Undump(D.out)>>
DumpOnly == \E strip \in BOOLEAN, left \in 0..60 : answer' = <<"part", strip, left, Dump(call, strip, left)>>
LoadPart == LET q == Dump(call, FALSE, Whole).out IN \E n \in 0..Len(q) : answer' = <<"cut", n, Undump(SubSeq(q, 1, n)).err>>
LoadOther == \E i \in DOMAIN Header : answer' = <<"other", Undump([Dump(call, FALSE, Whole).out EXCEPT ![i] = @ + 1]).err>>

Next == answer = <<>> /\ (DumpAndLoad \/ DumpOnly \/ LoadPart \/ LoadOther) /\ UNCHANGED call

Spec == Init /\ [][Next]_vars
-----------------------------------------------------------------------------
Asked(op) == answer # <<>> /\ answer[1] = op

\* What stripping leaves of a function.
RECURSIVE WithoutDebug(_)
WithoutDebug(f) ==
  [f EXCEPT !.source = None, !.lineinfo = <<>>, !.locvars = <<>>, !.upnames = <<>>, !.p = [i \in DOMAIN @ |-> WithoutDebug(f.p[i])]]

(***************************************************************************)
(* A dumped function is loaded as it was: with the sources of its nested   *)
(* functions, and stripped without the debug information alone.            *)
(***************************************************************************)
LoadedAsDumped ==
  Asked("load") =>
    /\ answer[3] = 0 /\ answer[4].err = "" /\ answer[4].q = <<>>
    /\ Last(answer[4].vals) = (IF answer[2] THEN WithoutDebug(call) ELSE call)

(***************************************************************************)
(* A chunk that was cut or has another header is refused; a writer that    *)
(* fails is not called again, and its status is what dump returns.         *)
(***************************************************************************)
PartsRefused ==
  /\ Asked("cut") => answer[3] = (IF answer[2] < Len(Dump(call, FALSE, Whole).out) THEN "truncated" ELSE "")
  /\ Asked("other") => answer[2] = "mismatch"
  /\ Asked("part") =>
       LET all == Dump(call, answer[2], Whole).out D == answer[4]
       IN  D.out = SubSeq(all, 1, Len(D.out)) /\ (D.status = 0) = (D.out = all)
=============================================================================
