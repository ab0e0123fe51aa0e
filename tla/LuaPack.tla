------------------------------ MODULE LuaPack ------------------------------
(***************************************************************************)
(* string.pack, packsize and unpack (lstrlib.c).  A byte has Byte values   *)
(* and a lua_Integer SzInt bytes; an unsigned one is its residue.  A float *)
(* is the bytes of its representation on this little-endian machine.       *)
(* Values are records of an integer and a sequence of bytes.               *)
(***************************************************************************)
EXTENDS Integers, Sequences

CONSTANTS
  Byte, SzInt, MaxIntSize, MaxAlign,   \* 2^NB, SZINT, MAXINTSIZE, MAXALIGN
  MaxNum,                              \* (MAXSIZE - 9) / 10
  Digit, Fixed,                        \* character -> digit; option letter -> its kind and size
  Formats,                             \* sequences of items
  Malformed,                           \* texts that are no format
  Ints, Strings, Data

VARIABLES call, answer
vars == <<call, answer>>

RECURSIVE Pow(_)
Pow(n) == IF n = 0 THEN 1 ELSE Byte * Pow(n - 1)
Least == -(Pow(SzInt) \div 2)
Most == (Pow(SzInt) \div 2) - 1
ToUnsigned(n) == n % Pow(SzInt)
ToInteger(u) == IF u > Most THEN u - Pow(SzInt) ELSE u

At(q, i) == IF i \in DOMAIN q THEN q[i] ELSE ""
Zeros(n) == [i \in 1..n |-> 0]
Val(n, s) == [n |-> n, s |-> s]
Failed == [ok |-> FALSE]
Varying == {"string", "zstr"}
Silent == {"padding", "paddalign", "nop"}
-----------------------------------------------------------------------------
(* The format.  h is the header: the format, where it is read, the order   *)
(* of bytes and the maximum alignment.                                     *)
InitHeader(fmt) == [fmt |-> fmt, p |-> 1, little |-> TRUE, align |-> 1]

RECURSIVE Number(_, _)
Number(h, a) ==
  IF At(h.fmt, h.p) \in DOMAIN Digit /\ a <= MaxNum THEN Number([h EXCEPT !.p = @ + 1], a * 10 + Digit[h.fmt[h.p]])
  ELSE [h |-> h, n |-> a]
GetNum(h, df) == IF At(h.fmt, h.p) \in DOMAIN Digit THEN Number(h, 0) ELSE [h |-> h, n |-> df]

Option(kind, size, h) == [kind |-> kind, size |-> size, h |-> h]
Limited(kind, r) == Option(IF r.n \in 1..MaxIntSize THEN kind ELSE "error", r.n, r.h)
Sized(r) == Option(IF r.n = -1 THEN "error" ELSE "char", r.n, r.h)
SetsAlign(r) == Option(IF r.n \in 1..MaxIntSize THEN "nop" ELSE "error", 0, [r.h EXCEPT !.align = r.n])

OptionAt(ch, h) ==
  CASE ch \in DOMAIN Fixed -> Option(Fixed[ch][1], Fixed[ch][2], h)
    [] ch \in {"i", "I"} -> Limited(IF ch = "i" THEN "int" ELSE "uint", GetNum(h, SzInt))
    [] ch = "s" -> Limited("string", GetNum(h, SzInt))
    [] ch = "c" -> Sized(GetNum(h, -1))
    [] ch = "z" -> Option("zstr", 0, h)
    [] ch = "x" -> Option("padding", 1, h)
    [] ch = "X" -> Option("paddalign", 0, h)
    [] ch = " " -> Option("nop", 0, h)
    [] ch \in {"<", ">", "="} -> Option("nop", 0, [h EXCEPT !.little = (ch # ">")])
    [] ch = "!" -> SetsAlign(GetNum(h, MaxAlign))
    [] OTHER -> Option("error", 0, h)
GetOption(h) == OptionAt(At(h.fmt, h.p), [h EXCEPT !.p = @ + 1])

PowerOf2(n) == \E k \in 0..n : n = 2 ^ k
ToAlign(total, align) == (align - (total % align)) % align
Least2(a, b) == IF a < b THEN a ELSE b

\* o is the option, align what it asks for: an X takes that of the next one.
Aligned(o, align, h, total) ==
  LET a == Least2(align, h.align) IN
  IF align <= 1 \/ o.kind = "char" THEN [kind |-> o.kind, size |-> o.size, h |-> h, pad |-> 0]
  ELSE IF ~PowerOf2(a) THEN [kind |-> "error", size |-> 0, h |-> h, pad |-> 0]
  ELSE [kind |-> o.kind, size |-> o.size, h |-> h, pad |-> ToAlign(total, a)]
NextOption(o, next, total) ==
  IF next.kind \in {"char", "error"} \/ next.size = 0 THEN [kind |-> "error", size |-> 0, h |-> o.h, pad |-> 0]
  ELSE Aligned(o, next.size, next.h, total)
Details(o, total) == IF o.kind = "paddalign" THEN NextOption(o, GetOption(o.h), total) ELSE Aligned(o, o.size, o.h, total)
GetDetails(h, total) == Details(GetOption(h), total)
-----------------------------------------------------------------------------
(* Bytes.                                                                  *)
Place(size, little, i) == IF little THEN i + 1 ELSE size - i
Bytes(size, little, f(_)) == [k \in 1..size |-> f(IF little THEN k - 1 ELSE size - k)]

PackInt(u, little, size, neg) ==
  Bytes(size, little, LAMBDA i : IF i < SzInt THEN (u \div Pow(i)) % Byte ELSE IF neg THEN Byte - 1 ELSE 0)

CopyWithEndian(s, little) == [k \in DOMAIN s |-> IF little THEN s[k] ELSE s[Len(s) + 1 - k]]

RECURSIVE Gather(_, _, _, _, _)
Gather(data, pos, size, little, i) ==
  IF i < 0 THEN 0 ELSE data[pos + Place(size, little, i)] * Pow(i) + Gather(data, pos, size, little, i - 1)
SignExtended(u, size, signed) ==
  IF signed /\ size < SzInt /\ u >= Pow(size) \div 2 THEN ToInteger(ToUnsigned(u - Pow(size))) ELSE ToInteger(u)
Unread(data, pos, size, little, n, signed) ==
  LET mask == IF signed /\ n < 0 THEN Byte - 1 ELSE 0 IN \A i \in SzInt..(size - 1) : data[pos + Place(size, little, i)] = mask
CheckedInt(data, pos, size, little, n, signed) ==
  IF Unread(data, pos, size, little, n, signed) THEN [ok |-> TRUE, n |-> n] ELSE Failed
UnpackInt(data, pos, size, little, signed) ==
  CheckedInt(data, pos, size, little, SignExtended(Gather(data, pos, size, little, Least2(size, SzInt) - 1), size, signed), signed)
-----------------------------------------------------------------------------
(* pack: args are the values that are left, out what is packed.            *)
FitsInt(n, size) == size >= SzInt \/ n \in -(Pow(size) \div 2)..((Pow(size) \div 2) - 1)
FitsUint(n, size) == size >= SzInt \/ ToUnsigned(n) < Pow(size)

Item(d, v) ==
  CASE d.kind = "int" -> IF FitsInt(v.n, d.size) THEN <<PackInt(ToUnsigned(v.n), d.h.little, d.size, v.n < 0)>> ELSE <<>>
    [] d.kind = "uint" -> IF FitsUint(v.n, d.size) THEN <<PackInt(ToUnsigned(v.n), d.h.little, d.size, FALSE)>> ELSE <<>>
    [] d.kind = "float" -> <<CopyWithEndian(v.s, d.h.little)>>
    [] d.kind = "char" -> IF Len(v.s) <= d.size THEN <<v.s \o Zeros(d.size - Len(v.s))>> ELSE <<>>
    [] d.kind = "string" -> IF d.size >= SzInt \/ Len(v.s) < Pow(d.size)
                            THEN <<PackInt(Len(v.s), d.h.little, d.size, FALSE) \o v.s>> ELSE <<>>
    [] d.kind = "zstr" -> IF \A k \in DOMAIN v.s : v.s[k] # 0 THEN <<Append(v.s, 0)>> ELSE <<>>
    [] OTHER -> <<Zeros(d.size)>>

RECURSIVE Pack(_, _, _)
PackOn(d, args, out, bytes) ==
  IF bytes = <<>> THEN Failed
  ELSE Pack(d.h, IF d.kind \in Silent THEN args ELSE Tail(args), out \o Zeros(d.pad) \o bytes[1])
PackNext(d, args, out) == IF d.kind = "error" THEN Failed ELSE PackOn(d, args, out, Item(d, IF args = <<>> THEN Val(0, <<>>) ELSE Head(args)))
Pack(h, args, out) ==
  IF h.p > Len(h.fmt) THEN [ok |-> TRUE, data |-> out] ELSE PackNext(GetDetails(h, Len(out)), args, out)
StrPack(fmt, args) == Pack(InitHeader(fmt), args, <<>>)

RECURSIVE Size(_, _)
SizeNext(d, total) == IF d.kind \in Varying \cup {"error"} THEN Failed ELSE Size(d.h, total + d.pad + d.size)
Size(h, total) == IF h.p > Len(h.fmt) THEN [ok |-> TRUE, size |-> total] ELSE SizeNext(GetDetails(h, total), total)
StrPackSize(fmt) == Size(InitHeader(fmt), 0)
-----------------------------------------------------------------------------
(* unpack: pos bytes are read; each option gives values and the number of  *)
(* bytes it read beyond its size.                                          *)
Got(vals, more) == [ok |-> TRUE, vals |-> vals, more |-> more]
GotInt(r) == IF r.ok THEN Got(<<Val(r.n, <<>>)>>, 0) ELSE Failed

StrLen(data, pos) == CHOOSE n \in 0..(Len(data) - pos) : (pos + n = Len(data) \/ data[pos + n + 1] = 0) /\ \A k \in 1..n : data[pos + k] # 0
\* size_t arithmetic, of the width of an integer.
GotString(data, pos, size, r) ==
  IF ~r.ok THEN Failed
  ELSE LET len == ToUnsigned(r.n)
       IN  IF ToUnsigned(pos + len + size) > Len(data) THEN Failed
           ELSE IF pos + len + size > Len(data) THEN Got(<<Val(0, <<"beyond">>)>>, len)
           ELSE Got(<<Val(0, SubSeq(data, pos + size + 1, pos + size + len))>>, len)
GotZstr(data, pos, len) == Got(<<Val(0, SubSeq(data, pos + 1, pos + len))>>, len + 1)

Value(d, data, pos) ==
  CASE d.kind \in {"int", "uint"} -> GotInt(UnpackInt(data, pos, d.size, d.h.little, d.kind = "int"))
    [] d.kind = "float" -> Got(<<Val(0, CopyWithEndian(SubSeq(data, pos + 1, pos + d.size), d.h.little))>>, 0)
    [] d.kind = "char" -> Got(<<Val(0, SubSeq(data, pos + 1, pos + d.size))>>, 0)
    [] d.kind = "string" -> GotString(data, pos, d.size, UnpackInt(data, pos, d.size, d.h.little, FALSE))
    [] d.kind = "zstr" -> GotZstr(data, pos, StrLen(data, pos))
    [] OTHER -> Got(<<>>, 0)

RECURSIVE Unpack(_, _, _, _)
UnpackOn(d, data, pos, vals, r) == IF r.ok THEN Unpack(d.h, data, pos + r.more, vals \o r.vals) ELSE Failed
UnpackNext(d, data, pos, vals) ==
  IF d.kind = "error" \/ pos + d.pad + d.size > Len(data) THEN Failed
  ELSE UnpackOn(d, data, pos + d.pad + d.size, vals, Value(d, data, pos + d.pad))
Unpack(h, data, pos, vals) ==
  IF h.p > Len(h.fmt) THEN [ok |-> TRUE, vals |-> vals, next |-> pos + 1] ELSE UnpackNext(GetDetails(h, pos), data, pos, vals)

StrUnpack(fmt, data, init) == IF init - 1 \in 0..Len(data) THEN Unpack(InitHeader(fmt), data, init - 1, <<>>) ELSE Failed
-----------------------------------------------------------------------------
(* An item of a format: its text, kind and size.                           *)
RECURSIVE TextOf(_)
TextOf(items) == IF items = <<>> THEN <<>> ELSE Head(items).text \o TextOf(Tail(items))

ValuesFor(item) ==
  CASE item.kind \in {"int", "uint"} -> {Val(n, <<>>) : n \in Ints}
    [] item.kind = "float" -> {Val(0, s) : s \in [1..item.size -> {0, 1, 2}]}
    [] OTHER -> {Val(0, s) : s \in Strings}
RECURSIVE Args(_)
Args(items) ==
  IF items = <<>> THEN {<<>>}
  ELSE IF Head(items).kind \in Silent THEN Args(Tail(items))
  ELSE {<<v>> \o rest : v \in ValuesFor(Head(items)), rest \in Args(Tail(items))}

Init ==
  /\ call \in {[op |-> "format", items |-> f, fmt |-> TextOf(f)] : f \in Formats}
              \cup {[op |-> "bad", items |-> <<>>, fmt |-> f] : f \in Malformed}
  /\ answer = <<>>

PackAndBack == call.op = "format" /\ \E args \in Args(call.items) :
  LET p == StrPack(call.fmt, args)
  IN  answer' = <<"pack", args, p, IF p.ok THEN StrUnpack(call.fmt, p.data, 1) ELSE Failed, StrPackSize(call.fmt)>>
ReadAny == call.op = "format" /\ \E data \in Data, init \in 0..2 : answer' = <<"unpack", data, init, StrUnpack(call.fmt, data, init)>>
Reject == call.op = "bad" /\ answer' = <<"bad", StrPackSize(call.fmt)>>

Next == answer = <<>> /\ (PackAndBack \/ ReadAny \/ Reject) /\ UNCHANGED call

Spec == Init /\ [][Next]_vars
-----------------------------------------------------------------------------
Asked(op) == answer # <<>> /\ answer[1] = op
Valued(items) == SelectSeq(items, LAMBDA i : i.kind \notin Silent)

\* What comes back of a value: a string of fixed size is filled up.
Back(item, v) == IF item.kind = "char" THEN Val(0, v.s \o Zeros(item.size - Len(v.s))) ELSE v
Fits(item, v) ==
  CASE item.kind = "int" -> item.size >= SzInt \/ (2 * v.n >= -Pow(item.size) /\ 2 * v.n < Pow(item.size))
    [] item.kind = "uint" -> item.size >= SzInt \/ v.n \in 0..(Pow(item.size) - 1)
    [] item.kind = "char" -> Len(v.s) <= item.size
    [] item.kind = "string" -> Len(v.s) < Pow(item.size)
    [] item.kind = "zstr" -> 0 \notin {v.s[k] : k \in DOMAIN v.s}
    [] OTHER -> TRUE

(***************************************************************************)
(* pack takes the values that fit their options and no others; unpack with *)
(* the same format gives them back and ends behind the data; packsize says *)
(* how long the data are.                                                  *)
(***************************************************************************)
PackedBack ==
  Asked("pack") =>
    LET items == Valued(call.items) args == answer[2] p == answer[3] IN
    /\ p.ok = (\A i \in DOMAIN items : Fits(items[i], args[i]))
    /\ p.ok => /\ answer[4] = [ok |-> TRUE, vals |-> [i \in DOMAIN items |-> Back(items[i], args[i])], next |-> Len(p.data) + 1]
               /\ answer[5] = IF \E i \in DOMAIN items : items[i].kind \in Varying THEN Failed ELSE [ok |-> TRUE, size |-> Len(p.data)]

(***************************************************************************)
(* unpack reads within the data it is given, from where it was told to;    *)
(* without padding, what it reads is what pack makes of the values.  A     *)
(* position outside the data is an error, and so is a string without its   *)
(* zero for the options behind it.                                         *)
(***************************************************************************)
ReadsBack ==
  Asked("unpack") =>
    LET data == answer[2] init == answer[3] r == answer[4]
        plain == \A i \in DOMAIN call.items :
                   call.items[i].kind \notin {"padding", "paddalign"} /\ call.items[i].size <= SzInt /\ call.items[i].text[1] # "!"
        wide == \E i \in DOMAIN call.items : call.items[i].kind = "string" /\ call.items[i].size >= SzInt
    IN  /\ init - 1 \notin 0..Len(data) => ~r.ok
        /\ r.ok /\ ~wide =>
             /\ r.next <= Len(data) + 2
             /\ plain /\ r.next <= Len(data) + 1 /\ StrPack(call.fmt, r.vals).ok =>
                  LET again == StrPack(call.fmt, r.vals).data
                  IN  init = 1 => SubSeq(data, 1, r.next - 1) = again

(***************************************************************************)
(* What is no format raises an error.                                      *)
(***************************************************************************)
MalformedFormats == Asked("bad") => answer[2] = Failed
=============================================================================
