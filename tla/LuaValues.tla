------------------------------ MODULE LuaValues ------------------------------
(***************************************************************************)
(* Numbers and strings as values: the conversions between integers,        *)
(* floats and numerals (lobject.c, lvm.c), arithmetic on integers, the     *)
(* comparison of all of them, the numeric for loop, and the functions of   *)
(* lmathlib.c that tell integers from floats.                              *)
(* Integers have Bits bits.  A float is counted in quarters; its mantissa  *)
(* has Mant bits, so that integers beyond 2^Mant need not have a float of  *)
(* the same value.                                                         *)
(***************************************************************************)
EXTENDS Integers, Sequences, FiniteSets

CONSTANTS
  Bits, Mant,
  Huge,                     \* stands for infinity, in quarters
  Numerals,                 \* texts to convert
  Texts,                    \* strings to compare, of codes, 0 for '\0'
  Steps, Limits,            \* of for loops
  Naturals_,                \* for sizes
  TableBits                 \* 2^TableBits entries in log_2

VARIABLES call, answer
vars == <<call, answer>>

MaxInteger == 2^(Bits - 1) - 1
MinInteger == -(2^(Bits - 1))
Integers_ == MinInteger..MaxInteger
Wrap(n) == ((n - MinInteger) % 2^Bits) + MinInteger
Abs(n) == IF n < 0 THEN -n ELSE n
Range(q) == {q[i] : i \in DOMAIN q}

Quarter == 4
NaN == Huge + 1
Integer(n) == [k |-> "int", n |-> n, s |-> <<>>]
Float(q) == [k |-> "float", n |-> q, s |-> <<>>]
Str(s) == [k |-> "str", n |-> 0, s |-> s]
None == [k |-> "none", n |-> 0, s |-> <<>>]
Error == [k |-> "error", n |-> 0, s |-> <<>>]

\* The nearest float, the even one of two.
RECURSIVE Unit(_)
Unit(n) == IF n < 2^Mant THEN 1 ELSE 2 * Unit(n \div 2)
RoundUp(n) == LET u == Unit(n) r == n % u IN
  IF 2 * r < u \/ (2 * r = u /\ (n \div u) % 2 = 0) THEN n - r ELSE n - r + u
Rounded(q) == IF q < 0 THEN -RoundUp(-q) ELSE RoundUp(q)
Floats == {q \in (-Quarter * 4 * MaxInteger)..(Quarter * 4 * MaxInteger) : Rounded(q) = q} \cup {-Huge, Huge, NaN}
CastNum(i) == Rounded(Quarter * i)

FloatLt(a, b) == a # NaN /\ b # NaN /\ a < b
FloatLe(a, b) == a # NaN /\ b # NaN /\ a <= b
Floor(q) == IF Abs(q) >= Huge THEN q ELSE (q \div Quarter) * Quarter
-----------------------------------------------------------------------------
(* Numerals.  A character is a string of length one.                       *)
Space == {" "}
Digits == [c \in {"0", "1", "2", "3", "4", "5", "6", "7", "8", "9"} |->
            CHOOSE d \in 0..9 : <<"0", "1", "2", "3", "4", "5", "6", "7", "8", "9">>[d + 1] = c]
Letters == [c \in {"a", "b", "f"} |-> IF c = "a" THEN 10 ELSE IF c = "b" THEN 11 ELSE 15]
HexaValue(c) == IF c \in DOMAIN Digits THEN Digits[c] ELSE Letters[c]
IsXDigit(c) == c \in DOMAIN Digits \cup DOMAIN Letters
At(s, i) == IF i \in DOMAIN s THEN s[i] ELSE "end"

RECURSIVE SkipSpaces(_)
SkipSpaces(s) == IF At(s, 1) \in Space THEN SkipSpaces(Tail(s)) ELSE s
IsNeg(s) == At(s, 1) = "-"
SkipSign(s) == IF At(s, 1) \in {"-", "+"} THEN Tail(s) ELSE s

\* What is read so far: the value, whether there was a digit, and the rest.
Read(a, empty, s) == [a |-> a, empty |-> empty, s |-> s]
Overflowed == Read(-1, TRUE, <<>>)
RECURSIVE HexDigits(_)
HexDigits(r) == IF ~IsXDigit(At(r.s, 1)) THEN r
                ELSE HexDigits(Read((r.a * 16 + HexaValue(r.s[1])) % 2^Bits, FALSE, Tail(r.s)))
TooLarge(a, d, neg) == a >= MaxInteger \div 10 /\ (a > MaxInteger \div 10 \/ d > (MaxInteger % 10) + neg)
RECURSIVE DecDigits(_, _)
DecDigits(r, neg) ==
  IF At(r.s, 1) \notin DOMAIN Digits THEN r
  ELSE IF TooLarge(r.a, Digits[r.s[1]], neg) THEN Overflowed
  ELSE DecDigits(Read(r.a * 10 + Digits[r.s[1]], FALSE, Tail(r.s)), neg)
IntDigits(s, neg) ==
  IF At(s, 1) = "0" /\ At(s, 2) = "x" THEN HexDigits(Read(0, TRUE, SubSeq(s, 3, Len(s))))
  ELSE DecDigits(Read(0, TRUE, s), neg)
ToInt(r, neg) == IF r.empty \/ SkipSpaces(r.s) # <<>> THEN None ELSE Integer(Wrap(IF neg = 1 THEN -r.a ELSE r.a))
Signed(s, neg) == ToInt(IntDigits(SkipSign(s), neg), neg)
Str2Int(s) == LET t == SkipSpaces(s) IN Signed(t, IF IsNeg(t) THEN 1 ELSE 0)

\* strtod, for digits with at most one behind the point.
RECURSIVE Decimal(_, _)
Decimal(a, s) == IF At(s, 1) \in DOMAIN Digits THEN Decimal(a * 10 + Digits[s[1]], Tail(s)) ELSE [a |-> a, s |-> s]
Fraction(r) ==
  IF At(r.s, 1) # "." THEN [q |-> Quarter * r.a, s |-> r.s]
  ELSE IF At(r.s, 2) \in {"0", "5"}
    THEN [q |-> Quarter * r.a + (IF r.s[2] = "5" THEN Quarter \div 2 ELSE 0), s |-> SubSeq(r.s, 3, Len(r.s))]
  ELSE [q |-> Quarter * r.a, s |-> Tail(r.s)]
StrToD(s) ==
  LET t == SkipSpaces(s) d == SkipSign(t) r == Fraction(Decimal(0, d))
  IN  IF At(d, 1) \notin DOMAIN Digits /\ ~(At(d, 1) = "." /\ At(d, 2) \in {"0", "5"}) THEN [ok |-> FALSE, q |-> 0, s |-> s]
      ELSE [ok |-> TRUE, q |-> Rounded(IF IsNeg(t) THEN -r.q ELSE r.q), s |-> r.s]

Str2DLoc(r) == IF r.ok /\ SkipSpaces(r.s) = <<>> THEN Float(r.q) ELSE None
Str2D(s) == IF Range(s) \cap {"n", "N"} # {} THEN None ELSE Str2DLoc(StrToD(s))
Either(i, s) == IF i = None THEN Str2D(s) ELSE i
Str2Num(s) == Either(Str2Int(s), s)

RECURSIVE DigitsOf(_)
DigitsOf(n) == LET c == CHOOSE x \in DOMAIN Digits : Digits[x] = n % 10
               IN  IF n < 10 THEN <<c>> ELSE Append(DigitsOf(n \div 10), c)
SignOf(n) == IF n < 0 THEN <<"-">> ELSE <<>>
LooksLikeInt(t) == Range(t) \subseteq DOMAIN Digits \cup {"-"}
AddPoint(t) == IF LooksLikeInt(t) THEN t \o <<".", "0">> ELSE t
\* "%d", and "%.14g" of halves.
ToString(v) ==
  IF v.k = "int" THEN SignOf(v.n) \o DigitsOf(Abs(v.n))
  ELSE AddPoint(SignOf(v.n) \o DigitsOf(Abs(v.n) \div Quarter) \o IF v.n % Quarter = 0 THEN <<>> ELSE <<".", "5">>)
-----------------------------------------------------------------------------
(* Conversions of values.                                                  *)
Number(v) == IF v.k = "str" THEN Str2Num(v.s) ELSE v
AsFloat(v) == CASE v.k = "int" -> Float(CastNum(v.n)) [] v.k = "float" -> v [] OTHER -> None
ToNumber(v) == AsFloat(Number(v))

NumberToInteger(q) == IF q # NaN /\ q >= Quarter * MinInteger /\ q < -(Quarter * MinInteger) THEN Integer(q \div Quarter) ELSE None
Integral(q, mode) == (q = Floor(q) /\ q # NaN) \/ mode > 0
Towards(q, mode) == IF Floor(q) # q /\ mode > 1 THEN Floor(q) + Quarter ELSE Floor(q)
FloatToInteger(q, mode) == IF Integral(q, mode) THEN NumberToInteger(Towards(q, mode)) ELSE None
AsInteger(v, mode) == CASE v.k = "float" -> FloatToInteger(v.n, mode) [] v.k = "int" -> v [] OTHER -> None
ToInteger(v, mode) == AsInteger(Number(v), mode)
-----------------------------------------------------------------------------
(* Arithmetic on integers.                                                 *)
TruncDiv(m, n) == (IF (m < 0) = (n < 0) THEN 1 ELSE -1) * (Abs(m) \div Abs(n))
Remainder(m, n) == m - n * TruncDiv(m, n)
Div(m, n) ==
  CASE n = 0 -> Error
    [] n = -1 -> Integer(Wrap(-m))
    [] OTHER -> Integer(TruncDiv(m, n) - IF (m < 0) # (n < 0) /\ Remainder(m, n) # 0 THEN 1 ELSE 0)
Mod(m, n) ==
  CASE n = 0 -> Error
    [] n = -1 -> Integer(0)
    [] OTHER -> Integer(Remainder(m, n) + IF Remainder(m, n) # 0 /\ (m < 0) # (n < 0) THEN n ELSE 0)

Unsigned(n) == n % 2^Bits
BitSet(n) == {i \in 0..(Bits - 1) : (Unsigned(n) \div 2^i) % 2 = 1}
RECURSIVE OfBits(_)
OfBits(S) == IF S = {} THEN 0 ELSE LET i == CHOOSE x \in S : TRUE IN 2^i + OfBits(S \ {i})
ShiftL(x, y) ==
  IF y < 0 THEN IF y <= -Bits THEN 0 ELSE Wrap(Unsigned(x) \div 2^(-y))
  ELSE IF y >= Bits THEN 0 ELSE Wrap(x * 2^y)

IntArith(op, a, b) ==
  CASE op = "+" -> Integer(Wrap(a + b))
    [] op = "-" -> Integer(Wrap(a - b))
    [] op = "*" -> Integer(Wrap(a * b))
    [] op = "%" -> Mod(a, b)
    [] op = "//" -> Div(a, b)
    [] op = "&" -> Integer(Wrap(OfBits(BitSet(a) \cap BitSet(b))))
    [] op = "|" -> Integer(Wrap(OfBits(BitSet(a) \cup BitSet(b))))
    [] op = "~" -> Integer(Wrap(OfBits((BitSet(a) \ BitSet(b)) \cup (BitSet(b) \ BitSet(a)))))
    [] op = "<<" -> Integer(ShiftL(a, b))
    [] op = ">>" -> Integer(ShiftL(a, Wrap(-b)))
    [] op = "unm" -> Integer(Wrap(-a))
    [] op = "bnot" -> Integer(Wrap(OfBits((0..(Bits - 1)) \ BitSet(a))))

BitOps == {"&", "|", "~", "<<", ">>", "bnot"}
FloatOps == {"/", "^"}
\* none: a metamethod is tried; of a float, only that it is one.
FloatArith(x, y) == IF x # None /\ y # None THEN Float(0) ELSE None
BitArith(op, x, y) == IF x # None /\ y # None THEN IntArith(op, x.n, y.n) ELSE None
Arith(op, p, q) ==
  IF op \in BitOps THEN BitArith(op, ToInteger(p, 0), ToInteger(q, 0))
  ELSE IF op \notin FloatOps /\ p.k = "int" /\ q.k = "int" THEN IntArith(op, p.n, q.n)
  ELSE FloatArith(ToNumber(p), ToNumber(q))
-----------------------------------------------------------------------------
(* Comparison.                                                             *)
IntFitsF(i) == i \in -(2^Mant)..2^Mant
IntPart(q) == (IF q < 0 THEN -1 ELSE 1) * (Abs(q) \div Quarter)
\* Faulty: an integer is rounded to a float to compare it.
LTRounded(i, f) == FloatLt(CastNum(i), f)
LTIntFloat(i, f) ==
  IF IntFitsF(i) THEN FloatLt(CastNum(i), f)
  ELSE IF FloatLe(-(Quarter * MinInteger), f) THEN TRUE
  ELSE FloatLt(Quarter * MinInteger, f) /\ i < IntPart(f)
LEIntFloat(i, f) ==
  IF IntFitsF(i) THEN FloatLe(CastNum(i), f)
  ELSE IF FloatLe(-(Quarter * MinInteger), f) THEN TRUE
  ELSE FloatLe(Quarter * MinInteger, f) /\ i <= IntPart(f)

LTNum(l, r) ==
  CASE l.k = "int" /\ r.k = "int" -> l.n < r.n
    [] l.k = "int" /\ r.k = "float" -> LTIntFloat(l.n, r.n)
    [] l.k = "float" /\ r.k = "float" -> FloatLt(l.n, r.n)
    [] l.k = "float" /\ r.k = "int" -> l.n # NaN /\ ~LEIntFloat(r.n, l.n)
LENum(l, r) ==
  CASE l.k = "int" /\ r.k = "int" -> l.n <= r.n
    [] l.k = "int" /\ r.k = "float" -> LEIntFloat(l.n, r.n)
    [] l.k = "float" /\ r.k = "float" -> FloatLe(l.n, r.n)
    [] l.k = "float" /\ r.k = "int" -> l.n # NaN /\ ~LTIntFloat(r.n, l.n)
SameInteger(x, y) == x # None /\ y # None /\ x = y
EqualNum(l, r) ==
  CASE l.k = r.k -> l.n = r.n /\ l # Float(NaN)
    [] OTHER -> SameInteger(ToInteger(l, 0), ToInteger(r, 0))

\* strcoll sees a string up to its first '\0'.
Segment(s) == SubSeq(s, 1, (CHOOSE i \in 1..(Len(s) + 1) : At(s \o <<0>>, i) = 0 /\ \A j \in 1..(i - 1) : s[j] # 0) - 1)
StrColl(a, b) ==
  LET D == {i \in 1..(Len(a) + 1) : i > Len(b) \/ i > Len(a) \/ a[i] # b[i]}
      i == CHOOSE x \in D : \A y \in D : x <= y
  IN  IF a = b THEN 0 ELSE IF i > Len(a) THEN -1 ELSE IF i > Len(b) THEN 1 ELSE IF a[i] < b[i] THEN -1 ELSE 1
RECURSIVE StrCmp(_, _, _)
StrCmp(l, r, temp) ==
  LET len == Len(Segment(l)) IN
  IF temp # 0 THEN temp
  ELSE IF len = Len(r) THEN IF len = Len(l) THEN 0 ELSE 1
  ELSE IF len = Len(l) THEN -1
  ELSE LET rest == SubSeq(l, len + 2, Len(l)) other == SubSeq(r, len + 2, Len(r))
       IN  StrCmp(rest, other, StrColl(Segment(rest), Segment(other)))
LStrCmp(l, r) == StrCmp(l, r, StrColl(Segment(l), Segment(r)))
-----------------------------------------------------------------------------
(* The numeric for loop.                                                   *)
Limit(p, stop) == [ok |-> TRUE, p |-> p, stop |-> stop]
BeyondIntegers(n, step) ==
  IF n = None THEN [ok |-> FALSE, p |-> 0, stop |-> FALSE]
  ELSE IF FloatLt(0, n.n) THEN Limit(MaxInteger, step < 0) ELSE Limit(MinInteger, step >= 0)
ForLimit(v, step) ==
  LET i == ToInteger(v, IF step < 0 THEN 2 ELSE 1)
  IN  IF i # None THEN Limit(i.n, FALSE) ELSE BeyondIntegers(ToNumber(v), step)

\* The values of the variable, at most as many as there are integers.
RECURSIVE ForLoop(_, _, _, _)
ForLoop(idx, limit, step, seen) ==
  LET next == Wrap(idx + step) IN
  IF Len(seen) > 2^Bits \/ ~(IF 0 < step THEN next <= limit ELSE limit <= next) THEN seen
  ELSE ForLoop(next, limit, step, Append(seen, next))
ForPrep(init, l, step) ==
  IF l.ok THEN ForLoop(Wrap((IF l.stop THEN 0 ELSE init) - step), l.p, step, <<>>) ELSE <<"error">>
-----------------------------------------------------------------------------
(* lmathlib.c.                                                             *)
PushNumInt(q) == IF NumberToInteger(q) # None THEN NumberToInteger(q) ELSE Float(q)
Ceil(q) == -Floor(-q)
MathAbs(v) == IF v.k = "int" THEN Integer(Wrap(Abs(v.n))) ELSE Float(IF v.n = NaN THEN NaN ELSE Abs(v.n))
MathFloor(v) == IF v.k = "int" THEN v ELSE PushNumInt(Floor(v.n))
MathCeil(v) == IF v.k = "int" THEN v ELSE PushNumInt(IF v.n = NaN THEN NaN ELSE Ceil(v.n))
MathModf(v) ==
  IF v.k = "int" THEN <<v, Float(0)>>
  ELSE LET ip == IF FloatLt(v.n, 0) THEN Ceil(v.n) ELSE Floor(v.n)
       IN  <<PushNumInt(ip), Float(IF v.n = NaN THEN NaN ELSE IF v.n = ip THEN 0 ELSE v.n - ip)>>
MathFmod(a, b) == IF b = 0 THEN Error ELSE IF b = -1 THEN Integer(0) ELSE Integer(Remainder(a, b))
MathUlt(a, b) == Unsigned(a) < Unsigned(b)
RECURSIVE MinIndex(_, _, _)
MinIndex(vs, i, imin) == IF i > Len(vs) THEN imin ELSE MinIndex(vs, i + 1, IF LTNum(vs[i], vs[imin]) THEN i ELSE imin)
MathMin(vs) == vs[MinIndex(vs, 2, 1)]
RECURSIVE MaxIndex(_, _, _)
MaxIndex(vs, i, imax) == IF i > Len(vs) THEN imax ELSE MaxIndex(vs, i + 1, IF LTNum(vs[imax], vs[i]) THEN i ELSE imax)
MathMax(vs) == vs[MaxIndex(vs, 2, 1)]

\* r of m, the random number in 0..1 as a fraction.
MathRandom(low, up, r, m) ==
  IF low > up \/ ~(low >= 0 \/ up <= MaxInteger + low) THEN Error
  ELSE Integer(((r * (up - low + 1)) \div m) + low)
-----------------------------------------------------------------------------
(* Sizes: the floating point byte, and the logarithm.                      *)
RECURSIVE Coarse(_)
Coarse(f) == IF f.x < 128 THEN f ELSE Coarse([x |-> (f.x + 15) \div 16, e |-> f.e + 4])
RECURSIVE Fine(_)
Fine(f) == IF f.x < 16 THEN f ELSE Fine([x |-> (f.x + 1) \div 2, e |-> f.e + 1])
Int2Fb(x) == IF x < 8 THEN x ELSE LET f == Fine(Coarse([x |-> x, e |-> 0])) IN (f.e + 1) * 8 + (f.x - 8)
Fb2Int(b) == IF b < 8 THEN b ELSE ((b % 8) + 8) * 2^((b \div 8) - 1)

Log2(i) == CHOOSE l \in 0..TableBits : 2^l >= i + 1 /\ (l = 0 \/ 2^(l - 1) < i + 1)
RECURSIVE Chunks(_, _)
Chunks(l, x) == IF x < 2^TableBits THEN l + Log2(x) ELSE Chunks(l + TableBits, x \div 2^TableBits)
CeilLog2(x) == Chunks(0, x - 1)
-----------------------------------------------------------------------------
Ints == {Integer(n) : n \in Integers_}
Numbers == Ints \cup {Float(q) : q \in Floats}
Edges == {Integer(n) : n \in {MinInteger, -1, 0, 3, MaxInteger}}
         \cup {Float(q) : q \in {-Huge, Huge, NaN, 6, -6, 8, Quarter * MinInteger, -(Quarter * MinInteger)}}
         \cup {Str(s) : s \in Numerals}

Init == call = <<>> /\ answer = <<>>

Ask(what, reply) == call' = what /\ answer' = reply
Compare == \E l, r \in Numbers : Ask(<<"compare", l, r>>, <<LTNum(l, r), LENum(l, r), EqualNum(l, r)>>)
Order == \E l, r \in Texts : Ask(<<"order", l, r>>, LStrCmp(l, r))
Compute == \E op \in {"+", "-", "*", "%", "//", "&", "|", "~", "<<", ">>", "unm", "bnot"}, l, r \in Ints :
             Ask(<<"compute", op, l.n, r.n>>, Arith(op, l, r))
Mix == \E op \in {"+", "/", "^", "%", "|", "<<"}, l, r \in Edges : Ask(<<"mix", op, l, r>>, Arith(op, l, r))
Loop == \E init \in Integers_, step \in Steps, limit \in Limits :
          Ask(<<"loop", init, step, limit>>, ForPrep(init, ForLimit(limit, step), step))
Convert == \E s \in Numerals : Ask(<<"convert", s>>, Str2Num(s))
Format == \E v \in {x \in Numbers : x.k = "int" \/ (x.n \notin {-Huge, Huge, NaN} /\ x.n % 2 = 0)} :
            Ask(<<"print", v>>, Str2Num(ToString(v)))
Round == \E v \in Numbers : Ask(<<"round", v>>, <<MathFloor(v), MathCeil(v), MathModf(v), MathAbs(v), ToInteger(v, 0)>>)
Divide == \E a, b \in Integers_ : Ask(<<"divide", a, b>>, <<MathFmod(a, b), MathUlt(a, b)>>)
Extreme == \E a, b, c \in {v \in Edges : v.k # "str" /\ v # Float(NaN)} :
             Ask(<<"extreme", <<a, b, c>>>>, <<MathMin(<<a, b, c>>), MathMax(<<a, b, c>>)>>)
Random == \E low, up \in Integers_ : Ask(<<"random", low, up>>, [r \in 0..(2^Bits - 1) |-> MathRandom(low, up, r, 2^Bits)])
Size == \E n \in Naturals_ : Ask(<<"size", n>>, <<Fb2Int(Int2Fb(n)), CeilLog2(n)>>)

Next == call = <<>> /\ (Compare \/ Order \/ Compute \/ Mix \/ Loop \/ Convert \/ Format \/ Round \/ Divide \/ Extreme \/ Random \/ Size)

Spec == Init /\ [][Next]_vars
-----------------------------------------------------------------------------
Asked(op) == call # <<>> /\ call[1] = op
\* The value of a number that is one, in quarters.
Exact(v) == IF v.k = "int" THEN Quarter * v.n ELSE v.n
IsNumber(v) == v # Float(NaN)

Before(l, r) == \E i \in 1..Len(r) : /\ Len(l) >= i - 1
                                     /\ SubSeq(l, 1, i - 1) = SubSeq(r, 1, i - 1)
                                     /\ Len(l) < i \/ l[i] < r[i]
Lexicographic(l, r) == IF l = r THEN 0 ELSE IF Before(l, r) THEN -1 ELSE 1

(***************************************************************************)
(* Numbers compare by their exact values, integers with floats too, though *)
(* not every integer has a float of its value; nothing compares with NaN.  *)
(* Strings are ordered character by character, through zeros in them.      *)
(***************************************************************************)
ComparesExactly ==
  /\ Asked("compare") =>
       LET l == call[2] r == call[3] ok == IsNumber(l) /\ IsNumber(r)
       IN  answer = <<ok /\ Exact(l) < Exact(r), ok /\ Exact(l) <= Exact(r), ok /\ Exact(l) = Exact(r)>>
  /\ Asked("order") => answer = Lexicographic(call[2], call[3])
  /\ Asked("extreme") => \A i \in 1..3 : Exact(answer[1]) <= Exact(call[2][i]) /\ Exact(answer[2]) >= Exact(call[2][i])

FloorDiv(a, b) == IF b > 0 THEN a \div b ELSE (-a) \div (-b)
(***************************************************************************)
(* Division rounds down, the rest has the sign of the divisor, shifts give *)
(* zeros, and everything wraps around; numerals count as numbers, for bits *)
(* if they are integral.                                                   *)
(***************************************************************************)
ComputesRight ==
  /\ Asked("compute") =>
       LET op == call[2] a == call[3] b == call[4] IN
       CASE op \in {"//", "%"} /\ b = 0 -> answer = Error
         [] op = "//" /\ b # 0 -> answer.n = Wrap(FloorDiv(a, b))
         [] op = "%" /\ b # 0 -> /\ a - answer.n = b * FloorDiv(a, b)
                                 /\ answer.n = 0 \/ (answer.n < 0) = (b < 0)
         [] op = "<<" /\ b >= 0 -> answer.n = Wrap(a * 2^b)
         [] op = ">>" /\ b >= 0 -> Unsigned(answer.n) = Unsigned(a) \div 2^b
         [] op = "bnot" -> answer.n = -a - 1
         [] op = "~" -> answer.n = Wrap(IntArith("|", a, b).n - IntArith("&", a, b).n)
         [] OTHER -> answer.k = "int"
  /\ Asked("mix") =>
       LET op == call[2] l == Number(call[3]) r == Number(call[4]) IN
       /\ (answer = None) = (l = None \/ r = None \/ (op \in BitOps /\ (AsInteger(l, 0) = None \/ AsInteger(r, 0) = None)))
       /\ answer.k = "int" => op \notin FloatOps
  /\ Asked("divide") =>
       LET a == call[2] b == call[3] m == answer[1].n IN
       /\ b = 0 => answer[1] = Error
       /\ b # 0 => Abs(m) < Abs(b) /\ (a - m) % Abs(b) = 0 /\ (m = 0 \/ (m < 0) = (a < 0))
       /\ answer[2] = (IF (a < 0) = (b < 0) THEN a < b ELSE b < 0)
  /\ Asked("random") =>
       LET low == call[2] up == call[3] got == {answer[r].n : r \in DOMAIN answer} IN
       IF low <= up /\ up - low <= MaxInteger THEN got = low..up ELSE \A r \in DOMAIN answer : answer[r] = Error

\* The integers of a loop, as far as counting does not wrap around.
RECURSIVE Meant(_, _, _)
Meant(i, limit, step) ==
  IF i \notin Integers_ \/ ~(IF step > 0 THEN Quarter * i <= limit ELSE Quarter * i >= limit) THEN <<>>
  ELSE <<i>> \o Meant(i + step, limit, step)
(***************************************************************************)
(* A loop of integers counts to its limit, a float or a numeral too, and   *)
(* one that no integer reaches; only a step that leaves the integers makes *)
(* it go on behind them.                                                   *)
(***************************************************************************)
LoopsToLimit ==
  Asked("loop") =>
    LET limit == Number(call[4])
        all == Meant(call[2], Exact(limit), call[3])
    IN  IF limit = None THEN answer = <<"error">>
        ELSE IF limit = Float(NaN) THEN call[3] > 0 => answer = <<>>
        ELSE /\ SubSeq(answer, 1, Len(all)) = all
             /\ all # <<>> /\ all[Len(all)] + call[3] \in Integers_ => answer = all
             /\ all = <<>> => answer = <<>>

(***************************************************************************)
(* A number that is printed is read back as the same number, integer or    *)
(* float; a numeral too large for an integer becomes a float; floor and    *)
(* ceil give integers where there are some; a size is rounded up by less   *)
(* than an eighth, and the logarithm up to the next integer.               *)
(***************************************************************************)
ConvertsBack ==
  /\ Asked("print") => answer = call[2]
  /\ Asked("convert") /\ answer.k = "float" => Str2Int(call[2]) = None
  /\ Asked("round") =>
       LET v == call[2] inside == IsNumber(v) /\ Abs(Exact(v)) < Huge IN
       /\ inside => /\ Exact(answer[1]) \in (Exact(v) - Quarter + 1)..Exact(v) /\ Exact(answer[1]) % Quarter = 0
                    /\ Exact(answer[2]) \in Exact(v)..(Exact(v) + Quarter - 1) /\ Exact(answer[2]) % Quarter = 0
                    /\ Exact(answer[3][1]) + answer[3][2].n = Exact(v) /\ Abs(answer[3][2].n) < Quarter
                    /\ \A i \in 1..2 : (answer[i].k = "int") = (Exact(answer[i]) \in {Quarter * n : n \in Integers_})
       /\ answer[5] = IF inside /\ Exact(v) \in {Quarter * n : n \in Integers_} THEN Integer(Exact(v) \div Quarter) ELSE None
  /\ Asked("size") => /\ answer[1] \in call[2]..(call[2] + (call[2] \div 8))
                      /\ 2^answer[2] >= call[2] /\ (answer[2] = 0 \/ 2^(answer[2] - 1) < call[2])
=============================================================================
