------------------------------- MODULE LuaUtf8 -------------------------------
(***************************************************************************)
(* lutf8lib.c and the encoder of lobject.c.  A string is a sequence of     *)
(* bytes, followed by a zero that the functions may read but not pass.     *)
(* Positions are those of the library, from 1.                             *)
(***************************************************************************)
EXTENDS Integers, Sequences

CONSTANTS CodePoints, Strings, MaxChars

VARIABLES call, answer
vars == <<call, answer>>

MaxUnicode == 1114111
Invalid == -1
Error == <<Invalid>>
Nil == <<-2>>
At(s, i) == IF i \in DOMAIN s THEN s[i] ELSE 0
IsCont(s, i) == At(s, i) \div 64 = 2
-----------------------------------------------------------------------------
\* luaO_utf8esc: from the last byte to the first, while x does not fit in it.
RECURSIVE Continued(_, _, _)
Continued(x, mfb, bytes) ==
  IF x <= mfb THEN <<(((255 - mfb) * 2) % 256) + x>> \o bytes
  ELSE Continued(x \div 64, mfb \div 2, <<128 + (x % 64)>> \o bytes)
Utf8Esc(x) == IF x < 128 THEN <<x>> ELSE Continued(x \div 64, 31, <<128 + (x % 64)>>)

Decoded(code, next) == [code |-> code, next |-> next]
Limits == <<127, 2047, 65535>>
\* The bits of the first byte follow those of count continuation bytes.
Composed(c, res, count, next) ==
  LET code == res + ((c % 128) * 2^(count * 5))
  IN  IF count > 3 \/ count = 0 \/ code > MaxUnicode \/ code <= Limits[count] THEN Decoded(Invalid, 0) ELSE Decoded(code, next)
RECURSIVE Decode(_, _, _, _, _)
Decode(s, i, c, res, count) ==
  IF (c \div 64) % 2 = 0 THEN IF count > 3 THEN Decoded(Invalid, 0) ELSE Composed(c, res, count, i + count + 1)
  ELSE IF ~IsCont(s, i + count + 1) THEN Decoded(Invalid, 0)
  ELSE Decode(s, i, (c * 2) % 256, (res * 64 + (At(s, i + count + 1) % 64)) % 2^24, count + 1)
Utf8Decode(s, i) == IF At(s, i) < 128 THEN Decoded(At(s, i), i + 1) ELSE Decode(s, i, At(s, i), 0, 0)

PosRelat(pos, len) == IF pos >= 0 THEN pos ELSE IF -pos > len THEN 0 ELSE len + pos + 1

\* The number of characters, or nil and where decoding failed.
RECURSIVE Count(_, _, _, _)
Count(s, i, j, n) ==
  IF i > j THEN <<n>>
  ELSE LET d == Utf8Decode(s, i) IN IF d.code = Invalid THEN <<-2, i>> ELSE Count(s, d.next, j, n + 1)
UtfLen(s, i, j) ==
  LET posi == PosRelat(i, Len(s)) posj == PosRelat(j, Len(s))
  IN  IF posi \notin 1..(Len(s) + 1) \/ posj > Len(s) THEN Error ELSE Count(s, posi, posj, 0)

RECURSIVE Codes(_, _, _, _)
Codes(s, i, e, codes) ==
  IF i > e THEN codes
  ELSE LET d == Utf8Decode(s, i) IN IF d.code = Invalid THEN Error ELSE Codes(s, d.next, e, Append(codes, d.code))
CodePoint(s, i, j) ==
  LET posi == PosRelat(i, Len(s)) pose == PosRelat(j, Len(s))
  IN  IF posi < 1 \/ pose > Len(s) THEN Error ELSE Codes(s, posi, pose, <<>>)

RECURSIVE UtfChar(_)
UtfChar(codes) ==
  IF codes = <<>> THEN <<>>
  ELSE LET rest == UtfChar(Tail(codes))
       IN  IF codes[1] \notin 0..MaxUnicode \/ rest = Error THEN Error ELSE Utf8Esc(codes[1]) \o rest

RECURSIVE Begin(_, _)
Begin(s, i) == IF i > 1 /\ IsCont(s, i) THEN Begin(s, i - 1) ELSE i
RECURSIVE End(_, _)
End(s, i) == IF IsCont(s, i) THEN End(s, i + 1) ELSE i
RECURSIVE MoveBack(_, _, _)
MoveBack(s, n, i) == IF n < 0 /\ i > 1 THEN MoveBack(s, n + 1, Begin(s, i - 1)) ELSE [n |-> n, i |-> i]
RECURSIVE MoveOn(_, _, _)
MoveOn(s, n, i) == IF n > 0 /\ i <= Len(s) THEN MoveOn(s, n - 1, End(s, i + 1)) ELSE [n |-> n, i |-> i]
Moved(m) == IF m.n = 0 THEN <<m.i>> ELSE Nil
ByteOffset(s, n, i) ==
  LET posi == PosRelat(i, Len(s)) IN
  IF posi \notin 1..(Len(s) + 1) THEN Error
  ELSE IF n = 0 THEN <<Begin(s, posi)>>
  ELSE IF IsCont(s, posi) THEN Error
  ELSE Moved(IF n < 0 THEN MoveBack(s, n, posi) ELSE MoveOn(s, n - 1, posi))

\* What follows position n in an iteration: nothing, an error, or where the
\* next character is and which it is.
Visited(s, i, d) == IF d.code = Invalid \/ IsCont(s, d.next) THEN Error ELSE <<i, d.code>>
IterAux(s, n) ==
  LET i == IF n < 1 THEN 1 ELSE IF n <= Len(s) THEN End(s, n + 1) ELSE n
  IN  IF i > Len(s) THEN <<>> ELSE Visited(s, i, Utf8Decode(s, i))
RECURSIVE IterCodes(_, _, _)
IterCodes(s, step, all) ==
  IF step = <<>> THEN all ELSE IF step = Error THEN Append(all, Error) ELSE IterCodes(s, IterAux(s, step[1]), Append(all, step))
-----------------------------------------------------------------------------
Init ==
  /\ call \in {<<"codes", c>> : c \in UNION {[1..n -> CodePoints] : n \in 0..MaxChars}} \cup {<<"bytes", s>> : s \in Strings}
  /\ answer = <<>>
Text == IF call[1] = "bytes" THEN call[2] ELSE UtfChar(call[2])

Encode == call[1] = "codes" /\ answer' = <<"text", UtfChar(call[2])>>
Measure == Text # Error /\ \E i \in 1..2 : answer' = <<"len", i, UtfLen(Text, i, -1)>>
Extract == Text # Error /\ \E j \in {-1, 1} : answer' = <<"code", j, CodePoint(Text, 1, j)>>
Iterate == Text # Error /\ answer' = <<"iterate", IterCodes(Text, IterAux(Text, 0), <<>>)>>
Locate == Text # Error /\ \E n \in -MaxChars..(MaxChars + 1), i \in {1, -1, 2} :
            answer' = <<"offset", n, i, ByteOffset(Text, n, IF i = -1 THEN Len(Text) + 1 ELSE i)>>

Next == answer = <<>> /\ (Encode \/ Measure \/ Extract \/ Iterate \/ Locate) /\ UNCHANGED call

Spec == Init /\ [][Next]_vars
-----------------------------------------------------------------------------
Asked(op) == answer # <<>> /\ answer[1] = op

\* The bytes of a code point, and the code point that bytes are those of.
Bytes(x) ==
  CASE x < 128 -> <<x>>
    [] x \in 128..2047 -> <<192 + (x \div 64), 128 + (x % 64)>>
    [] x \in 2048..65535 -> <<224 + (x \div 4096), 128 + ((x \div 64) % 64), 128 + (x % 64)>>
    [] x > 65535 -> <<240 + (x \div 262144), 128 + ((x \div 4096) % 64), 128 + ((x \div 64) % 64), 128 + (x % 64)>>
Value(b) ==
  CASE Len(b) = 1 -> b[1]
    [] Len(b) = 2 -> (b[1] % 32) * 64 + (b[2] % 64)
    [] Len(b) = 3 -> (b[1] % 16) * 4096 + (b[2] % 64) * 64 + (b[3] % 64)
    [] Len(b) = 4 -> (b[1] % 8) * 262144 + (b[2] % 64) * 4096 + (b[3] % 64) * 64 + (b[4] % 64)
IsChar(b) == Value(b) <= MaxUnicode /\ Bytes(Value(b)) = b

\* The characters of s from i on, with their positions, up to what is none.
RECURSIVE Chars(_, _)
Chars(s, i) ==
  LET N == {n \in 1..4 : i + n - 1 <= Len(s) /\ IsChar(SubSeq(s, i, i + n - 1))}
  IN  IF N = {} THEN <<>> ELSE LET n == CHOOSE x \in N : TRUE IN <<<<i, Value(SubSeq(s, i, i + n - 1)), i + n>>>> \o Chars(s, i + n)
Behind(s, chars, i) == IF chars = <<>> THEN i ELSE chars[Len(chars)][3]
WellFormed(s) == Behind(s, Chars(s, 1), 1) = Len(s) + 1

(***************************************************************************)
(* Code points are encoded as UTF-8 says and come back one by one; what is *)
(* malformed, too long or out of range is refused where it begins.         *)
(***************************************************************************)
CodesComeBack ==
  LET chars == IF Text = Error THEN <<>> ELSE Chars(Text, 1) IN
  /\ Asked("text") => IF \A i \in DOMAIN call[2] : call[2][i] <= MaxUnicode
                        THEN WellFormed(answer[2]) /\ [i \in DOMAIN chars |-> chars[i][2]] = call[2]
                        ELSE answer[2] = Error
  /\ Asked("len") /\ answer[2] = 1 => answer[3] = IF WellFormed(Text) THEN <<Len(chars)>> ELSE <<-2, Behind(Text, chars, 1)>>
  /\ Asked("code") /\ answer[2] = -1 => answer[3] = IF WellFormed(Text) THEN [i \in DOMAIN chars |-> chars[i][2]] ELSE Error
  /\ Asked("iterate") => IF WellFormed(Text) THEN answer[2] = [i \in DOMAIN chars |-> <<chars[i][1], chars[i][2]>>]
                         ELSE answer[2][Len(answer[2])] = Error

(***************************************************************************)
(* The n-th character from the beginning, or from the end, is where offset *)
(* says, and there is none behind the last.                                *)
(***************************************************************************)
OffsetsRight ==
  Asked("offset") /\ WellFormed(Text) /\ answer[2] # 0 /\ answer[3] # 2 =>
    LET chars == Chars(Text, 1)
        n == answer[2]
        k == IF n > 0 THEN n ELSE Len(chars) + 1 + n
    IN  (n > 0) = (answer[3] = 1) =>
          answer[4] = IF k \in DOMAIN chars THEN <<chars[k][1]>>
                      ELSE IF k = Len(chars) + 1 THEN <<Len(Text) + 1>> ELSE Nil
=============================================================================
