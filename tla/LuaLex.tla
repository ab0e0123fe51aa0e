------------------------------- MODULE LuaLex -------------------------------
(***************************************************************************)
(* llex.c: from the characters of a chunk to its tokens.  A character is a *)
(* string; "nl" and "cr" are those of line breaks, "eoz" the end.  The     *)
(* scanner is a record: the text and the place in it, the buffer in which  *)
(* a token is collected, the line, and the message of an error.            *)
(***************************************************************************)
EXTENDS Integers, Sequences

CONSTANTS
  Chunks,                   \* sequences of pieces: text, tokens, line breaks
  Symbols,                  \* texts of operators
  Malformed,                \* texts with the message they raise
  Char, Utf8Esc,            \* code -> its character, its bytes
  Numerals,                 \* what luaO_str2num accepts
  Reserved

VARIABLES call, answer
vars == <<call, answer>>

NewLines == {"nl", "cr"}
Spaces == {" ", "tab"} \cup NewLines
Digit == [c \in {"0", "1", "2", "3", "6", "7", "9"} |-> CHOOSE d \in 0..9 : <<"0", "1", "2", "3", "", "", "6", "7", "", "9">>[d + 1] = c]
Hex == [c \in DOMAIN Digit \cup {"a", "f"} |-> IF c = "a" THEN 10 ELSE IF c = "f" THEN 15 ELSE Digit[c]]
Alpha == {"a", "b", "f", "n", "x", "z", "_"}

Scanner(s) == [s |-> s, i |-> 1, buf |-> <<>>, line |-> 1, err |-> ""]
Cur(x) == IF x.i \in DOMAIN x.s THEN x.s[x.i] ELSE "eoz"
Step(x) == [x EXCEPT !.i = @ + 1]
Save(x, c) == [x EXCEPT !.buf = Append(@, c)]
SaveNext(x) == Step(Save(x, Cur(x)))
Remove(x, n) == [x EXCEPT !.buf = SubSeq(@, 1, Len(@) - n)]
Reset(x) == [x EXCEPT !.buf = <<>>]
LexError(x, msg) == [x EXCEPT !.err = msg]
Token(t, v, x) == [t |-> t, v |-> v, x |-> x]
-----------------------------------------------------------------------------
Counted(x) == [x EXCEPT !.line = @ + 1]
SecondBreak(x, old) == IF Cur(x) \in NewLines \ {old} THEN Step(x) ELSE x
IncLineNumber(x) == Counted(SecondBreak(Step(x), Cur(x)))

RECURSIVE SkipTo(_, _)
SkipTo(x, set) == IF Cur(x) \in set \cup {"eoz"} THEN x ELSE SkipTo(Step(x), set)

RECURSIVE Equals(_, _)
Equals(x, count) == IF Cur(x) = "=" THEN Equals(SaveNext(x), count + 1) ELSE [x |-> x, count |-> count]
Sep(r, s) == [x |-> r.x, sep |-> IF Cur(r.x) = s THEN r.count ELSE -r.count - 1]
SkipSep(x) == Sep(Equals(SaveNext(x), 0), Cur(x))

RECURSIVE LongBody(_, _, _)
AtBracket(r, sep, string) == IF r.sep = sep THEN SaveNext(r.x) ELSE LongBody(r.x, sep, string)
LongBreak(x, string) == IF string THEN IncLineNumber(Save(x, "nl")) ELSE Reset(IncLineNumber(Save(x, "nl")))
LongBody(x, sep, string) ==
  CASE Cur(x) = "eoz" -> LexError(x, "unfinished long")
    [] Cur(x) = "]" -> AtBracket(SkipSep(x), sep, string)
    [] Cur(x) \in NewLines -> LongBody(LongBreak(x, string), sep, string)
    [] OTHER -> LongBody(IF string THEN SaveNext(x) ELSE Step(x), sep, string)
FirstBreak(x) == IF Cur(x) \in NewLines THEN IncLineNumber(x) ELSE x
ReadLongString(x, sep, string) == LongBody(FirstBreak(SaveNext(x)), sep, string)
LongToken(x, sep) == Token("string", SubSeq(x.buf, 3 + sep, Len(x.buf) - 2 - sep), x)
-----------------------------------------------------------------------------
(* Escapes in a string.  The buffer keeps what was read of one, for error  *)
(* messages, until its character is known.                                 *)
EscCheck(x, ok, msg) == IF ok THEN x ELSE LexError(x, msg)
GetHexa(x) == IF x.err # "" THEN x ELSE EscCheck(SaveNext(x), Cur(SaveNext(x)) \in DOMAIN Hex, "hexadecimal digit expected")

OnlySave(x, c) == Save(Remove(x, 1), c)
ReadSave(x, c) == OnlySave(Step(x), c)

HexaEsc(y, z) == IF z.err # "" THEN z ELSE ReadSave(Remove(z, 2), Char[Hex[Cur(y)] * 16 + Hex[Cur(z)]])
ReadHexaEsc(y) == HexaEsc(y, GetHexa(y))

RECURSIVE MoreHexa(_, _, _)
Utf8Bytes(x, r) == [x EXCEPT !.buf = @ \o Utf8Esc[r]]
MoreHexa(x, r, i) ==
  IF r > 1114111 THEN LexError(x, "UTF-8 value too large")
  ELSE IF Cur(x) \in DOMAIN Hex THEN MoreHexa(SaveNext(x), r * 16 + Hex[Cur(x)], i + 1)
  ELSE IF Cur(x) # "}" THEN LexError(x, "missing '}'") ELSE Utf8Bytes(Remove(Step(x), i), r)
FirstHexa(y) == IF y.err # "" THEN y ELSE MoreHexa(SaveNext(y), Hex[Cur(y)], 4)
ReadUtf8Esc(x) == FirstHexa(GetHexa(EscCheck(x, Cur(x) = "{", "missing '{'")))

RECURSIVE DecDigits(_, _, _)
DecDigits(x, r, i) ==
  IF i < 3 /\ Cur(x) \in DOMAIN Digit THEN DecDigits(SaveNext(x), 10 * r + Digit[Cur(x)], i + 1)
  ELSE IF r > 255 THEN LexError(x, "decimal escape too large") ELSE OnlySave(Remove(x, i), Char[r])
ReadDecEsc(x) == IF Cur(x) \notin DOMAIN Digit THEN LexError(x, "invalid escape sequence") ELSE DecDigits(x, 0, 0)

RECURSIVE Zap(_)
Zap(x) == IF Cur(x) \notin Spaces THEN x ELSE Zap(IF Cur(x) \in NewLines THEN IncLineNumber(x) ELSE Step(x))

Escape(x) ==
  CASE Cur(x) = "n" -> ReadSave(x, "nl")
    [] Cur(x) \in {"\\", "\"", "'"} -> ReadSave(x, Cur(x))
    [] Cur(x) = "x" -> ReadHexaEsc(GetHexa(x))
    [] Cur(x) = "u" -> ReadUtf8Esc(SaveNext(x))
    [] Cur(x) \in NewLines -> OnlySave(IncLineNumber(x), "nl")
    [] Cur(x) = "eoz" -> x
    [] Cur(x) = "z" -> Zap(Step(Remove(x, 1)))
    [] OTHER -> ReadDecEsc(x)

RECURSIVE StringBody(_, _)
StringBody(x, del) ==
  CASE x.err # "" -> x
    [] x.err = "" /\ Cur(x) = del -> SaveNext(x)
    [] x.err = "" /\ Cur(x) \in NewLines \cup {"eoz"} -> LexError(x, "unfinished string")
    [] x.err = "" /\ Cur(x) = "\\" -> StringBody(Escape(SaveNext(x)), del)
    [] OTHER -> StringBody(SaveNext(x), del)
StringToken(x) == Token("string", SubSeq(x.buf, 2, Len(x.buf) - 1), x)
ReadString(x, del) == StringToken(StringBody(SaveNext(x), del))
-----------------------------------------------------------------------------
CheckNext2(x, set) == IF Cur(x) \in set THEN SaveNext(x) ELSE x
RECURSIVE NumeralBody(_, _)
AfterExponent(x, expo) == IF Cur(x) \in DOMAIN Hex \cup {"."} THEN NumeralBody(SaveNext(x), expo) ELSE x
NumeralBody(x, expo) == AfterExponent(IF Cur(x) \in expo THEN CheckNext2(SaveNext(x), {"-", "+"}) ELSE x, expo)
NumeralToken(x) == IF x.buf \in Numerals THEN Token("number", x.buf, x) ELSE Token("", <<>>, LexError(x, "malformed number"))
AfterFirst(x, first) ==
  IF first = "0" /\ Cur(x) \in {"x", "X"} THEN NumeralBody(SaveNext(x), {"P", "p"}) ELSE NumeralBody(x, {"E", "e"})
ReadNumeral(x) == NumeralToken(AfterFirst(SaveNext(x), Cur(x)))

RECURSIVE NameBody(_)
NameBody(x) == IF Cur(x) \in Alpha \cup DOMAIN Digit THEN NameBody(SaveNext(x)) ELSE x
NameToken(x) == Token(IF x.buf \in Reserved THEN "reserved" ELSE "name", x.buf, x)

\* One character, or two that make a token.
Doubles == {<<"=", "=">>, <<"<", "=">>, <<"<", "<">>, <<">", "=">>, <<">", ">">>, <<"/", "/">>, <<"~", "=">>, <<":", ":">>}
CheckNext1(x, c) == IF <<c, Cur(x)>> \in Doubles THEN Token("symbol", <<c, Cur(x)>>, Step(x)) ELSE Token("symbol", <<c>>, x)
Dots(x) ==
  IF Cur(x) # "." THEN IF Cur(x) \in DOMAIN Digit THEN ReadNumeral(x) ELSE Token("symbol", <<".">>, x)
  ELSE IF Cur(Step(x)) = "." THEN Token("symbol", <<".", ".", ".">>, Step(Step(x))) ELSE Token("symbol", <<".", ".">>, Step(x))

RECURSIVE Lex(_)
LongOrBracket(r) ==
  IF r.sep >= 0 THEN LongToken(ReadLongString(r.x, r.sep, TRUE), r.sep)
  ELSE IF r.sep # -1 THEN Token("", <<>>, LexError(r.x, "invalid long string delimiter")) ELSE Token("symbol", <<"[">>, r.x)
LongComment(r) == IF r.sep >= 0 THEN Reset(ReadLongString(Reset(r.x), r.sep, FALSE)) ELSE SkipTo(Reset(r.x), NewLines)
Comment(x) == IF Cur(x) = "[" THEN LongComment(SkipSep(x)) ELSE SkipTo(x, NewLines)
Lex(x) ==
  CASE x.err # "" -> Token("", <<>>, x)
    [] x.err = "" /\ Cur(x) = "eoz" -> Token("eos", <<>>, x)
    [] x.err = "" /\ Cur(x) \in NewLines -> Lex(IncLineNumber(x))
    [] x.err = "" /\ Cur(x) \in Spaces \ NewLines -> Lex(Step(x))
    [] x.err = "" /\ Cur(x) = "-" -> IF Cur(Step(x)) = "-" THEN Lex(Comment(Step(Step(x)))) ELSE Token("symbol", <<"-">>, Step(x))
    [] x.err = "" /\ Cur(x) = "[" -> LongOrBracket(SkipSep(x))
    [] x.err = "" /\ Cur(x) \in {"\"", "'"} -> ReadString(x, Cur(x))
    [] x.err = "" /\ Cur(x) = "." -> Dots(SaveNext(x))
    [] x.err = "" /\ Cur(x) \in DOMAIN Digit -> ReadNumeral(x)
    [] x.err = "" /\ Cur(x) \in Alpha -> NameToken(NameBody(x))
    [] OTHER -> CheckNext1(Step(x), Cur(x))
Llex(x) == Lex(Reset(x))
-----------------------------------------------------------------------------
\* The tokens with their lines; before those in peeks the parser looks ahead.
Seen(t) == [t |-> t.t, v |-> t.v, line |-> t.x.line]
NoToken == Token("eos", <<>>, Scanner(<<>>))
LookAhead(ls) == [ls EXCEPT !.ahead = Llex(ls.x), !.x = Llex(ls.x).x]
LexNext(ls) ==
  IF ls.ahead.t # "eos" THEN [ls EXCEPT !.t = ls.ahead, !.ahead = NoToken]
  ELSE [ls EXCEPT !.t = Llex(ls.x), !.x = Llex(ls.x).x]
SetInput(s) == [t |-> NoToken, ahead |-> NoToken, x |-> Scanner(s)]
RECURSIVE Tokens(_, _, _)
Peeked(ls, peek) == LexNext(IF peek THEN LookAhead(ls) ELSE ls)
Collect(ls, peeks, all) ==
  IF ls.t.x.err # "" \/ ls.t.t = "eos" THEN [all |-> all, err |-> ls.t.x.err, line |-> ls.x.line]
  ELSE Tokens(ls, peeks, Append(all, Seen(ls.t)))
Tokens(ls, peeks, all) == Collect(Peeked(ls, Len(all) \in peeks), peeks, all)
-----------------------------------------------------------------------------
RECURSIVE Joined(_)
Joined(pieces) == IF pieces = <<>> THEN <<>> ELSE Head(pieces).text \o Joined(Tail(pieces))

Init ==
  /\ call \in {<<"chunk", p>> : p \in Chunks} \cup {<<"symbols", s>> : s \in Symbols} \cup {<<"bad", m.text, m.err>> : m \in Malformed}
  /\ answer = <<>>
Scan == call[1] = "chunk" /\ \E peeks \in {{}, {0, 2}, {1}} : answer' = <<Tokens(SetInput(Joined(call[2])), peeks, <<>>)>>
ScanText == call[1] # "chunk" /\ answer' = <<Tokens(SetInput(call[2]), {}, <<>>)>>

Next == answer = <<>> /\ (Scan \/ ScanText) /\ UNCHANGED call

Spec == Init /\ [][Next]_vars
-----------------------------------------------------------------------------
\* The tokens of pieces, with the line on which each piece ends.
RECURSIVE Meant(_, _)
Meant(pieces, line) ==
  IF pieces = <<>> THEN <<>>
  ELSE [i \in DOMAIN Head(pieces).tokens |-> [t |-> Head(pieces).tokens[i].t, v |-> Head(pieces).tokens[i].v, line |-> line + Head(pieces).breaks]]
       \o Meant(Tail(pieces), line + Head(pieces).breaks)
RECURSIVE LinesOf(_)
LinesOf(pieces) == IF pieces = <<>> THEN 1 ELSE Head(pieces).breaks + LinesOf(Tail(pieces))
(***************************************************************************)
(* A chunk gives the tokens it was written with, whether the parser looks  *)
(* ahead or not: strings with the characters their escapes mean, comments  *)
(* none, and each with the right line, however lines are broken.           *)
(***************************************************************************)
TokensMeant ==
  answer # <<>> /\ call[1] = "chunk" =>
    answer[1].err = "" /\ answer[1].all = Meant(call[2], 1) /\ answer[1].line = LinesOf(call[2])

\* The longest operator that a text begins with.
Operators == Doubles \cup {<<".", ".">>, <<".", ".", ".">>} \cup {<<c>> : c \in {"=", "<", ">", "/", "~", ":", ".", "+"}}
RECURSIVE Longest(_)
Longest(s) ==
  IF s = <<>> THEN <<>>
  ELSE LET n == CHOOSE k \in 1..Len(s) : /\ SubSeq(s, 1, k) \in Operators
                                         /\ \A j \in (k + 1)..Len(s) : SubSeq(s, 1, j) \notin Operators
       IN  <<SubSeq(s, 1, n)>> \o Longest(SubSeq(s, n + 1, Len(s)))
(***************************************************************************)
(* Of operators, the longest one is taken; what is malformed raises its    *)
(* error.                                                                  *)
(***************************************************************************)
LongestTaken ==
  /\ answer # <<>> /\ call[1] = "symbols" => [i \in DOMAIN answer[1].all |-> answer[1].all[i].v] = Longest(call[2]) /\ answer[1].err = ""
  /\ answer # <<>> /\ call[1] = "bad" => answer[1].err = call[3]
=============================================================================
