----------------------------- MODULE LuaPattern -----------------------------
(***************************************************************************)
(* The pattern matcher of lstrlib.c with string.find, match, gmatch and    *)
(* gsub on top of it, against what a pattern means.  The matcher works on  *)
(* the text of a pattern; its meaning is given by its items.  Texts are    *)
(* sequences of characters, positions count from 1, position 0 stands for  *)
(* NULL and -1 for an error that was raised.                               *)
(***************************************************************************)
EXTENDS Integers, Sequences, FiniteSets

CONSTANTS
  Subjects,                 \* texts to search
  Patterns,                 \* sequences of items
  Inits,                    \* where to start
  Replacements,             \* for gsub
  Malformed,                \* pairs of a text that is no pattern, and a subject
  Code, Digit,              \* character -> its code, its value as a digit
  Classes, Negated,         \* letter -> its class; capital -> small letter
  MaxCaptures, MaxDepth     \* LUA_MAXCAPTURES, MAXCCALLS

VARIABLES call, answer
vars == <<call, answer>>

Null == 0
Raised == -1
Unfinished == -1            \* CAP_UNFINISHED
Position == -2              \* CAP_POSITION

At(q, i) == IF i \in DOMAIN q THEN q[i] ELSE ""
Pop(q) == SubSeq(q, 1, Len(q) - 1)
End(q) == Len(q) + 1
Min(S) == CHOOSE i \in S : \A j \in S : i <= j
Max(S) == CHOOSE i \in S : \A j \in S : i >= j

\* An item: what it is, its text, the characters it takes, and its suffix.
Item(at, text, chars, rep) == [at |-> at, text |-> text, chars |-> chars, rep |-> rep]
RECURSIVE TextOf(_)
TextOf(items) == IF items = <<>> THEN <<>> ELSE Head(items).text \o Head(items).rep \o TextOf(Tail(items))
-----------------------------------------------------------------------------
(* One character.                                                          *)
RECURSIVE BracketEnd(_, _)
BracketEnd(pat, p) ==
  LET q == IF At(pat, p) = "%" /\ p < Len(pat) THEN p + 2 ELSE p + 1
  IN  IF p = End(pat) THEN Raised ELSE IF At(pat, q) = "]" THEN q + 1 ELSE BracketEnd(pat, q)

ClassEnd(pat, p) ==
  CASE pat[p] = "%" -> IF p = Len(pat) THEN Raised ELSE p + 2
    [] pat[p] = "[" -> BracketEnd(pat, IF At(pat, p + 1) = "^" THEN p + 2 ELSE p + 1)
    [] OTHER -> p + 1

MatchClass(ch, cl) ==
  IF cl \in DOMAIN Classes THEN ch \in Classes[cl]
  ELSE IF cl \in DOMAIN Negated THEN ch \notin Classes[Negated[cl]] ELSE cl = ch

RECURSIVE InBracket(_, _, _, _)
InBracket(ch, pat, p, ec) ==
  /\ p < ec
  /\ IF pat[p] = "%" THEN MatchClass(ch, pat[p + 1]) \/ InBracket(ch, pat, p + 2, ec)
     ELSE IF pat[p + 1] = "-" /\ p + 2 < ec THEN Code[ch] \in Code[pat[p]]..Code[pat[p + 2]] \/ InBracket(ch, pat, p + 3, ec)
     ELSE pat[p] = ch \/ InBracket(ch, pat, p + 1, ec)
MatchBracketClass(ch, pat, p, ec) ==
  IF pat[p + 1] = "^" THEN ~InBracket(ch, pat, p + 2, ec) ELSE InBracket(ch, pat, p + 1, ec)

SingleMatch(m, s, p, ep) ==
  /\ s < End(m.src)
  /\ CASE m.pat[p] = "." -> TRUE
       [] m.pat[p] = "%" -> MatchClass(m.src[s], m.pat[p + 1])
       [] m.pat[p] = "[" -> MatchBracketClass(m.src[s], m.pat, p, ep - 1)
       [] OTHER -> m.pat[p] = m.src[s]

RECURSIVE BalanceEnd(_, _, _, _, _)
BalanceEnd(src, s, b, e, cont) ==
  IF s = End(src) THEN Null
  ELSE IF src[s] = e THEN IF cont = 1 THEN s + 1 ELSE BalanceEnd(src, s + 1, b, e, cont - 1)
  ELSE BalanceEnd(src, s + 1, b, e, IF src[s] = b THEN cont + 1 ELSE cont)
MatchBalance(m, s, p) ==
  IF p >= Len(m.pat) THEN Raised
  ELSE IF At(m.src, s) # m.pat[p] THEN Null ELSE BalanceEnd(m.src, s + 1, m.pat[p], m.pat[p + 1], 1)
-----------------------------------------------------------------------------
(* The matcher.  m is the subject and the pattern; caps, the captures, is  *)
(* shared by all calls: it is handed on and comes back with the position.  *)
Result(s, caps) == [pos |-> s, caps |-> caps]

Captured(caps) == {l \in DOMAIN caps : caps[l].len = Unfinished}
CaptureToClose(caps) == IF Captured(caps) = {} THEN Raised ELSE Max(Captured(caps))

CheckCapture(caps, l) == IF l \in DOMAIN caps /\ caps[l].len # Unfinished THEN l ELSE Raised
MatchCapture(m, s, caps, l) ==
  IF CheckCapture(caps, l) = Raised THEN Raised
  ELSE IF /\ caps[l].len \in 0..(End(m.src) - s)
          /\ \A k \in 0..(caps[l].len - 1) : m.src[caps[l].init + k] = m.src[s + k]
       THEN s + caps[l].len ELSE Null

MatchFrontier(m, s, p, ep) ==
  /\ ~MatchBracketClass(At(m.src, s - 1), m.pat, p, ep - 1)
  /\ MatchBracketClass(At(m.src, s), m.pat, p, ep - 1)

RECURSIVE Match(_, _, _, _, _)
RECURSIVE DoMatch(_, _, _, _, _)

RECURSIVE Longest(_, _, _, _, _)
Longest(m, s, p, ep, i) == IF SingleMatch(m, s + i, p, ep) THEN Longest(m, s, p, ep, i + 1) ELSE i
RECURSIVE TryDown(_, _, _, _, _, _)
TryDown(m, s, i, ep, r, depth) ==
  IF r.pos # Null \/ i = 0 THEN r ELSE TryDown(m, s, i - 1, ep, Match(m, s + i - 1, ep + 1, r.caps, depth), depth)
MaxExpand(m, s, p, ep, caps, depth) ==
  LET i == Longest(m, s, p, ep, 0) IN TryDown(m, s, i, ep, Match(m, s + i, ep + 1, caps, depth), depth)

RECURSIVE MinExpand(_, _, _, _, _, _)
MinExpand(m, s, p, ep, r, depth) ==
  IF r.pos # Null \/ ~SingleMatch(m, s, p, ep) THEN r
  ELSE MinExpand(m, s + 1, p, ep, Match(m, s + 1, ep + 1, r.caps, depth), depth)

UndoStart(r) == IF r.pos = Null THEN [r EXCEPT !.caps = Pop(@)] ELSE r
StartCapture(m, s, p, what, caps, depth) ==
  IF Len(caps) >= MaxCaptures THEN Result(Raised, caps)
  ELSE UndoStart(Match(m, s, p, Append(caps, [init |-> s, len |-> what]), depth))

StaysClosed(r, l) == r
UndoClose(r, l) == IF r.pos = Null THEN [r EXCEPT !.caps[l].len = Unfinished] ELSE r
EndCapture(m, s, p, caps, l, depth) ==
  IF l = Raised THEN Result(Raised, caps)
  ELSE UndoClose(Match(m, s, p, [caps EXCEPT ![l].len = s - caps[l].init], depth), l)

\* On behind an item that ends at s, if it matched.
GoOn(m, s, p, caps, depth) == IF s > 0 THEN DoMatch(m, s, p, caps, depth) ELSE Result(s, caps)

\* A character class that ends before ep, with its suffix.
Optional(m, s, ep, r, depth) == IF r.pos # Null THEN r ELSE DoMatch(m, s, ep + 1, r.caps, depth)
Dflt(m, s, p, ep, caps, depth) ==
  IF ep = Raised THEN Result(Raised, caps)
  ELSE IF ~SingleMatch(m, s, p, ep)
    THEN GoOn(m, IF At(m.pat, ep) \in {"*", "?", "-"} THEN s ELSE Null, ep + 1, caps, depth)
  ELSE CASE At(m.pat, ep) = "?" -> Optional(m, s, ep, Match(m, s + 1, ep + 1, caps, depth), depth)
         [] At(m.pat, ep) = "+" -> MaxExpand(m, s + 1, p, ep, caps, depth)
         [] At(m.pat, ep) = "*" -> MaxExpand(m, s, p, ep, caps, depth)
         [] At(m.pat, ep) = "-" -> MinExpand(m, s, p, ep, Match(m, s, ep + 1, caps, depth), depth)
         [] OTHER -> DoMatch(m, s + 1, ep, caps, depth)

Frontier(m, s, p, ep, caps, depth) ==
  IF ep = Raised THEN Result(Raised, caps)
  ELSE GoOn(m, IF MatchFrontier(m, s, p, ep) THEN s ELSE Null, ep, caps, depth)

\* From the label init on.
DoMatch(m, s, p, caps, depth) ==
  LET ch == At(m.pat, p) next == At(m.pat, p + 1) IN
  CASE p = End(m.pat) -> Result(s, caps)
    [] ch = "(" /\ next = ")" -> StartCapture(m, s, p + 2, Position, caps, depth)
    [] ch = "(" /\ next # ")" -> StartCapture(m, s, p + 1, Unfinished, caps, depth)
    [] ch = ")" -> EndCapture(m, s, p + 1, caps, CaptureToClose(caps), depth)
    [] ch = "$" /\ p = Len(m.pat) -> Result(IF s = End(m.src) THEN s ELSE Null, caps)
    [] ch = "%" /\ next = "b" -> GoOn(m, MatchBalance(m, s, p + 2), p + 4, caps, depth)
    [] ch = "%" /\ next = "f" ->
         IF At(m.pat, p + 2) # "[" THEN Result(Raised, caps)
         ELSE Frontier(m, s, p + 2, ClassEnd(m.pat, p + 2), caps, depth)
    [] ch = "%" /\ next \in DOMAIN Digit -> GoOn(m, MatchCapture(m, s, caps, Digit[next]), p + 2, caps, depth)
    [] OTHER -> Dflt(m, s, p, ClassEnd(m.pat, p), caps, depth)

Match(m, s, p, caps, depth) == IF depth = 0 THEN Result(Raised, caps) ELSE DoMatch(m, s, p, caps, depth - 1)
MatchAt(m, s, p) == Match(m, s, p, <<>>, MaxDepth)
-----------------------------------------------------------------------------
(* The library functions.  A value is a text or a position.                *)
Text(t) == [text |-> t, pos |-> 0]
Pos(n) == [text |-> <<>>, pos |-> n]
Part(src, s, e) == Text(SubSeq(src, s, e - 1))
Error == [at |-> "error"]

PushOneCapture(m, i, s, e, caps) ==
  IF i = 1 /\ caps = <<>> THEN Part(m.src, s, e)
  ELSE IF i > Len(caps) \/ caps[i].len = Unfinished THEN Pos(Raised)
  ELSE IF caps[i].len = Position THEN Pos(caps[i].init) ELSE Part(m.src, caps[i].init, caps[i].init + caps[i].len)
PushCaptures(m, s, e, caps, whole) ==
  [i \in 1..(IF caps = <<>> /\ whole THEN 1 ELSE Len(caps)) |-> PushOneCapture(m, i, s, e, caps)]
Bad(values) == \E i \in DOMAIN values : values[i] = Pos(Raised)

Specials == {"^", "$", "*", "+", "?", ".", "(", "[", "%", "-"}
NoSpecials(pat) == \A i \in DOMAIN pat : pat[i] \notin Specials

\* memchr finds the first character, memcmp compares the others.
RECURSIVE MemFind(_, _, _)
MemFind(src, s, pat) ==
  IF pat = <<>> THEN s
  ELSE LET firsts == {i \in s..(End(src) - Len(pat)) : src[i] = pat[1]}
       IN  IF firsts = {} THEN Null
           ELSE IF \A k \in 2..Len(pat) : src[Min(firsts) + k - 1] = pat[k] THEN Min(firsts)
           ELSE MemFind(src, Min(firsts) + 1, pat)

Found(m, s, e, caps, find) ==
  LET values == PushCaptures(m, s, e, caps, ~find)
  IN  IF Bad(values) THEN Error ELSE [at |-> "found", from |-> s, to |-> e, caps |-> values]
Nothing == [at |-> "nil"]

RECURSIVE Search(_, _, _, _, _)
Search(m, s, p, r, find) ==
  IF r.pos = Raised THEN Error
  ELSE IF r.pos # Null THEN Found(m, s, r.pos, r.caps, find)
  ELSE IF s = End(m.src) \/ p = 2 THEN Nothing
  ELSE Search(m, s + 1, p, MatchAt(m, s + 1, p), find)

Anchored(pat) == At(pat, 1) = "^"
Start(pat) == IF Anchored(pat) THEN 2 ELSE 1

PosRelat(pos, len) == IF pos >= 0 THEN pos ELSE IF -pos > len THEN 0 ELSE len + pos + 1
FindFrom(m, s, find, plain) ==
  IF s > End(m.src) THEN Nothing
  ELSE IF find /\ (plain \/ NoSpecials(m.pat)) THEN
    LET at == MemFind(m.src, s, m.pat)
    IN  IF at = Null THEN Nothing ELSE [at |-> "found", from |-> at, to |-> at + Len(m.pat), caps |-> <<>>]
  ELSE Search(m, s, Start(m.pat), MatchAt(m, s, Start(m.pat)), find)
StrFindAux(m, init, find, plain) ==
  LET s == PosRelat(init, Len(m.src)) IN FindFrom(m, IF s < 1 THEN 1 ELSE s, find, plain)

\* gmatch_aux, called until it finds nothing.
RECURSIVE GMatch(_, _, _, _, _)
GMatch(m, s, last, r, found) ==
  IF r.pos = Raised THEN Append(found, Error)
  ELSE IF r.pos # Null /\ r.pos # last
    THEN GMatch(m, r.pos, r.pos, MatchAt(m, r.pos, 1), Append(found, Found(m, s, r.pos, r.caps, FALSE)))
  ELSE IF s = End(m.src) THEN found
  ELSE GMatch(m, s + 1, last, MatchAt(m, s + 1, 1), found)

\* Replacements: an error, or what is added to the buffer.
RECURSIVE AddS(_, _, _, _, _)
AddS(m, news, s, e, caps) ==
  IF news = <<>> THEN <<>>
  ELSE LET added ==
             IF news[1] # "%" THEN <<Text(<<news[1]>>)>>
             ELSE IF At(news, 2) = "0" THEN <<Part(m.src, s, e)>>
             ELSE IF At(news, 2) \in DOMAIN Digit THEN <<PushOneCapture(m, Digit[news[2]], s, e, caps)>>
             ELSE IF At(news, 2) = "%" THEN <<Text(<<"%">>)>> ELSE <<Pos(Raised)>>
       IN  added \o AddS(m, SubSeq(news, IF news[1] = "%" THEN 3 ELSE 2, Len(news)), s, e, caps)

\* What a table or a function gives for the first capture: a text, or false to
\* keep what matched.
Kept(m, s, e, v) == CASE v = "false" -> Part(m.src, s, e) [] v = "string" -> Text(<<"x">>) [] OTHER -> Pos(Raised)
GetFor(m, repl, s, e, keys) == IF Bad(keys) THEN <<Pos(Raised)>> ELSE <<Kept(m, s, e, repl.get[Len(keys[1].text)])>>
AddValue(m, repl, s, e, caps) ==
  CASE repl.kind = "string" -> AddS(m, repl.text, s, e, caps)
    [] repl.kind = "table" -> GetFor(m, repl, s, e, <<PushOneCapture(m, 1, s, e, caps)>>)
    [] repl.kind = "function" -> GetFor(m, repl, s, e, PushCaptures(m, s, e, caps, TRUE))

RECURSIVE GSub(_, _, _, _, _, _, _, _)
Replace(m, repl, max, s, last, n, out, r) ==
  IF r.pos = Raised THEN [n |-> n, out |-> <<Pos(Raised)>>]
  ELSE IF r.pos # Null /\ r.pos # last
    THEN GSub(m, repl, max, r.pos, r.pos, n + 1, out \o AddValue(m, repl, s, r.pos, r.caps), Anchored(m.pat))
  ELSE IF s < End(m.src) THEN GSub(m, repl, max, s + 1, last, n, Append(out, Part(m.src, s, s + 1)), Anchored(m.pat))
  ELSE GSub(m, repl, max, s, last, n, out, TRUE)
GSub(m, repl, max, s, last, n, out, over) ==
  IF over \/ n >= max \/ Bad(out) THEN [n |-> n, out |-> Append(out, Part(m.src, s, End(m.src)))]
  ELSE Replace(m, repl, max, s, last, n, out, MatchAt(m, s, Start(m.pat)))
StrGsub(m, repl, max) == GSub(m, repl, max, 1, Null, 0, <<>>, FALSE)
-----------------------------------------------------------------------------
(* What a pattern means.  A way to match gives each item a number of       *)
(* characters; items prefer many of them, those with "-" few, and the      *)
(* first item that differs decides.                                        *)
RECURSIVE Sum(_)
Sum(v) == IF v = <<>> THEN 0 ELSE Head(v) + Sum(Tail(v))

\* The item that opens the k-th capture, the one that closes item o.
Opening(items) == {i \in DOMAIN items : items[i].at \in {"open", "position"}}
Depth(items, o, i) == Sum([j \in 1..(i - o + 1) |-> IF items[o + j - 1].at = "open" THEN 1 ELSE IF items[o + j - 1].at = "close" THEN -1 ELSE 0])
Closing(items, o) == Min({i \in o..Len(items) : Depth(items, o, i) = 0})
Nth(items, k) == CHOOSE o \in Opening(items) : Cardinality({j \in Opening(items) : j <= o}) = k

Starts(v, s, i) == s + Sum(SubSeq(v, 1, i - 1))
CaptureText(items, src, s, v, o) == SubSeq(src, Starts(v, s, o), Starts(v, s, Closing(items, o)) - 1)

Balanced(t, b, e) ==
  LET Level(k) == Sum([j \in 1..k |-> IF t[j] = e THEN -1 ELSE IF t[j] = b THEN 1 ELSE 0])
  IN  t # <<>> /\ t[1] = b /\ (IF b = e THEN Len(t) > 1 /\ t[Len(t)] = e /\ \A k \in 2..(Len(t) - 1) : t[k] # e
                               ELSE Level(Len(t)) = 0 /\ \A k \in 1..(Len(t) - 1) : Level(k) > 0)

\* Item i, matched from position p on, takes the text t; v is what the items
\* before it took.
Takes(items, i, src, s, p, t, v) ==
  LET item == items[i] IN
  CASE item.at = "one" -> /\ \A k \in DOMAIN t : t[k] \in item.chars
                          /\ Len(t) \in (CASE item.rep = <<>> -> {1} [] item.rep = <<"?">> -> {0, 1}
                                           [] item.rep = <<"+">> -> 1..Len(src) [] OTHER -> 0..Len(src))
    [] item.at \in {"open", "close", "position"} -> t = <<>>
    [] item.at = "end" -> t = <<>> /\ p = End(src)
    [] item.at = "frontier" -> t = <<>> /\ At(src, p - 1) \notin item.chars /\ At(src, p) \in item.chars
    [] item.at = "balance" -> Balanced(t, item.text[3], item.text[4])
    [] item.at = "back" -> LET o == Nth(items, Digit[item.text[2]])
                           IN  items[o].at = "open" /\ t = CaptureText(items, src, s, v, o)

RECURSIVE Ways(_, _, _, _)
Ways(items, src, s, i) ==
  IF i = 0 THEN {<<>>}
  ELSE UNION {LET p == Starts(v, s, i) IN
              {Append(v, n) : n \in {k \in 0..(End(src) - p) : Takes(items, i, src, s, p, SubSeq(src, p, p + k - 1), v)}} :
              v \in Ways(items, src, s, i - 1)}

Prefers(items, v, w) ==
  LET i == Min({k \in DOMAIN v : v[k] # w[k]}) IN IF items[i].rep = <<"-">> THEN v[i] < w[i] ELSE v[i] > w[i]
Best(items, W) == CHOOSE v \in W : \A w \in W \ {v} : Prefers(items, v, w)

\* The best way from each position.
BestWays(items, src) ==
  [s \in 1..End(src) |-> LET W == Ways(items, src, s, Len(items)) IN IF W = {} THEN <<>> ELSE <<Best(items, W)>>]

Captures(items, src, s, v) ==
  [k \in DOMAIN SelectSeq(items, LAMBDA i : i.at \in {"open", "position"}) |->
     LET o == Nth(items, k) IN IF items[o].at = "position" THEN Pos(Starts(v, s, o)) ELSE Text(CaptureText(items, src, s, v, o))]
Whole(src, s, e, caps, find) == IF caps = <<>> /\ ~find THEN <<Part(src, s, e)>> ELSE caps
Meant(items, src, s, v, find) ==
  [at |-> "found", from |-> s, to |-> s + Sum(v), caps |-> Whole(src, s, s + Sum(v), Captures(items, src, s, v), find)]

MeantFrom(items, src, B, from, anchored, find) ==
  LET S == {s \in (IF anchored THEN {from} ELSE from..End(src)) : B[s] # <<>>}
  IN  IF S = {} THEN Nothing ELSE Meant(items, src, Min(S), B[Min(S)][1], find)

\* All matches one after the other, none that is empty where the last one ended.
RECURSIVE MeantAll(_, _, _, _, _)
MeantAll(items, src, B, from, last) ==
  LET S == {s \in from..End(src) : B[s] # <<>> /\ s + Sum(B[s][1]) # last}
  IN  IF S = {} THEN <<>>
      ELSE LET r == Meant(items, src, Min(S), B[Min(S)][1], FALSE)
           IN  <<r>> \o MeantAll(items, src, B, r.to, r.to)
-----------------------------------------------------------------------------
Caret(pat, anchored) == IF anchored THEN <<"^">> \o pat ELSE pat
State(anchored) == [src |-> call.src, pat |-> Caret(call.pat, anchored)]

Init ==
  /\ call \in {[op |-> "match", items |-> p, pat |-> TextOf(p), src |-> t] : p \in Patterns, t \in Subjects}
              \cup {[op |-> "bad", items |-> <<>>, pat |-> b[1], src |-> b[2]] : b \in Malformed}
  /\ answer = <<>>

Find == call.op = "match" /\ \E init \in Inits, anchored \in BOOLEAN, find \in BOOLEAN :
          answer' = <<"find", init, anchored, find, StrFindAux(State(anchored), init, find, FALSE)>>
Plain == call.op = "match" /\ answer' = <<"plain", StrFindAux(State(FALSE), 1, TRUE, TRUE)>>
All == call.op = "match" /\ answer' = <<"all", GMatch(State(FALSE), 1, Null, MatchAt(State(FALSE), 1, 1), <<>>)>>
Substitute == call.op = "match" /\ \E repl \in Replacements, max \in {1, 9}, anchored \in BOOLEAN :
                answer' = <<"gsub", repl, max, anchored, StrGsub(State(anchored), repl, max)>>
Reject == call.op = "bad" /\ answer' = <<"bad", StrFindAux(State(FALSE), 1, FALSE, FALSE)>>

Next == answer = <<>> /\ (Find \/ Plain \/ All \/ Substitute \/ Reject) /\ UNCHANGED call

Spec == Init /\ [][Next]_vars
-----------------------------------------------------------------------------
Asked(op) == answer # <<>> /\ answer[1] = op
RECURSIVE Joined(_)
Joined(values) == IF values = <<>> THEN <<>> ELSE Head(values).text \o Joined(Tail(values))

(***************************************************************************)
(* find and match give the leftmost match, the preferred one of those that *)
(* begin there, with its captures, from the right place on; a plain search *)
(* gives the first place where the text is.                                *)
(***************************************************************************)
FirstBestFound ==
  /\ Asked("find") =>
       LET r == IF answer[2] >= 0 THEN answer[2] ELSE End(call.src) + answer[2]
           from == IF r < 1 THEN 1 ELSE r
       IN  answer[5] = IF from > End(call.src) THEN Nothing
                       ELSE MeantFrom(call.items, call.src, BestWays(call.items, call.src), from, answer[3], answer[4])
  /\ Asked("plain") =>
       LET t == TextOf(call.items)
           S == {s \in 1..(End(call.src) - Len(t)) : SubSeq(call.src, s, s + Len(t) - 1) = t}
       IN  answer[2] = IF S = {} THEN Nothing ELSE [at |-> "found", from |-> Min(S), to |-> Min(S) + Len(t), caps |-> <<>>]

\* The subject from a position on, with an x for each of the first n matches.
RECURSIVE Built(_, _, _, _)
Built(src, all, n, from) ==
  IF n = 0 THEN SubSeq(src, from, Len(src))
  ELSE SubSeq(src, from, Head(all).from - 1) \o <<"x">> \o Built(src, Tail(all), n - 1, Head(all).to)

(***************************************************************************)
(* gmatch gives all matches in their order, and gsub replaces the same     *)
(* ones: with what keeps them the text stays as it is.                     *)
(***************************************************************************)
AllMatchesOnce ==
  /\ Asked("all") => answer[2] = MeantAll(call.items, call.src, BestWays(call.items, call.src), 1, Null)
  /\ Asked("gsub") =>
       LET all == MeantAll(call.items, call.src, BestWays(call.items, call.src), 1, Null)
           n == answer[5].n
       IN  /\ answer[4] => n <= 1
           /\ ~answer[4] /\ ~Bad(answer[5].out) => n = (IF Len(all) > answer[3] THEN answer[3] ELSE Len(all))
           /\ answer[2].makes = "same" => Joined(answer[5].out) = call.src
           /\ answer[2].makes = "x" /\ ~answer[4] => Joined(answer[5].out) = Built(call.src, all, n, 1)

(***************************************************************************)
(* What is no pattern raises an error.                                     *)
(***************************************************************************)
MalformedRaises == Asked("bad") => answer[2] = Error
=============================================================================
