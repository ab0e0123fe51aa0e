----------------------------- MODULE UtilLists -----------------------------
(***************************************************************************)
(* Lists, ranges, paths and words in dmesg-util/strutils.c: pointers into  *)
(* a string that is walked character by character, with the end of the     *)
(* string looked at one ahead.  A string is a sequence of characters,      *)
(* position Len + 1 its NUL.                                               *)
(***************************************************************************)
EXTENDS Integers, Sequences, FiniteSets

CONSTANTS
  Chars,      \* the characters of the strings; "," "/" and " " are special
  MaxLen,     \* length of a string
  Ids,        \* name2id: from names, sequences of characters, to numbers
  ArraySize   \* the places of the array

VARIABLES call, answer
vars == <<call, answer>>

Strings == UNION {[1..n -> Chars] : n \in 0..MaxLen}
At(s, p) == IF p <= Len(s) THEN s[p] ELSE "NUL"

IdOf(name) == IF name \in DOMAIN Ids THEN Ids[name] ELSE -1

\* Where the name read so far ends, 0 when it goes on.
NameEnd(s, p) == IF p = Len(s) THEN p + 1 ELSE IF At(s, p) = "," THEN p ELSE 0

(***************************************************************************)
(* The walk that string_to_idarray, string_to_bitarray and                 *)
(* string_to_bitmask have in common: items is what it has stored.          *)
(***************************************************************************)
RECURSIVE Walk(_, _, _, _, _)
Walk(s, p, begin, items, size) ==
  LET first == IF begin = 0 THEN p ELSE begin
      end == NameEnd(s, p)
      id == IdOf(SubSeq(s, first, end - 1))
  IN  IF p > Len(s) THEN [items |-> items, rc |-> Len(items)]
      ELSE IF Len(items) >= size THEN [items |-> items, rc |-> -2]
      ELSE IF end = 0 THEN Walk(s, p + 1, first, items, size)
      ELSE IF end <= first \/ id = -1 THEN [items |-> items, rc |-> -1]
      ELSE IF end > Len(s) THEN [items |-> Append(items, id), rc |-> Len(items) + 1]
      ELSE Walk(s, p + 1, 0, Append(items, id), size)

StringToIdarray(s, size) ==
  IF s = <<>> \/ size = 0 THEN [items |-> <<>>, rc |-> -1] ELSE Walk(s, 1, 0, <<>>, size)

\* A bit array and a bit mask have no size to reach.
StringToBits(s) == LET w == Walk(s, 1, 0, <<>>, MaxLen + 1)
                   IN  [w EXCEPT !.rc = IF w.rc < 0 THEN w.rc ELSE 0]

Room(kept) == ArraySize - Len(kept)

\* "+a,b" appends to the old items; on an error these are kept or, without
\* the plus, counted no longer.
AddToIdarray(s, old) ==
  LET adding == s # <<>> /\ s[1] = "+"
      kept == IF adding THEN old ELSE <<>>
      w == StringToIdarray(IF adding THEN Tail(s) ELSE s, Room(kept))
  IN  IF s = <<>> THEN [items |-> old, rc |-> -1]
      ELSE [items |-> IF w.rc > 0 THEN kept \o w.items ELSE kept, rc |-> w.rc]

Slashes(s, p) ==
  CHOOSE q \in p..(Len(s) + 1) :
    /\ ~(At(s, q) = "/" /\ At(s, q + 1) = "/")
    /\ \A r \in p..(q - 1) : At(s, r) = "/" /\ At(s, r + 1) = "/"

\* next_path_segment: one slash and the name behind it; <<start, size>>.
NextPathSegment(s, p) ==
  LET start == Slashes(s, p)
      ends == {q \in (start + 1)..(Len(s) + 1) : At(s, q) \in {"/", "NUL"}}
  IN  IF start > Len(s) THEN <<start, 0>>
      ELSE <<start, (CHOOSE q \in ends : \A r \in ends : q <= r) - start>>

RECURSIVE SameFrom(_, _, _, _)
SameFrom(a, p, b, q) ==
  LET x == NextPathSegment(a, p)
      y == NextPathSegment(b, q)
      slash == At(a, x[1]) = "/" \/ At(b, y[1]) = "/"
  IN  \/ x[2] + y[2] = 0
      \/ x[2] + y[2] = 1 /\ slash
      \/ /\ x[2] + y[2] > 0 /\ ~(x[2] + y[2] = 1 /\ slash)
         /\ SubSeq(a, x[1], x[1] + x[2] - 1) = SubSeq(b, y[1], y[1] + y[2] - 1)
         /\ SameFrom(a, x[1] + x[2], b, y[1] + y[2])
StreqPaths(a, b) == SameFrom(a, 1, b, 1)

\* strcspn_escaped: up to the first rejected character that is not escaped;
\* an escape that the string ends with is left out.
RECURSIVE SpanEscaped(_, _, _, _)
SpanEscaped(s, p, reject, escaped) ==
  IF p > Len(s) THEN (IF escaped THEN p - 1 ELSE p)
  ELSE IF escaped THEN SpanEscaped(s, p + 1, reject, FALSE)
  ELSE IF s[p] = "\\" THEN SpanEscaped(s, p + 1, reject, TRUE)
  ELSE IF s[p] \in reject THEN p ELSE SpanEscaped(s, p + 1, reject, FALSE)

\* The quote that ends a word is missing, or something follows it.
Garbage(s, q) == At(s, q) # "'" \/ At(s, q + 1) \notin {" ", "NUL"}

\* split with quoted set: the word and the new state; no word: <<>> and where
\* the state is left.
Split(s, state) ==
  LET separators == {q \in state..(Len(s) + 1) : At(s, q) # " "}
      current == CHOOSE q \in separators : \A r \in separators : q <= r
      quoted == At(s, current) = "'"
      end == IF quoted THEN SpanEscaped(s, current + 1, {"'"}, FALSE) ELSE SpanEscaped(s, current, {" "}, FALSE)
  IN  IF current > Len(s) THEN [found |-> FALSE, word |-> <<>>, state |-> current]
      ELSE IF quoted
        THEN IF Garbage(s, end) THEN [found |-> FALSE, word |-> <<>>, state |-> current]
             ELSE [found |-> TRUE, word |-> SubSeq(s, current + 1, end - 1), state |-> end + 1]
      ELSE IF At(s, end) \notin {" ", "NUL"} THEN [found |-> FALSE, word |-> <<>>, state |-> current]
      ELSE [found |-> TRUE, word |-> SubSeq(s, current, end - 1), state |-> end]

Init == call \in Strings /\ answer = [op |-> "none"]

Answer(a) == answer.op = "none" /\ answer' = a /\ UNCHANGED call
Ids2 == <<7, 8>>    \* what the array holds before "+..." is added

List == Answer([op |-> "list", ids |-> StringToIdarray(call, ArraySize), bits |-> StringToBits(call)])
Add == Answer([op |-> "add", ids |-> AddToIdarray(call, Ids2)])
Paths == \E b \in {<<>>, <<"/">>, <<"/", "a">>, <<"/", "a", "/">>, <<"a">>, <<"a", "/", "a">>} :
           Answer([op |-> "paths", other |-> b, same |-> StreqPaths(call, b)])
Words == \E state \in 1..(Len(call) + 1) : Answer([op |-> "words", from |-> state, to |-> Split(call, state)])

Next == List \/ Add \/ Paths \/ Words

Spec == Init /\ [][Next]_vars
-----------------------------------------------------------------------------
\* The pieces between commas, as positions.
Pieces(s) ==
  LET cuts == {0, Len(s) + 1} \cup {p \in 1..Len(s) : s[p] = ","}
      After(p) == CHOOSE q \in cuts : q > p /\ \A r \in cuts : r > p => q <= r
  IN  {<<p, SubSeq(s, p + 1, After(p) - 1)>> : p \in cuts \ {Len(s) + 1}}

(***************************************************************************)
(* A list is taken exactly if each of its names is known and all have a    *)
(* place; the array then holds their numbers in order, and the bit array   *)
(* and the bit mask take the same lists (the three walks).                 *)
(***************************************************************************)
ListsTaken ==
  answer.op = "list" /\ call # <<>> =>
    LET known == \A piece \in Pieces(call) : IdOf(piece[2]) # -1
        count == Cardinality(Pieces(call))
    IN  /\ (answer.ids.rc > 0) = (known /\ count <= ArraySize)
        /\ (answer.bits.rc = 0) = known
        /\ answer.ids.rc > 0 => /\ answer.ids.rc = count
                                /\ \A piece \in Pieces(call) : \E k \in 1..count :
                                     /\ answer.ids.items[k] = IdOf(piece[2])
                                     /\ Cardinality({o \in Pieces(call) : o[1] < piece[1]}) = k - 1

(***************************************************************************)
(* "+a,b" leaves what is in the array and never stores behind its end      *)
(* (string_add_to_idarray passes the walk what room is left).              *)
(***************************************************************************)
AddKeepsOld ==
  answer.op = "add" =>
    /\ Len(answer.ids.items) <= ArraySize
    /\ call # <<>> /\ call[1] = "+" => SubSeq(answer.ids.items, 1, Len(Ids2)) = Ids2

\* A path as its segments, and whether it begins with a slash.
Segments(s) == [k \in 1..Cardinality({p \in 1..Len(s) : s[p] # "/" /\ (p = 1 \/ s[p - 1] = "/")}) |->
  LET starts == {p \in 1..Len(s) : s[p] # "/" /\ (p = 1 \/ s[p - 1] = "/")}
      start == CHOOSE p \in starts : Cardinality({q \in starts : q < p}) = k - 1
      end == CHOOSE q \in start..Len(s) : (q = Len(s) \/ s[q + 1] = "/") /\ \A r \in start..q : s[r] # "/"
  IN SubSeq(s, start, end)]
Absolute(s) == Len(s) > 0 /\ s[1] = "/"

(***************************************************************************)
(* Two paths are the same if their segments are and both are relative or   *)
(* both absolute; repeated and trailing slashes do not count (streq_paths).*)
(***************************************************************************)
PathsCompared ==
  answer.op = "paths" =>
    answer.same = (/\ Segments(call) = Segments(answer.other)
                   /\ Segments(call) # <<>> => Absolute(call) = Absolute(answer.other))

(***************************************************************************)
(* Splitting goes on: a word moves the state forward, to a separator or    *)
(* the end, so that calls until NULL come to an end (split).               *)
(***************************************************************************)
SplitAdvances ==
  answer.op = "words" /\ answer.to.found =>
    /\ answer.to.state > answer.from
    /\ At(call, answer.to.state) \in {" ", "NUL"}
=============================================================================
