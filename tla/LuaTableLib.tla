---------------------------- MODULE LuaTableLib ----------------------------
(***************************************************************************)
(* The table library (ltablib.c): insert, remove, move, concat, unpack and *)
(* sort.  A table is a function from all integers of a small width to      *)
(* values, 0 for nil; what an order function says is a set of pairs, which *)
(* need not be an order.                                                   *)
(***************************************************************************)
EXTENDS Integers, Sequences, FiniteSets

CONSTANTS
  MaxInteger,                \* LUA_MAXINTEGER
  MaxResults,                \* what unpack can push
  RanLimit, Imbalance,       \* RANLIMIT; 128
  Lists,                     \* sequences of values
  Orders,                    \* pairs of a list and an order function to sort it with
  Seeds                      \* what l_randomizePivot can return

VARIABLES call, answer
vars == <<call, answer>>

Indices == (-MaxInteger - 1)..MaxInteger
Nil == 0
Sep == -1
TableOf(s) == [i \in Indices |-> IF i \in DOMAIN s THEN s[i] ELSE Nil]
Done(t) == [ok |-> TRUE, t |-> t]
Raised(t) == [ok |-> FALSE, t |-> t]
-----------------------------------------------------------------------------
(* Moving elements, one after the other.                                   *)
RECURSIVE MoveUp(_, _, _)
MoveUp(t, i, pos) == IF i > pos THEN MoveUp([t EXCEPT ![i] = t[i - 1]], i - 1, pos) ELSE t
TInsert(t, n, pos, v) == IF pos \in 1..(n + 1) THEN Done([MoveUp(t, n + 1, pos) EXCEPT ![pos] = v]) ELSE Raised(t)

RECURSIVE MoveDown(_, _, _)
MoveDown(t, pos, size) == IF pos < size THEN MoveDown([t EXCEPT ![pos] = t[pos + 1]], pos + 1, size) ELSE [t EXCEPT ![pos] = Nil]
TRemove(t, size, pos) == IF pos # size /\ pos \notin 1..(size + 1) THEN Raised(t) ELSE Done(MoveDown(t, pos, size))

Copied(to, from, f, t, i) == [to EXCEPT ![t + i] = from[f + i]]
RECURSIVE CopyUp(_, _, _, _, _, _, _)
CopyUp(to, from, same, f, t, n, i) ==
  IF i = n THEN to ELSE CopyUp(Copied(to, IF same THEN to ELSE from, f, t, i), from, same, f, t, n, i + 1)
RECURSIVE CopyDown(_, _, _, _)
CopyDown(to, f, t, i) == IF i < 0 THEN to ELSE CopyDown(Copied(to, to, f, t, i), f, t, i - 1)

Overlapping(f, e, t, same) == same /\ ~(t > e \/ t <= f)
TMove(from, to, same, f, e, t) ==
  IF e < f THEN Done(to)
  ELSE IF ~(f > 0 \/ e < MaxInteger + f) \/ t > MaxInteger - (e - f + 1) + 1 THEN Raised(to)
  ELSE IF Overlapping(f, e, t, same) THEN Done(CopyDown(to, f, t, e - f)) ELSE Done(CopyUp(to, from, same, f, t, e - f + 1, 0))

RECURSIVE TConcat(_, _, _, _)
TConcat(t, i, last, out) ==
  IF i > last THEN Done(out)
  ELSE IF t[i] = Nil THEN Raised(out)
  ELSE IF i = last THEN Done(Append(out, t[i])) ELSE TConcat(t, i + 1, last, out \o <<t[i], Sep>>)

TPack(args) == [i \in Indices |-> IF i \in DOMAIN args THEN args[i] ELSE Nil]
Unpacked(t, i, e) == [k \in 1..(e - i + 1) |-> t[i + k - 1]]
TUnpack(t, i, e) == IF i > e THEN Done(<<>>) ELSE IF e - i >= MaxResults THEN Raised(<<>>) ELSE Done(Unpacked(t, i, e))
-----------------------------------------------------------------------------
(* Quicksort of a[lo..up]; less is the set of pairs sort_comp holds for.   *)
(* index 0 is an error; indices are unsigned.                              *)
Less(less, x, y) == <<x, y>> \in less
Set2(a, i, j) == [a EXCEPT ![i] = a[j], ![j] = a[i]]
SetIf(a, i, j, swap) == IF swap THEN Set2(a, i, j) ELSE a

RECURSIVE StepUp(_, _, _, _, _)
StepUp(a, less, i, up, P) ==
  IF ~Less(less, a[i], P) THEN i ELSE IF i = up - 1 THEN 0 ELSE StepUp(a, less, i + 1, up, P)
RECURSIVE StepDown(_, _, _, _, _)
StepDown(a, less, i, j, P) ==
  IF ~Less(less, P, a[j]) THEN j ELSE IF j < i THEN 0 ELSE StepDown(a, less, i, j - 1, P)

RECURSIVE Partition(_, _, _, _, _, _)
Meet(a, less, i, j, up, P) ==
  IF i = 0 \/ j = 0 THEN [a |-> a, i |-> 0]
  ELSE IF j < i THEN [a |-> Set2(a, up - 1, i), i |-> i] ELSE Partition(Set2(a, i, j), less, i, j, up, P)
FromBelow(a, less, i, j, up, P) == Meet(a, less, i, IF i = 0 THEN 0 ELSE StepDown(a, less, i, j - 1, P), up, P)
Partition(a, less, i, j, up, P) == FromBelow(a, less, StepUp(a, less, i + 1, up, P), j, up, P)

ChoosePivot(lo, up, rnd) == (rnd % (2 * ((up - lo) \div 4))) + lo + ((up - lo) \div 4)
PivotIndex(lo, up, rnd) == IF up - lo < RanLimit \/ rnd = 0 THEN (lo + up) \div 2 ELSE ChoosePivot(lo, up, rnd)

\* The median of three gets to p.
MedianAt(a, less, lo, up, p) ==
  IF Less(less, a[p], a[lo]) THEN Set2(a, p, lo) ELSE SetIf(a, p, up, Less(less, a[up], a[p]))

\* Unsigned: an interval that is gone counts as a large one.
Rnd(lo, up, n, rnd, seed) == IF up < lo \/ (up - lo) \div Imbalance > n THEN seed ELSE rnd

RECURSIVE AuxSort(_, _, _, _, _, _)
\* The larger interval, after the smaller one was sorted.
Larger(r, less, lo, up, n, rnd, seed) == IF r.ok THEN AuxSort(r.t, less, lo, up, Rnd(lo, up, n, rnd, seed), seed) ELSE r
Parted(r, less, lo, up, rnd, seed) ==
  LET p == r.i IN
  IF p = 0 THEN Raised(r.a)
  ELSE IF p - lo < up - p THEN Larger(AuxSort(r.a, less, lo, p - 1, rnd, seed), less, p + 1, up, p - lo, rnd, seed)
  ELSE Larger(AuxSort(r.a, less, p + 1, up, rnd, seed), less, lo, p - 1, up - p, rnd, seed)
Three(a, less, lo, up, p, rnd, seed) ==
  IF up - lo = 2 THEN Done(a) ELSE Parted(Partition(Set2(a, p, up - 1), less, lo, up - 1, up, a[p]), less, lo, up, rnd, seed)
Two(a, less, lo, up, p, rnd, seed) ==
  IF up - lo = 1 THEN Done(a) ELSE Three(MedianAt(a, less, lo, up, p), less, lo, up, p, rnd, seed)
AuxSort(a, less, lo, up, rnd, seed) ==
  IF lo >= up THEN Done(a)
  ELSE Two(SetIf(a, lo, up, Less(less, a[up], a[lo])), less, lo, up, PivotIndex(lo, up, rnd), rnd, seed)
Sort(a, less, seed) == AuxSort(a, less, 1, Len(a), 0, seed)
-----------------------------------------------------------------------------
Init ==
  /\ call \in {[op |-> "list", s |-> s] : s \in Lists} \cup {[op |-> "sort", s |-> o[1], less |-> o[2]] : o \in Orders}
  /\ answer = <<>>

T == TableOf(call.s)
N == Len(call.s)
Other == [i \in Indices |-> 9]
Near == -1..(N + 2)

InsertOne == call.op = "list" /\ \E pos \in Near : answer' = <<"insert", pos, TInsert(T, N, pos, 9)>>
RemoveOne == call.op = "list" /\ \E pos \in Near : answer' = <<"remove", pos, TRemove(T, N, pos)>>
Move == call.op = "list" /\ \E f \in Indices, e \in Indices, t \in Indices, same \in BOOLEAN :
          answer' = <<"move", f, e, t, same, TMove(T, IF same THEN T ELSE Other, same, f, e, t)>>
Concat == call.op = "list" /\ \E i \in Near, last \in Near : answer' = <<"concat", i, last, TConcat(T, i, last, <<>>)>>
PackAndUnpack == call.op = "list" /\ \E i \in Indices, e \in Indices : answer' = <<"unpack", i, e, TUnpack(TPack(call.s), i, e)>>
SortAll == call.op = "sort" /\ \E seed \in Seeds : answer' = <<"sort", Sort(call.s, call.less, seed)>>

Next == answer = <<>> /\ (InsertOne \/ RemoveOne \/ Move \/ Concat \/ PackAndUnpack \/ SortAll) /\ UNCHANGED call

Spec == Init /\ [][Next]_vars
-----------------------------------------------------------------------------
Asked(op) == answer # <<>> /\ answer[1] = op

(***************************************************************************)
(* insert and remove shift what is above the position by one; move copies  *)
(* as if at once, over itself and to the ends of the integers, and refuses *)
(* what does not fit between them; concat and unpack take a range.         *)
(***************************************************************************)
ElementsMoved ==
  /\ Asked("insert") =>
       LET pos == answer[2] IN
       answer[3] = IF pos \in 1..(N + 1) THEN Done(TableOf(SubSeq(call.s, 1, pos - 1) \o <<9>> \o SubSeq(call.s, pos, N))) ELSE Raised(T)
  /\ Asked("remove") =>
       LET pos == answer[2] IN
       answer[3] = IF pos \in 1..N THEN Done(TableOf(SubSeq(call.s, 1, pos - 1) \o SubSeq(call.s, pos + 1, N)))
                   ELSE IF pos \in {N, N + 1} THEN Done(T) ELSE Raised(T)
  /\ Asked("move") =>
       LET f == answer[2] e == answer[3] t == answer[4] to == IF answer[5] THEN T ELSE Other
       IN  answer[6] = IF e >= f /\ (e - f + 1 > MaxInteger \/ t + e - f > MaxInteger) THEN Raised(to)
                       ELSE Done([i \in Indices |-> IF i \in t..(t + e - f) THEN T[f + i - t] ELSE to[i]])
  /\ Asked("concat") =>
       LET i == answer[2] last == answer[3] r == answer[4]
       IN  /\ r.ok = (i..last \subseteq 1..N)
           /\ r.ok => SelectSeq(r.t, LAMBDA v : v # Sep) = SubSeq(call.s, i, last)
  /\ Asked("unpack") =>
       LET i == answer[2] e == answer[3] r == answer[4]
       IN  /\ r.ok = (e - i + 1 <= MaxResults)
           /\ r.ok => Len(r.t) = (IF e < i THEN 0 ELSE e - i + 1) /\ \A k \in DOMAIN r.t : r.t[k] = T[i + k - 1]

\* A strict weak order of the values of a list.
WeakOrder(less, V) ==
  /\ \A x \in V : <<x, x>> \notin less
  /\ \A x, y, z \in V : (<<x, y>> \in less /\ <<y, z>> \in less => <<x, z>> \in less)
                        /\ (<<x, y>> \in less => <<x, z>> \in less \/ <<z, y>> \in less)

(***************************************************************************)
(* sort keeps the elements, whatever the order function says and even if   *)
(* it ends with an error, and reads none outside of the list; by an order  *)
(* it sorts, without an error.                                             *)
(***************************************************************************)
SortedSame ==
  Asked("sort") =>
    LET a == call.s b == answer[2].t V == {call.s[i] : i \in DOMAIN call.s} IN
    /\ DOMAIN b = DOMAIN a
    /\ \A v \in V : Cardinality({i \in DOMAIN a : a[i] = v}) = Cardinality({i \in DOMAIN b : b[i] = v})
    /\ WeakOrder(call.less, V) =>
         answer[2].ok /\ \A i \in 1..(Len(b) - 1) : ~Less(call.less, b[i + 1], b[i])
=============================================================================
