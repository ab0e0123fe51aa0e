-------------------------- MODULE LuaThreadsProofs --------------------------
(***************************************************************************)
(* Proofs about LuaThreads: calls are counted over all threads, and what a *)
(* thread has on its stack when it yields can be continued (CallsBalanced);*)
(* an error gets to the innermost protected call (ErrorsReachInnermost).   *)
(*                                                                         *)
(* The C stack is cut into segments, one for each thread that runs or      *)
(* waits for one it resumed; a record of the C stack and the frame of the  *)
(* function that it waits in, belong together; and every C function with a *)
(* function above it that has no continuation waits in a call that cannot  *)
(* be left by a yield.                                                     *)
(***************************************************************************)
EXTENDS LuaThreads, FiniteSetTheorems, SequenceTheorems, WellFoundedInduction, TLAPS

Kinds == {"lua"} \cup CFunctions
FrameSet == [kind : Kinds, fresh : BOOLEAN, ypcall : BOOLEAN, old : Nat]
ThreadSet ==
  [status : {"ok", "yield", "err"}, frames : Seq(FrameSet), start : BOOLEAN, nny : Int, nC : Int, errf : Nat, size : Int]
RecordSet ==
  [at : {"call"}, l : Threads, ci : Nat, noyield : BOOLEAN]
    \cup [at : {"pcall"}, l : Threads, ci : Nat, nC : Int, nny : Int, errf : Nat]
    \cup [at : {"resume"}, l : Threads, from : Threads, nC : Int, nny : Int]
    \cup [at : {"errormsg", "unroll"}, l : Threads]
Goings == {"run", "body", "call", "callnoyield", "raise", "throw", "return", "unroll", "stop"}
-----------------------------------------------------------------------------
(* The C stack s while the thread l runs.                                  *)

\* Records of one thread follow each other up to the next resume.
Segments(s, l) ==
  /\ Len(s) > 0 /\ s[1].at = "pcall" /\ s[1].l = "main" /\ s[1].ci = 0 /\ s[Len(s)].l = l
  /\ \A i, j \in 1..Len(s) : i < j => (s[i].l = s[j].l <=> \A k \in (i + 1)..j : s[k].at # "resume")
  /\ \A i \in 2..Len(s) : s[i].at = "resume" => s[i].from = s[i - 1].l
  /\ \A i \in 1..Len(s) : s[i].l = l \/ \E j \in 2..Len(s) : s[j].at = "resume" /\ s[j].from = s[i].l
On(s, t) == \E i \in 1..Len(s) : s[i].l = t

\* Above the frame b of g there are Lua functions up to n, which one luaV_execute
\* runs; what runs above the record r, and what C function called from there.
Ran(g, b, n) == b < n /\ n <= Len(g) /\ \A k \in (b + 1)..n : g[k].kind = "lua" /\ g[k].fresh = (k = b + 1)
RunsAbove(r, g, n) ==
  /\ r.at \in {"call", "resume", "unroll"}
  /\ \E b \in 0..n : Ran(g, b, n) /\ (r.at = "call" => b = r.ci) /\ (r.at = "resume" => b = 0)
Within(r, g, n, kinds) == n \in 1..Len(g) /\ g[n].kind \in kinds /\ RunsAbove(r, g, n - 1)

\* The record r above b, and the frame it waits in.
Deep(r) == r.at \in {"call", "pcall"}
FollowsAt(b, r) ==
  /\ b.at \in {"pcall", "errormsg"} => r.at = "call" /\ r.noyield
  /\ b.at = "pcall" => r.ci = b.ci
  /\ r.at = "unroll" => b.at = "resume"
WaitsAt(b, r, ths) ==
  /\ r.at = "call" /\ b.at \notin {"pcall", "errormsg"} => Within(b, ths[r.l].frames, r.ci, CFunctions)
  /\ r.at = "pcall" => Within(b, ths[r.l].frames, r.ci, Protecting) /\ ~ths[r.l].frames[r.ci].ypcall
  /\ r.at = "resume" => Within(b, ths[r.from].frames, Len(ths[r.from].frames), {"resume", "wrap"})
Linked(s, ths) == \A i \in 2..Len(s) : FollowsAt(s[i - 1], s[i]) /\ WaitsAt(s[i - 1], s[i], ths)
Depths(s, ths) ==
  /\ \A i, j \in 1..Len(s) : i < j /\ Deep(s[i]) /\ Deep(s[j]) /\ s[i].l = s[j].l => s[i].ci <= s[j].ci
  /\ \A i \in 1..Len(s) : Deep(s[i]) => s[i].ci <= Len(ths[s[i].l].frames)

\* What a yield can leave: Lua functions, and calls protected by lua_resume.
Plain(f) == f.kind = "lua" \/ f.ypcall
Shape(g, n) == \A k \in 1..n : Plain(g[k])
Ypcalls(g) == \A k \in 1..Len(g) : g[k].ypcall => g[k].kind \in Protecting /\ Shape(g, k)
NoYpcalls(s, ths) ==
  \A i \in 1..Len(s) : s[i].at = "pcall" =>
    \A k \in 1..Len(ths[s[i].l].frames) : k > s[i].ci => ~ths[s[i].l].frames[k].ypcall
Unyields(s, i, t) == s[i].at = "call" /\ s[i].l = t /\ s[i].noyield
Covers(s, n, g, t) == \A k \in 1..(Len(g) - 1) : Plain(g[k]) \/ \E i \in 1..n : Unyields(s, i, t) /\ s[i].ci = k

Stacks(s, ths, l) ==
  /\ Segments(s, l) /\ Linked(s, ths) /\ Depths(s, ths) /\ NoYpcalls(s, ths)
  /\ \A t \in Threads : Ypcalls(ths[t].frames)
  /\ \A t \in Threads : On(s, t) => Covers(s, Len(s), ths[t].frames, t)

\* Calls up to the record i, and those of t that cannot be left by a yield.
Limit == MaxCCalls + CCallsExtra
Count(s, i) == Cardinality({k \in 1..i : s[k].at \in {"call", "resume"}})
Nny(s, t, i) == Cardinality({k \in 1..i : Unyields(s, k, t)}) + (IF t = "main" THEN 1 ELSE 0)
Counts(s, ths, l) ==
  /\ ths[l].nC = Count(s, Len(s))
  /\ \A i \in 1..Len(s) : s[i].at \in {"pcall", "resume"} => s[i].nC = Count(s, i) /\ s[i].nC < Limit
  /\ \A i \in 1..Len(s) : s[i].at = "resume" => ths[s[i].from].nC = Count(s, i - 1)
  /\ \A i \in 1..Len(s) : s[i].at = "pcall" => s[i].nny = Nny(s, s[i].l, i - 1)
  /\ \A i \in 1..Len(s) : ths[s[i].l].nny = Nny(s, s[i].l, Len(s))

\* What comes next, with the record r on top of the C stack and the frames g.
Continues(r, g, go) ==
  /\ go = "run" => RunsAbove(r, g, Len(g))
  /\ go \in {"body", "call"} => Within(r, g, Len(g), CFunctions) /\ g[Len(g)].ypcall = (go = "call")
  /\ go = "callnoyield" =>
       \/ r.at = "errormsg"
       \/ r.at = "pcall" /\ r.ci = Len(g)
       \/ Within(r, g, Len(g), {"sort"})
  /\ go \in {"raise", "throw"} => r.at \notin {"pcall", "errormsg"}
  /\ go = "return" =>
       /\ r.at # "errormsg"
       /\ Deep(r) => r.ci = Len(g)
       /\ r.at = "resume" => Len(g) = 0
       /\ r.at = "unroll" => Shape(g, Len(g))
  /\ go = "unroll" => r.at = "unroll" /\ Shape(g, Len(g))
Bounded(n, go) == n < Limit \/ (go = "throw" /\ n = Limit)

\* The threads that are on the C stack, and those that are not.
Suspended(T) == Len(T.frames) > 0 /\ T.frames[Len(T.frames)].kind = "yield" /\ Shape(T.frames, Len(T.frames) - 1)
Statuses(s, ths, l) ==
  /\ \A t \in Threads : On(s, t) => ~ths[t].start /\ (t # l => ths[t].status = "ok")
  /\ \A t \in Threads : ~On(s, t) =>
       /\ ths[t].status = "ok" => ths[t].frames = <<>>
       /\ ths[t].status = "yield" => Suspended(ths[t])
Yielding(T, k) ==
  IF k.go = "throw" /\ k.st = "yield" THEN T.status = "yield" /\ Suspended(T) /\ T.nny = 0
  ELSE T.status = "ok" /\ k.st # "yield"

State(s, ths, l) ==
  /\ s \in Seq(RecordSet) /\ ths \in [Threads -> ThreadSet] /\ l \in Threads
  /\ Stacks(s, ths, l) /\ Counts(s, ths, l) /\ Statuses(s, ths, l)
CtlSet == [go : Goings, st : {"ok", "err", "yield"}, msg : {"", "error", "handled", "unhandled"}]
Good(s, ths, l, k) ==
  /\ State(s, ths, l) /\ k \in CtlSet
  /\ Continues(s[Len(s)], ths[l].frames, k.go) /\ Bounded(ths[l].nC, k.go) /\ Yielding(ths[l], k)
IInv == Going => Good(c, th, L, ctl)
-----------------------------------------------------------------------------
(* Greatest elements, records, and sequences.                              *)

LEMMA Least == ASSUME NEW S, S \subseteq Nat, S # {} PROVE \E x \in S : \A y \in S : x <= y
<1> DEFINE R == OpToRel(<, Nat)
<1>1. IsWellFoundedOn(R, Nat)
  BY NatLessThanWellFounded
<1>2. \A x, y \in Nat : x < y => <<x, y>> \in R
  BY DEF OpToRel
<1> HIDE DEF R
<1>3. PICK x \in S : \A y \in S : ~(<<y, x>> \in R)
  BY <1>1, WFMin
<1>4. ASSUME NEW y \in S PROVE x <= y
  <2>1. x \in Nat /\ y \in Nat /\ ~(y < x)
    BY <1>2, <1>3, Zenon
  <2> QED
    BY <2>1
<1> QED
  BY <1>4

LEMMA HighestIs ==
  ASSUME NEW n \in Nat, NEW S, S \subseteq 1..n
  PROVE  /\ S = {} => Highest(S) = 0
         /\ S # {} => Highest(S) \in S /\ \A j \in S : j <= Highest(S)
<1> SUFFICES ASSUME S # {} PROVE \E i \in S : \A j \in S : j <= i
  BY DEF Highest
<1> DEFINE D == {d \in Nat : n - d \in S}
<1>1. D # {}
  <2>1. PICK i \in S : TRUE
    OBVIOUS
  <2>2. i \in 1..n /\ n - i \in Nat /\ n - (n - i) = i
    BY <2>1
  <2> QED
    BY <2>1, <2>2
<1>2. PICK d \in D : \A e \in D : d <= e
  <2> HIDE DEF D
  <2>1. D \subseteq Nat
    BY DEF D
  <2> QED
    BY <1>1, <2>1, Least
<1>3. ASSUME NEW j \in S PROVE j <= n - d
  <2>1. n - j \in D
    BY <1>3
  <2> QED
    BY <1>2, <2>1
<1> QED
  BY <1>2, <1>3

LEMMA RecordFields ==
  ASSUME NEW r \in RecordSet
  PROVE  /\ r.at \in {"call", "pcall", "resume", "errormsg", "unroll"} /\ r.l \in Threads
         /\ Deep(r) => r.ci \in Nat
         /\ r.at = "call" => r.noyield \in BOOLEAN
         /\ r.at \in {"pcall", "resume"} => r.nC \in Int /\ r.nny \in Int
         /\ r.at = "pcall" => r.errf \in Nat
         /\ r.at = "resume" => r.from \in Threads
<1>1. CASE r \in [at : {"call"}, l : Threads, ci : Nat, noyield : BOOLEAN]
  BY <1>1 DEF Deep
<1>2. CASE r \in [at : {"pcall"}, l : Threads, ci : Nat, nC : Int, nny : Int, errf : Nat]
  BY <1>2 DEF Deep
<1>3. CASE r \in [at : {"resume"}, l : Threads, from : Threads, nC : Int, nny : Int]
  BY <1>3 DEF Deep
<1>4. CASE r \in [at : {"errormsg", "unroll"}, l : Threads]
  BY <1>4 DEF Deep
<1> QED
  BY <1>1, <1>2, <1>3, <1>4 DEF RecordSet

\* The C stack grows by a record, and is cut to the first n.
LEMMA Grown ==
  ASSUME NEW s \in Seq(RecordSet), NEW r \in RecordSet
  PROVE  LET t == Append(s, r) IN
         /\ t \in Seq(RecordSet) /\ Len(s) \in Nat /\ Len(t) = Len(s) + 1 /\ t[Len(s) + 1] = r
         /\ \A i \in 1..Len(s) : t[i] = s[i]
         /\ \A i \in 1..Len(t) : i \in 1..Len(s) \/ i = Len(s) + 1
<1>1. Len(s) \in Nat
  BY LenProperties
<1> QED
  BY <1>1, AppendProperties

LEMMA Cut ==
  ASSUME NEW S, NEW s \in Seq(S), NEW n \in 0..Len(s)
  PROVE  LET t == SubSeq(s, 1, n) IN
         /\ t \in Seq(S) /\ Len(s) \in Nat /\ Len(t) = n /\ n \in Nat
         /\ \A i \in 1..n : t[i] = s[i] /\ i \in 1..Len(s) /\ i \in 1..Len(t)
<1>1. Len(s) \in Nat /\ n \in Nat /\ \A i \in 1..n : i \in 1..Len(s)
  BY LenProperties
<1>2. \A i \in 1..n : s[i] \in S
  BY <1>1, ElementOfSeq
<1>3. /\ SubSeq(s, 1, n) \in Seq(S)
      /\ Len(SubSeq(s, 1, n)) = IF 1 <= n THEN n - 1 + 1 ELSE 0
      /\ \A i \in 1..(n - 1 + 1) : SubSeq(s, 1, n)[i] = s[1 + i - 1]
  BY <1>1, <1>2, SubSeqProperties
<1>4. Len(SubSeq(s, 1, n)) = n
  BY <1>1, <1>3
<1>5. \A i \in 1..n : i \in 1..(n - 1 + 1) /\ 1 + i - 1 = i
  BY <1>1
<1> QED
  BY <1>1, <1>3, <1>4, <1>5
-----------------------------------------------------------------------------
(* The C stack and the frames of the threads on it.                        *)

\* Records of t below n only, if t is not the thread of the record n.
LEMMA Lower ==
  ASSUME NEW s \in Seq(RecordSet), NEW l, Segments(s, l), NEW n \in 1..Len(s),
         NEW i \in 1..n, NEW j \in 1..Len(s), s[i].l = s[j].l, s[i].l # s[n].l
  PROVE  j \in 1..n
<1>1. Len(s) \in Nat /\ n \in Nat /\ i \in Nat /\ j \in Nat /\ i \in 1..Len(s)
  BY LenProperties
<1> SUFFICES ASSUME j > n PROVE FALSE
  BY <1>1
<1>2. i < j /\ i < n
  BY <1>1
<1>3. \A k \in (i + 1)..j : s[k].at # "resume"
  BY <1>1, <1>2 DEF Segments
<1>4. \A k \in (i + 1)..n : s[k].at # "resume"
  BY <1>1, <1>3
<1> QED
  BY <1>1, <1>2, <1>4 DEF Segments

\* A thread that resumed another has no records above.
LEMMA Resumed ==
  ASSUME NEW s \in Seq(RecordSet), NEW l, Segments(s, l), NEW i \in 2..Len(s), s[i].at = "resume", NEW j \in i..Len(s)
  PROVE  s[j].l # s[i].from /\ i - 1 \in 1..Len(s) /\ s[i - 1].l = s[i].from /\ \A k \in 1..(i - 1) : s[k].l # s[j].l
<1>1. Len(s) \in Nat /\ i \in Nat /\ j \in Nat /\ i - 1 \in 1..Len(s) /\ i - 1 < j /\ i \in ((i - 1) + 1)..j /\ j \in 1..Len(s)
  BY LenProperties
<1>2. s[i].from = s[i - 1].l
  BY DEF Segments
<1>3. ASSUME NEW k \in 1..(i - 1) PROVE s[k].l # s[j].l
  <2>1. k \in 1..Len(s) /\ k < j /\ i \in (k + 1)..j
    BY <1>1
  <2> QED
    BY <1>1, <2>1 DEF Segments
<1> QED
  BY <1>1, <1>2, <1>3

LEMMA SegmentsGrow ==
  ASSUME NEW s \in Seq(RecordSet), NEW l, Segments(s, l), NEW r \in RecordSet, r.at # "resume", r.l = l
  PROVE  Segments(Append(s, r), l)
<1> DEFINE t == Append(s, r)
           N == Len(s)
<1>1. N \in Nat /\ N > 0 /\ Len(t) = N + 1 /\ t[N + 1] = r /\ (\A i \in 1..N : t[i] = s[i])
      /\ \A i \in 1..(N + 1) : i \in 1..N \/ i = N + 1
  BY Grown DEF Segments
<1> HIDE DEF t
<1>2. ASSUME NEW i \in 1..(N + 1), NEW j \in 1..(N + 1), i < j
      PROVE  t[i].l = t[j].l <=> \A k \in (i + 1)..j : t[k].at # "resume"
  <2>1. CASE j \in 1..N
    <3>1. i \in 1..N /\ \A k \in (i + 1)..j : k \in 1..N
      BY <1>1, <1>2, <2>1
    <3>2. s[i].l = s[j].l <=> \A k \in (i + 1)..j : s[k].at # "resume"
      BY <1>2, <2>1, <3>1 DEF Segments
    <3> QED
      BY <1>1, <2>1, <3>1, <3>2
  <2>2. CASE j = N + 1 /\ i = N
    <3>1. \A k \in (i + 1)..j : k = N + 1
      BY <1>1, <2>2
    <3> QED
      BY <1>1, <2>2, <3>1 DEF Segments
  <2>3. CASE j = N + 1 /\ i # N
    <3>1. i \in 1..N /\ i < N /\ N \in 1..N
      BY <1>1, <1>2, <2>3
    <3>2. t[i] = s[i] /\ s[N].l = l /\ t[j] = r
      BY <1>1, <2>3, <3>1 DEF Segments
    <3>3. s[i].l = s[N].l <=> \A k \in (i + 1)..N : s[k].at # "resume"
      BY <3>1 DEF Segments
    <3>4. (\A k \in (i + 1)..N : s[k].at # "resume") <=> (\A k \in (i + 1)..j : t[k].at # "resume")
      <4>1. \A k \in (i + 1)..N : k \in 1..N /\ k \in (i + 1)..j /\ t[k] = s[k]
        BY <1>1, <2>3, <3>1
      <4>2. \A k \in (i + 1)..j : k \in (i + 1)..N \/ k = N + 1
        BY <1>1, <2>3, <3>1
      <4> QED
        BY <1>1, <4>1, <4>2
    <3> QED
      BY <3>2, <3>3, <3>4
  <2> QED
    BY <1>1, <1>2, <2>1, <2>2, <2>3
<1>3. ASSUME NEW i \in 2..(N + 1), t[i].at = "resume" PROVE t[i].from = t[i - 1].l
  <2>1. i \in 1..N /\ i \in 2..N /\ i - 1 \in 1..N
    BY <1>1, <1>3
  <2> QED
    BY <1>1, <1>3, <2>1 DEF Segments
<1>4. ASSUME NEW i \in 1..(N + 1), t[i].l # l PROVE \E j \in 2..(N + 1) : t[j].at = "resume" /\ t[j].from = t[i].l
  <2>1. i \in 1..N /\ t[i] = s[i]
    BY <1>1, <1>4
  <2>2. PICK j \in 2..N : s[j].at = "resume" /\ s[j].from = s[i].l
    BY <1>4, <2>1 DEF Segments
  <2>3. j \in 1..N /\ j \in 2..(N + 1)
    BY <1>1, <2>2
  <2> QED
    BY <1>1, <2>1, <2>2, <2>3
<1> QED
  <2>1. 1 \in 1..N /\ N + 1 > 0
    BY <1>1
  <2>2. t[1].at = "pcall" /\ t[1].l = "main" /\ t[1].ci = 0 /\ t[N + 1].l = l
    BY <1>1, <2>1 DEF Segments
  <2>3. Segments(t, l)
    <3>1. \A i, j \in 1..Len(t) : i < j => (t[i].l = t[j].l <=> \A k \in (i + 1)..j : t[k].at # "resume")
      BY <1>1, <1>2, Zenon
    <3>2. \A i \in 2..Len(t) : t[i].at = "resume" => t[i].from = t[i - 1].l
      BY <1>1, <1>3, Zenon
    <3>3. \A i \in 1..Len(t) : t[i].l = l \/ \E j \in 2..Len(t) : t[j].at = "resume" /\ t[j].from = t[i].l
      BY <1>1, <1>4, Zenon
    <3>4. Len(t) = N + 1
      BY <1>1, Zenon
    <3> QED
      BY <2>1, <2>2, <3>1, <3>2, <3>3, <3>4, <1>1, Zenon DEF Segments
  <2> QED
    BY <2>3 DEF t

LEMMA SegmentsResume ==
  ASSUME NEW s \in Seq(RecordSet), NEW l, Segments(s, l), NEW r \in RecordSet,
         r.at = "resume", r.from = l, ~On(s, r.l)
  PROVE  Segments(Append(s, r), r.l)
<1> DEFINE t == Append(s, r)
           N == Len(s)
<1>1. N \in Nat /\ N > 0 /\ Len(t) = N + 1 /\ t[N + 1] = r /\ (\A i \in 1..N : t[i] = s[i])
      /\ \A i \in 1..(N + 1) : i \in 1..N \/ i = N + 1
  BY Grown DEF Segments
<1> HIDE DEF t
<1>2. ASSUME NEW i \in 1..(N + 1), NEW j \in 1..(N + 1), i < j
      PROVE  t[i].l = t[j].l <=> \A k \in (i + 1)..j : t[k].at # "resume"
  <2>1. CASE j \in 1..N
    <3>1. i \in 1..N /\ \A k \in (i + 1)..j : k \in 1..N
      BY <1>1, <1>2, <2>1
    <3>2. s[i].l = s[j].l <=> \A k \in (i + 1)..j : s[k].at # "resume"
      BY <1>2, <2>1, <3>1 DEF Segments
    <3> QED
      BY <1>1, <2>1, <3>1, <3>2
  <2>2. CASE j = N + 1
    <3>1. i \in 1..N /\ j \in (i + 1)..j
      BY <1>1, <1>2, <2>2
    <3> QED
      BY <1>1, <2>2, <3>1 DEF On
  <2> QED
    BY <1>1, <2>1, <2>2
<1>3. ASSUME NEW i \in 2..(N + 1), t[i].at = "resume" PROVE t[i].from = t[i - 1].l
  <2>1. i \in 2..N \/ i = N + 1
    BY <1>1
  <2>2. CASE i = N + 1
    <3>1. i - 1 = N /\ N \in 1..N
      BY <1>1, <2>2
    <3> QED
      BY <1>1, <2>2, <3>1 DEF Segments
  <2>3. CASE i \in 2..N
    <3>1. i \in 1..N /\ i - 1 \in 1..N
      BY <1>1, <2>3
    <3> QED
      BY <1>1, <1>3, <2>3, <3>1 DEF Segments
  <2> QED
    BY <2>1, <2>2, <2>3
<1>4. ASSUME NEW i \in 1..(N + 1), t[i].l # r.l PROVE \E j \in 2..(N + 1) : t[j].at = "resume" /\ t[j].from = t[i].l
  <2>1. i \in 1..N /\ t[i] = s[i] /\ N + 1 \in 2..(N + 1)
    BY <1>1, <1>4
  <2>2. CASE s[i].l = l
    BY <1>1, <2>1, <2>2
  <2>3. CASE s[i].l # l
    <3>1. PICK j \in 2..N : s[j].at = "resume" /\ s[j].from = s[i].l
      BY <2>1, <2>3 DEF Segments
    <3>2. j \in 1..N /\ j \in 2..(N + 1)
      BY <1>1, <3>1
    <3> QED
      BY <1>1, <2>1, <3>1, <3>2
  <2> QED
    BY <2>2, <2>3
<1> QED
  <2>1. 1 \in 1..N /\ N + 1 > 0
    BY <1>1
  <2>2. t[1].at = "pcall" /\ t[1].l = "main" /\ t[1].ci = 0 /\ t[N + 1].l = r.l
    BY <1>1, <2>1 DEF Segments
  <2>3. Segments(t, r.l)
    <3>1. \A i, j \in 1..Len(t) : i < j => (t[i].l = t[j].l <=> \A k \in (i + 1)..j : t[k].at # "resume")
      BY <1>1, <1>2, Zenon
    <3>2. \A i \in 2..Len(t) : t[i].at = "resume" => t[i].from = t[i - 1].l
      BY <1>1, <1>3, Zenon
    <3>3. \A i \in 1..Len(t) : t[i].l = r.l \/ \E j \in 2..Len(t) : t[j].at = "resume" /\ t[j].from = t[i].l
      BY <1>1, <1>4, Zenon
    <3>4. Len(t) = N + 1
      BY <1>1, Zenon
    <3> QED
      BY <2>1, <2>2, <3>1, <3>2, <3>3, <3>4, <1>1, Zenon DEF Segments
  <2> QED
    BY <2>3 DEF t

LEMMA SegmentsCut ==
  ASSUME NEW s \in Seq(RecordSet), NEW l, Segments(s, l), NEW n \in 1..Len(s)
  PROVE  Segments(SubSeq(s, 1, n), s[n].l)
<1> DEFINE t == SubSeq(s, 1, n)
<1>1. Len(s) \in Nat /\ n \in Nat /\ n > 0 /\ Len(t) = n /\ \A i \in 1..n : t[i] = s[i] /\ i \in 1..Len(s)
  <2>1. n \in 0..Len(s) /\ n > 0
    BY LenProperties
  <2> QED
    BY <2>1, Cut
<1> HIDE DEF t
<1>2. ASSUME NEW i \in 1..n, NEW j \in 1..n, i < j
      PROVE  t[i].l = t[j].l <=> \A k \in (i + 1)..j : t[k].at # "resume"
  <2>1. \A k \in (i + 1)..j : k \in 1..n
    BY <1>1
  <2>2. s[i].l = s[j].l <=> \A k \in (i + 1)..j : s[k].at # "resume"
    BY <1>1, <1>2 DEF Segments
  <2> QED
    BY <1>1, <2>1, <2>2
<1>3. ASSUME NEW i \in 2..n, t[i].at = "resume" PROVE t[i].from = t[i - 1].l
  <2>1. i \in 1..n /\ i - 1 \in 1..n /\ i \in 2..Len(s)
    BY <1>1
  <2> QED
    BY <1>1, <1>3, <2>1 DEF Segments
<1>4. ASSUME NEW i \in 1..n, t[i].l # s[n].l PROVE \E j \in 2..n : t[j].at = "resume" /\ t[j].from = t[i].l
  <2>1. s[i].l # l
    <3>1. SUFFICES ASSUME s[i].l = l PROVE FALSE
      OBVIOUS
    <3>2. Len(s) \in 1..Len(s) /\ s[Len(s)].l = s[i].l
      BY <1>1, <3>1 DEF Segments
    <3>3. Len(s) \in 1..n
      BY <1>1, <1>4, <3>2, Lower
    <3> QED
      BY <1>1, <1>4, <3>2, <3>3
  <2>2. PICK j \in 2..Len(s) : s[j].at = "resume" /\ s[j].from = s[i].l
    BY <1>1, <2>1 DEF Segments
  <2>3. j - 1 \in 1..Len(s) /\ s[j - 1].l = s[i].l
    <3>1. j \in j..Len(s)
      BY <1>1
    <3> QED
      BY <2>2, <3>1, Resumed
  <2>4. j - 1 \in 1..n /\ j - 1 # n
    BY <1>1, <1>4, <2>3, Lower
  <2>5. j \in 2..n /\ j \in 1..n
    BY <1>1, <2>2, <2>4
  <2> QED
    BY <1>1, <2>2, <2>5
<1> QED
  <2>1. 1 \in 1..n /\ n \in 1..n
    BY <1>1
  <2>2. t[1].at = "pcall" /\ t[1].l = "main" /\ t[1].ci = 0 /\ t[n].l = s[n].l
    BY <1>1, <2>1 DEF Segments
  <2>3. Segments(t, s[n].l)
    <3>1. \A i, j \in 1..Len(t) : i < j => (t[i].l = t[j].l <=> \A k \in (i + 1)..j : t[k].at # "resume")
      BY <1>1, <1>2, Zenon
    <3>2. \A i \in 2..Len(t) : t[i].at = "resume" => t[i].from = t[i - 1].l
      BY <1>1, <1>3, Zenon
    <3>3. \A i \in 1..Len(t) : t[i].l = s[n].l \/ \E j \in 2..Len(t) : t[j].at = "resume" /\ t[j].from = t[i].l
      BY <1>1, <1>4, Zenon
    <3>4. Len(t) = n
      BY <1>1, Zenon
    <3> QED
      BY <2>1, <2>2, <3>1, <3>2, <3>3, <3>4, <1>1, Zenon DEF Segments
  <2> QED
    BY <2>3 DEF t

LEMMA ThreadFields ==
  ASSUME NEW T \in ThreadSet
  PROVE  /\ T.frames \in Seq(FrameSet) /\ Len(T.frames) \in Nat /\ T.nny \in Int /\ T.nC \in Int /\ T.errf \in Nat
         /\ T.status \in {"ok", "yield", "err"} /\ T.start \in BOOLEAN /\ T.size \in Int
         /\ \A k \in 1..Len(T.frames) : T.frames[k] \in FrameSet
BY LenProperties, ElementOfSeq DEF ThreadSet

LEMMA WithinSame ==
  ASSUME NEW g \in Seq(FrameSet), NEW f \in Seq(FrameSet), NEW n \in Nat, n <= Len(f),
         \A k \in 1..n : f[k] = g[k], NEW kinds, NEW r, Within(r, g, n, kinds)
  PROVE  Within(r, f, n, kinds)
<1>1. Len(f) \in Nat /\ Len(g) \in Nat /\ n \in 1..Len(g) /\ g[n].kind \in kinds /\ RunsAbove(r, g, n - 1) /\ n \in 1..n
  BY LenProperties DEF Within
<1>2. PICK b \in 0..(n - 1) : Ran(g, b, n - 1) /\ (r.at = "call" => b = r.ci) /\ (r.at = "resume" => b = 0)
  BY <1>1 DEF RunsAbove
<1>3. Ran(f, b, n - 1)
  <2>1. \A k \in (b + 1)..(n - 1) : k \in 1..n
    BY <1>1, <1>2
  <2>2. \A k \in (b + 1)..(n - 1) : f[k].kind = "lua" /\ f[k].fresh = (k = b + 1)
    BY <1>2, <2>1 DEF Ran
  <2>3. b < n - 1 /\ n - 1 <= Len(f)
    BY <1>1, <1>2 DEF Ran
  <2> QED
    BY <2>2, <2>3 DEF Ran
<1> QED
  BY <1>1, <1>2, <1>3 DEF Within, RunsAbove

\* A function is called, or a thread resumed.
LEMMA StacksGrow ==
  ASSUME NEW s \in Seq(RecordSet), NEW ths \in [Threads -> ThreadSet], NEW l, Stacks(s, ths, l),
         NEW r \in RecordSet, FollowsAt(s[Len(s)], r), WaitsAt(s[Len(s)], r, ths), Segments(Append(s, r), r.l),
         Deep(r) => r.l = l /\ r.ci = Len(ths[l].frames),
         On(s, r.l) \/ Covers(s, Len(s), ths[r.l].frames, r.l)
  PROVE  Stacks(Append(s, r), ths, r.l)
<1> DEFINE t == Append(s, r)
           N == Len(s)
<1>1. t \in Seq(RecordSet) /\ N \in Nat /\ N > 0 /\ Len(t) = N + 1 /\ t[N + 1] = r /\ (\A i \in 1..N : t[i] = s[i])
      /\ \A i \in 1..(N + 1) : i \in 1..N \/ i = N + 1
  BY Grown DEF Stacks, Segments
<1>2. \A i \in 1..N : s[i] \in RecordSet /\ s[i].l \in Threads /\ (Deep(s[i]) => s[i].ci \in Nat)
  BY ElementOfSeq, RecordFields
<1>3. r.l \in Threads /\ (Deep(r) => r.ci \in Nat)
  BY RecordFields
<1>4. Segments(t, r.l)
  OBVIOUS
<1> HIDE DEF t
<1>5. ASSUME NEW i \in 2..(N + 1) PROVE FollowsAt(t[i - 1], t[i]) /\ WaitsAt(t[i - 1], t[i], ths)
  <2>1. CASE i = N + 1
    <3>1. i - 1 = N /\ N \in 1..N
      BY <1>1, <2>1
    <3>2. t[i - 1] = s[N] /\ t[i] = r
      BY <1>1, <2>1, <3>1
    <3> QED
      BY <3>2
  <2>2. CASE i # N + 1
    <3>1. i \in 2..N /\ i \in 1..N /\ i - 1 \in 1..N
      BY <1>1, <2>2
    <3>2. t[i - 1] = s[i - 1] /\ t[i] = s[i]
      BY <1>1, <3>1
    <3> QED
      BY <3>1, <3>2 DEF Stacks, Linked
  <2> QED
    BY <2>1, <2>2
<1>6. ASSUME NEW i \in 1..(N + 1), NEW j \in 1..(N + 1), i < j, Deep(t[i]), Deep(t[j]), t[i].l = t[j].l
      PROVE  t[i].ci <= t[j].ci
  <2>1. i \in 1..N /\ t[i] = s[i]
    BY <1>1, <1>6
  <2>2. CASE j \in 1..N
    BY <1>1, <1>6, <2>1, <2>2 DEF Stacks, Depths
  <2>3. CASE j = N + 1
    BY <1>1, <1>6, <2>1, <2>3 DEF Stacks, Depths
  <2> QED
    BY <1>1, <2>2, <2>3
<1>7. ASSUME NEW i \in 1..(N + 1), Deep(t[i]) PROVE t[i].ci <= Len(ths[t[i].l].frames)
  <2>1. CASE i \in 1..N
    BY <1>1, <1>7, <2>1 DEF Stacks, Depths
  <2>2. CASE i = N + 1
    <3>1. Len(ths[r.l].frames) \in Nat
      BY <1>3, ThreadFields
    <3> QED
      BY <1>1, <1>3, <1>7, <2>2, <3>1
  <2> QED
    BY <1>1, <2>1, <2>2
<1>8. ASSUME NEW i \in 1..(N + 1), t[i].at = "pcall", NEW k \in 1..Len(ths[t[i].l].frames), k > t[i].ci
      PROVE  ~ths[t[i].l].frames[k].ypcall
  <2>1. CASE i \in 1..N
    BY <1>1, <1>8, <2>1 DEF Stacks, NoYpcalls
  <2>2. CASE i = N + 1
    <3>1. Len(ths[r.l].frames) \in Nat /\ Deep(r)
      BY <1>1, <1>3, <1>8, <2>2, ThreadFields DEF Deep
    <3> QED
      BY <1>1, <1>3, <1>8, <2>2, <3>1
  <2> QED
    BY <1>1, <2>1, <2>2
<1>9. ASSUME NEW u \in Threads, On(t, u) PROVE Covers(t, N + 1, ths[u].frames, u)
  <2>1. Covers(s, N, ths[u].frames, u)
    <3>1. PICK i \in 1..(N + 1) : t[i].l = u
      BY <1>1, <1>9 DEF On
    <3>2. CASE i \in 1..N
      BY <1>1, <3>1, <3>2 DEF On, Stacks
    <3>3. CASE i = N + 1
      BY <1>1, <1>3, <3>1, <3>3 DEF Stacks
    <3> QED
      BY <1>1, <3>2, <3>3
  <2>2. \A i \in 1..N : i \in 1..(N + 1) /\ (Unyields(s, i, u) => Unyields(t, i, u)) /\ t[i] = s[i]
    BY <1>1 DEF Unyields
  <2> QED
    BY <2>1, <2>2, Zenon DEF Covers
<1>10. Linked(t, ths) /\ Depths(t, ths) /\ NoYpcalls(t, ths)
  <2>1. Len(t) = N + 1
    BY <1>1
  <2>2. Linked(t, ths)
    BY <1>5, <2>1, Zenon DEF Linked
  <2>3. Depths(t, ths)
    BY <1>6, <1>7, <2>1, Zenon DEF Depths
  <2>4. NoYpcalls(t, ths)
    BY <1>8, <2>1, Zenon DEF NoYpcalls
  <2> QED
    BY <2>2, <2>3, <2>4
<1>11. (\A u \in Threads : Ypcalls(ths[u].frames)) /\ \A u \in Threads : On(t, u) => Covers(t, Len(t), ths[u].frames, u)
  BY <1>1, <1>9, Zenon DEF Stacks
<1>12. Stacks(t, ths, r.l)
  BY <1>4, <1>10, <1>11, Zenon DEF Stacks
<1> QED
  BY <1>12 DEF t

\* Functions return, or an error or a yield leaves them, down to the record n:
\* its thread changes above the first h of its frames.
LEMMA StacksCut ==
  ASSUME NEW s \in Seq(RecordSet), NEW ths \in [Threads -> ThreadSet], NEW l, Stacks(s, ths, l),
         NEW n \in 1..Len(s), NEW m, m = s[n].l, NEW T \in ThreadSet, NEW h \in Nat, h <= Len(T.frames),
         \A k \in 1..h : T.frames[k] = ths[m].frames[k],
         \A i \in 1..n : Deep(s[i]) /\ s[i].l = m => s[i].ci <= h,
         \A i \in 1..n : s[i].at = "pcall" /\ s[i].l = m =>
           \A k \in 1..Len(T.frames) : k > s[i].ci => ~T.frames[k].ypcall,
         Ypcalls(T.frames), Covers(s, n, T.frames, m)
  PROVE  Stacks(SubSeq(s, 1, n), [ths EXCEPT ![m] = T], m)
<1> DEFINE t == SubSeq(s, 1, n)
           new == [ths EXCEPT ![m] = T]
<1>1. t \in Seq(RecordSet) /\ Len(s) \in Nat /\ n \in Nat /\ n > 0 /\ Len(t) = n /\ \A i \in 1..n : t[i] = s[i] /\ i \in 1..Len(s)
  <2>1. n \in 0..Len(s) /\ n > 0
    BY LenProperties
  <2> QED
    BY <2>1, Cut
<1>2. \A i \in 1..n : s[i] \in RecordSet /\ s[i].l \in Threads /\ (Deep(s[i]) => s[i].ci \in Nat)
  BY <1>1, ElementOfSeq, RecordFields
<1>3. m \in Threads /\ new[m] = T /\ new \in [Threads -> ThreadSet] /\ \A u \in Threads : u # m => new[u] = ths[u]
  BY <1>1, <1>2
<1>4. T.frames \in Seq(FrameSet) /\ Len(T.frames) \in Nat /\ ths[m].frames \in Seq(FrameSet)
  BY <1>3, ThreadFields
<1>5. Segments(t, m)
  BY SegmentsCut DEF Stacks
<1> HIDE DEF t, new
<1>6. ASSUME NEW i \in 2..n PROVE FollowsAt(t[i - 1], t[i]) /\ WaitsAt(t[i - 1], t[i], new)
  <2>1. i \in 1..n /\ i - 1 \in 1..n /\ i \in 2..Len(s) /\ n \in i..Len(s)
    BY <1>1
  <2>2. t[i - 1] = s[i - 1] /\ t[i] = s[i]
    BY <1>1, <2>1
  <2>3. FollowsAt(s[i - 1], s[i]) /\ WaitsAt(s[i - 1], s[i], ths)
    BY <2>1 DEF Stacks, Linked
  <2>4. WaitsAt(s[i - 1], s[i], new)
    <3>1. CASE s[i].at = "resume"
      <4>1. s[i].from # m /\ s[i].from \in Threads
        BY <1>2, <2>1, <3>1, Resumed, RecordFields DEF Stacks
      <4> QED
        BY <1>3, <2>3, <3>1, <4>1 DEF WaitsAt
    <3>2. CASE Deep(s[i]) /\ s[i].l # m
      <4>1. new[s[i].l] = ths[s[i].l] /\ s[i].at # "resume"
        BY <1>2, <1>3, <2>1, <3>2 DEF Deep
      <4> QED
        BY <2>3, <4>1 DEF WaitsAt
    <3>3. CASE Deep(s[i]) /\ s[i].l = m
      <4>1. s[i].ci \in Nat /\ s[i].ci <= h /\ s[i].ci <= Len(T.frames)
        BY <1>2, <1>4, <2>1, <3>3
      <4>2. \A k \in 1..s[i].ci : T.frames[k] = ths[m].frames[k]
        BY <4>1
      <4>3. \A kinds : Within(s[i - 1], ths[m].frames, s[i].ci, kinds) =>
               Within(s[i - 1], T.frames, s[i].ci, kinds) /\ T.frames[s[i].ci] = ths[m].frames[s[i].ci]
        <5> SUFFICES ASSUME NEW kinds, Within(s[i - 1], ths[m].frames, s[i].ci, kinds)
                     PROVE  Within(s[i - 1], T.frames, s[i].ci, kinds) /\ T.frames[s[i].ci] = ths[m].frames[s[i].ci]
          OBVIOUS
        <5>1. s[i].ci \in 1..s[i].ci
          BY <4>1 DEF Within
        <5> QED
          BY <1>4, <4>1, <4>2, <5>1, WithinSame
      <4>4. new[s[i].l] = T /\ s[i].at # "resume"
        BY <1>3, <3>3 DEF Deep
      <4> QED
        BY <2>3, <3>3, <4>3, <4>4 DEF WaitsAt
    <3>4. CASE ~Deep(s[i]) /\ s[i].at # "resume"
      BY <3>4 DEF WaitsAt, Deep
    <3> QED
      BY <3>1, <3>2, <3>3, <3>4
  <2> QED
    BY <2>2, <2>3, <2>4
<1>7. Depths(t, new)
  <2>1. ASSUME NEW i \in 1..n, NEW j \in 1..n, i < j, Deep(t[i]), Deep(t[j]), t[i].l = t[j].l PROVE t[i].ci <= t[j].ci
    <3>1. t[i] = s[i] /\ t[j] = s[j] /\ i \in 1..Len(s) /\ j \in 1..Len(s)
      BY <1>1
    <3> QED
      BY <2>1, <3>1 DEF Stacks, Depths
  <2>2. ASSUME NEW i \in 1..n, Deep(t[i]) PROVE t[i].ci <= Len(new[t[i].l].frames)
    <3>1. t[i] = s[i] /\ i \in 1..Len(s) /\ s[i].l \in Threads /\ s[i].ci \in Nat
      BY <1>1, <1>2, <2>2
    <3>2. CASE s[i].l = m
      BY <1>3, <1>4, <2>2, <3>1, <3>2
    <3>3. CASE s[i].l # m
      BY <1>3, <2>2, <3>1, <3>3 DEF Stacks, Depths
    <3> QED
      BY <3>2, <3>3
  <2> QED
    BY <1>1, <2>1, <2>2, Zenon DEF Depths
<1>8. NoYpcalls(t, new)
  <2>1. ASSUME NEW i \in 1..n, t[i].at = "pcall", NEW k \in 1..Len(new[t[i].l].frames), k > t[i].ci
        PROVE  ~new[t[i].l].frames[k].ypcall
    <3>1. t[i] = s[i] /\ i \in 1..Len(s) /\ s[i].l \in Threads
      BY <1>1, <1>2
    <3>2. CASE s[i].l = m
      BY <1>3, <2>1, <3>1, <3>2
    <3>3. CASE s[i].l # m
      BY <1>3, <2>1, <3>1, <3>3 DEF Stacks, NoYpcalls
    <3> QED
      BY <3>2, <3>3
  <2> QED
    BY <1>1, <2>1, Zenon DEF NoYpcalls
<1>9. ASSUME NEW u \in Threads, On(t, u) PROVE Covers(t, n, new[u].frames, u)
  <2>1. Covers(s, n, new[u].frames, u)
    <3>1. CASE u = m
      BY <1>3, <3>1
    <3>2. CASE u # m
      <4>1. PICK j \in 1..n : s[j].l = u
        BY <1>1, <1>9 DEF On
      <4>2. On(s, u) /\ Covers(s, Len(s), ths[u].frames, u)
        BY <1>1, <4>1 DEF On, Stacks
      <4>3. \A i \in 1..Len(s) : Unyields(s, i, u) => i \in 1..n
        BY <3>2, <4>1, Lower DEF Unyields, Stacks
      <4> QED
        BY <1>3, <3>2, <4>2, <4>3, Zenon DEF Covers
    <3> QED
      BY <3>1, <3>2
  <2>2. \A i \in 1..n : (Unyields(s, i, u) => Unyields(t, i, u)) /\ t[i] = s[i]
    BY <1>1 DEF Unyields
  <2>3. ASSUME NEW k \in 1..(Len(new[u].frames) - 1)
        PROVE  Plain(new[u].frames[k]) \/ \E i \in 1..n : Unyields(t, i, u) /\ t[i].ci = k
    <3>1. Plain(new[u].frames[k]) \/ \E i \in 1..n : Unyields(s, i, u) /\ s[i].ci = k
      BY <2>1, Zenon DEF Covers
    <3> QED
      BY <2>2, <3>1, Zenon
  <2> QED
    BY <2>3, Zenon DEF Covers
<1>10. Linked(t, new)
  BY <1>1, <1>6, Zenon DEF Linked
<1>11. (\A u \in Threads : Ypcalls(new[u].frames)) /\ \A u \in Threads : On(t, u) => Covers(t, Len(t), new[u].frames, u)
  BY <1>1, <1>3, <1>9, Zenon DEF Stacks
<1>12. Stacks(t, new, m)
  BY <1>5, <1>7, <1>8, <1>10, <1>11, Zenon DEF Stacks
<1> QED
  BY <1>12 DEF t, new

\* A thread that is not on the C stack changes.
LEMMA StacksOff ==
  ASSUME NEW s \in Seq(RecordSet), NEW ths \in [Threads -> ThreadSet], NEW l, Stacks(s, ths, l),
         NEW m \in Threads, ~On(s, m), NEW T \in ThreadSet, Ypcalls(T.frames)
  PROVE  Stacks(s, [ths EXCEPT ![m] = T], l)
<1> DEFINE new == [ths EXCEPT ![m] = T]
<1>1. new[m] = T /\ \A u \in Threads : u # m => new[u] = ths[u]
  OBVIOUS
<1> HIDE DEF new
<1>2. \A i \in 1..Len(s) : s[i] \in RecordSet /\ s[i].l \in Threads /\ s[i].l # m /\ new[s[i].l] = ths[s[i].l]
  BY <1>1, ElementOfSeq, RecordFields DEF On
<1>3. Linked(s, new)
  <2> SUFFICES ASSUME NEW i \in 2..Len(s) PROVE FollowsAt(s[i - 1], s[i]) /\ WaitsAt(s[i - 1], s[i], new)
    BY Zenon DEF Linked
  <2>1. i \in 1..Len(s) /\ i - 1 \in 1..Len(s)
    BY LenProperties
  <2>2. s[i].at = "resume" => s[i].from = s[i - 1].l
    BY DEF Stacks, Segments
  <2>3. new[s[i].l] = ths[s[i].l] /\ (s[i].at = "resume" => new[s[i].from] = ths[s[i].from])
    BY <1>2, <2>1, <2>2
  <2> QED
    BY <2>3 DEF WaitsAt, Stacks, Linked
<1>4. Depths(s, new) /\ NoYpcalls(s, new)
  BY <1>2 DEF Stacks, Depths, NoYpcalls
<1>5. (\A u \in Threads : Ypcalls(new[u].frames)) /\ \A u \in Threads : On(s, u) => Covers(s, Len(s), new[u].frames, u)
  BY <1>1, Zenon DEF Stacks
<1>6. Stacks(s, new, l)
  BY <1>3, <1>4, <1>5, Zenon DEF Stacks
<1> QED
  BY <1>6 DEF new
-----------------------------------------------------------------------------
(* The counters.                                                           *)

LEMMA OneMore ==
  ASSUME NEW n \in Nat, NEW A \in SUBSET (1..n), NEW B \in SUBSET (1..(n + 1)), \A k \in 1..n : k \in A <=> k \in B
  PROVE  Cardinality(A) \in Nat /\ Cardinality(B) = Cardinality(A) + (IF n + 1 \in B THEN 1 ELSE 0)
<1>1. IsFiniteSet(1..n)
  <2>1. 1 \in Int /\ n \in Int
    OBVIOUS
  <2> QED
    BY <2>1, FS_Interval
<1>2. IsFiniteSet(A) /\ Cardinality(A) \in Nat
  BY <1>1, FS_Subset, FS_CardinalityType
<1>3. n + 1 \notin A
  OBVIOUS
<1>4. CASE n + 1 \in B
  <2>1. B = A \cup {n + 1}
    <3>1. \A k \in B : k \in 1..n \/ k = n + 1
      OBVIOUS
    <3> QED
      BY <1>4, <3>1
  <2> QED
    BY <1>2, <1>3, <1>4, <2>1, FS_AddElement
<1>5. CASE n + 1 \notin B
  <2>1. \A k \in B : k \in 1..n
    BY <1>5
  <2>2. B = A
    BY <2>1
  <2> QED
    BY <1>2, <1>5, <2>2
<1> QED
  BY <1>4, <1>5

\* Both counts only depend on the records up to i; the next record adds to them.
LEMMA CountsSame ==
  ASSUME NEW s, NEW t, NEW n \in Nat, \A k \in 1..n : t[k] = s[k]
  PROVE  \A i \in 0..n : Count(t, i) = Count(s, i) /\ \A u : Nny(t, u, i) = Nny(s, u, i)
<1> SUFFICES ASSUME NEW i \in 0..n, NEW u PROVE Count(t, i) = Count(s, i) /\ Nny(t, u, i) = Nny(s, u, i)
  OBVIOUS
<1>1. \A k \in 1..i : k \in 1..n
  OBVIOUS
<1>2. {k \in 1..i : t[k].at \in {"call", "resume"}} = {k \in 1..i : s[k].at \in {"call", "resume"}}
  BY <1>1
<1>3. {k \in 1..i : Unyields(t, k, u)} = {k \in 1..i : Unyields(s, k, u)}
  BY <1>1 DEF Unyields
<1> QED
  BY <1>2, <1>3 DEF Count, Nny

LEMMA CountNext ==
  ASSUME NEW s \in Seq(RecordSet), NEW i \in Nat, NEW u \in Threads
  PROVE  /\ Count(s, i) \in Nat /\ Nny(s, u, i) \in Nat
         /\ Count(s, i + 1) = Count(s, i) + (IF s[i + 1].at \in {"call", "resume"} THEN 1 ELSE 0)
         /\ Nny(s, u, i + 1) = Nny(s, u, i) + (IF Unyields(s, i + 1, u) THEN 1 ELSE 0)
<1> DEFINE C(n) == {k \in 1..n : s[k].at \in {"call", "resume"}}
           U(n) == {k \in 1..n : Unyields(s, k, u)}
<1>1. Cardinality(C(i)) \in Nat /\ Cardinality(C(i + 1)) = Cardinality(C(i)) + (IF i + 1 \in C(i + 1) THEN 1 ELSE 0)
  <2>1. C(i) \in SUBSET (1..i) /\ C(i + 1) \in SUBSET (1..(i + 1)) /\ \A k \in 1..i : k \in C(i) <=> k \in C(i + 1)
    OBVIOUS
  <2> HIDE DEF C
  <2> QED
    BY <2>1, OneMore
<1>2. Cardinality(U(i)) \in Nat /\ Cardinality(U(i + 1)) = Cardinality(U(i)) + (IF i + 1 \in U(i + 1) THEN 1 ELSE 0)
  <2>1. U(i) \in SUBSET (1..i) /\ U(i + 1) \in SUBSET (1..(i + 1)) /\ \A k \in 1..i : k \in U(i) <=> k \in U(i + 1)
    OBVIOUS
  <2> HIDE DEF U
  <2> QED
    BY <2>1, OneMore
<1>3. i + 1 \in 1..(i + 1)
  OBVIOUS
<1>4. i + 1 \in C(i + 1) <=> s[i + 1].at \in {"call", "resume"}
  BY <1>3
<1>5. i + 1 \in U(i + 1) <=> Unyields(s, i + 1, u)
  BY <1>3
<1>6. Count(s, i) = Cardinality(C(i)) /\ Count(s, i + 1) = Cardinality(C(i + 1))
  BY DEF Count
<1>7. Nny(s, u, i) = Cardinality(U(i)) + (IF u = "main" THEN 1 ELSE 0)
      /\ Nny(s, u, i + 1) = Cardinality(U(i + 1)) + (IF u = "main" THEN 1 ELSE 0)
  BY DEF Nny
<1> HIDE DEF C, U
<1>8. Count(s, i) \in Nat /\ Count(s, i + 1) = Count(s, i) + (IF s[i + 1].at \in {"call", "resume"} THEN 1 ELSE 0)
  BY <1>1, <1>4, <1>6
<1>9. Nny(s, u, i) \in Nat
  BY <1>2, <1>7
<1>10. CASE Unyields(s, i + 1, u)
  BY <1>2, <1>5, <1>7, <1>8, <1>9, <1>10
<1>11. CASE ~Unyields(s, i + 1, u)
  BY <1>2, <1>5, <1>7, <1>8, <1>9, <1>11
<1> QED
  BY <1>8, <1>9, <1>10, <1>11

LEMMA GrownCounts ==
  ASSUME NEW s \in Seq(RecordSet), NEW r \in RecordSet
  PROVE  \A i \in 0..Len(s) : /\ Count(Append(s, r), i) = Count(s, i)
                              /\ \A u : Nny(Append(s, r), u, i) = Nny(s, u, i)
<1> DEFINE t == Append(s, r)
<1>1. Len(s) \in Nat /\ \A i \in 1..Len(s) : t[i] = s[i]
  BY Grown
<1> HIDE DEF t
<1>2. ASSUME NEW n \in Nat, n = Len(s) PROVE \A i \in 0..n : Count(t, i) = Count(s, i) /\ \A u : Nny(t, u, i) = Nny(s, u, i)
  <2>1. \A k \in 1..n : t[k] = s[k]
    BY <1>1, <1>2
  <2> QED
    BY <2>1, CountsSame, Zenon
<1>3. \A i \in 0..Len(s) : Count(t, i) = Count(s, i) /\ \A u : Nny(t, u, i) = Nny(s, u, i)
  BY <1>1, <1>2, Zenon
<1> QED
  BY <1>3, Zenon DEF t

\* A record r is pushed, and its thread m has counted it.
LEMMA CountsGrow ==
  ASSUME NEW s \in Seq(RecordSet), NEW ths \in [Threads -> ThreadSet], NEW l, Segments(s, l), Counts(s, ths, l),
         NEW r \in RecordSet, NEW m \in Threads, r.l = m, NEW T \in ThreadSet,
         T.nC = Count(s, Len(s)) + (IF r.at \in {"call", "resume"} THEN 1 ELSE 0),
         T.nny = Nny(s, m, Len(s)) + (IF r.at = "call" /\ r.noyield THEN 1 ELSE 0),
         r.at \in {"pcall", "resume"} => r.nC = T.nC /\ r.nC < Limit,
         r.at = "pcall" => r.nny = Nny(s, m, Len(s)),
         r.at = "resume" => r.from = l /\ l # m,
         m = l \/ ~On(s, m)
  PROVE  Counts(Append(s, r), [ths EXCEPT ![m] = T], m)
<1> DEFINE t == Append(s, r)
           N == Len(s)
           new == [ths EXCEPT ![m] = T]
<1>1. t \in Seq(RecordSet) /\ N \in Nat /\ N > 0 /\ Len(t) = N + 1 /\ t[N + 1] = r /\ (\A i \in 1..N : t[i] = s[i])
      /\ \A i \in 1..(N + 1) : i \in 1..N \/ i = N + 1
  BY Grown DEF Segments
<1>2. \A i \in 1..N : s[i] \in RecordSet /\ s[i].l \in Threads
  BY ElementOfSeq, RecordFields
<1>3. new[m] = T /\ \A u \in Threads : u # m => new[u] = ths[u]
  OBVIOUS
<1> HIDE DEF t, new
<1>4. \A i \in 0..N : Count(t, i) = Count(s, i) /\ \A u : Nny(t, u, i) = Nny(s, u, i)
  BY GrownCounts, Zenon DEF t
<1>5. /\ Count(t, N) = Count(s, N) /\ \A u \in Threads : Nny(t, u, N) = Nny(s, u, N)
      /\ \A i \in 1..N : Count(t, i) = Count(s, i) /\ Count(t, i - 1) = Count(s, i - 1)
      /\ \A i \in 1..N, u \in Threads : Nny(t, u, i - 1) = Nny(s, u, i - 1)
  <2>1. N \in 0..N /\ \A i \in 1..N : i \in 0..N /\ i - 1 \in 0..N
    BY <1>1
  <2> QED
    BY <1>4, <2>1, Zenon
<1>6. Count(t, N + 1) = T.nC
  <2>1. Count(t, N + 1) = Count(t, N) + (IF t[N + 1].at \in {"call", "resume"} THEN 1 ELSE 0)
    BY <1>1, CountNext
  <2> QED
    BY <1>1, <1>5, <2>1
<1>7. \A u \in Threads : Nny(t, u, N + 1) = IF u = m THEN T.nny ELSE Nny(s, u, N)
  <2> SUFFICES ASSUME NEW u \in Threads PROVE Nny(t, u, N + 1) = IF u = m THEN T.nny ELSE Nny(s, u, N)
    OBVIOUS
  <2>1. Nny(t, u, N) \in Nat /\ Nny(t, u, N + 1) = Nny(t, u, N) + (IF Unyields(t, N + 1, u) THEN 1 ELSE 0)
    BY <1>1, CountNext
  <2>2. CASE u = m /\ r.at = "call" /\ r.noyield
    BY <1>1, <1>5, <2>1, <2>2 DEF Unyields
  <2>3. CASE u = m /\ ~(r.at = "call" /\ r.noyield)
    BY <1>1, <1>5, <2>1, <2>3 DEF Unyields
  <2>4. CASE u # m
    BY <1>1, <1>5, <2>1, <2>4 DEF Unyields
  <2> QED
    BY <2>2, <2>3, <2>4
<1>8. ASSUME NEW i \in 1..(N + 1), t[i].at \in {"pcall", "resume"} PROVE t[i].nC = Count(t, i) /\ t[i].nC < Limit
  <2>1. CASE i \in 1..N
    BY <1>1, <1>2, <1>5, <1>8, <2>1 DEF Counts
  <2>2. CASE i = N + 1
    BY <1>1, <1>6, <1>8, <2>2
  <2> QED
    BY <1>1, <2>1, <2>2
<1>9. ASSUME NEW i \in 1..(N + 1), t[i].at = "resume" PROVE new[t[i].from].nC = Count(t, i - 1)
  <2>1. CASE i \in 1..N
    <3>1. i \in 2..N /\ i - 1 \in 1..N /\ N \in i..N /\ N \in 1..N
      BY <1>1, <1>9, <2>1 DEF Segments
    <3>2. s[i].from = s[i - 1].l /\ s[i].from # l /\ t[i] = s[i]
      <4>1. t[i] = s[i] /\ s[i].at = "resume" /\ s[N].l = l
        BY <1>1, <1>9, <2>1 DEF Segments
      <4>2. s[N].l # s[i].from /\ s[i].from = s[i - 1].l
        BY <3>1, <4>1, Resumed
      <4> QED
        BY <4>1, <4>2
    <3>3. s[i].from # m /\ s[i].from \in Threads
      BY <1>2, <3>1, <3>2 DEF On
    <3> QED
      BY <1>2, <1>3, <1>5, <1>9, <2>1, <3>2, <3>3 DEF Counts
  <2>2. CASE i = N + 1
    <3>1. i - 1 = N /\ N \in 1..N /\ l \in Threads /\ t[i] = r
      BY <1>1, <1>2, <2>2 DEF Segments
    <3> QED
      BY <1>3, <1>5, <1>9, <3>1 DEF Counts
  <2> QED
    BY <1>1, <2>1, <2>2
<1>10. ASSUME NEW i \in 1..(N + 1), t[i].at = "pcall" PROVE t[i].nny = Nny(t, t[i].l, i - 1)
  <2>1. CASE i \in 1..N
    BY <1>1, <1>2, <1>5, <1>10, <2>1 DEF Counts
  <2>2. CASE i = N + 1
    <3>1. i - 1 = N /\ t[i] = r
      BY <1>1, <2>2
    <3> QED
      BY <1>5, <1>10, <3>1
  <2> QED
    BY <1>1, <2>1, <2>2
<1>11. ASSUME NEW i \in 1..(N + 1) PROVE new[t[i].l].nny = Nny(t, t[i].l, N + 1)
  <2>1. CASE t[i].l = m
    BY <1>3, <1>7, <2>1
  <2>2. CASE t[i].l # m
    <3>1. i \in 1..N /\ t[i] = s[i]
      BY <1>1, <2>2
    <3> QED
      BY <1>2, <1>3, <1>7, <2>2, <3>1 DEF Counts
  <2> QED
    BY <2>1, <2>2
<1>12. Counts(t, new, m)
  BY <1>1, <1>3, <1>6, <1>8, <1>9, <1>10, <1>11, Zenon DEF Counts
<1> QED
  BY <1>12 DEF t, new

LEMMA CountsCut ==
  ASSUME NEW s \in Seq(RecordSet), NEW ths \in [Threads -> ThreadSet], NEW l, Segments(s, l), Counts(s, ths, l),
         NEW n \in 1..Len(s), NEW m, m = s[n].l, NEW T \in ThreadSet, T.nC = Count(s, n), T.nny = Nny(s, m, n)
  PROVE  Counts(SubSeq(s, 1, n), [ths EXCEPT ![m] = T], m)
<1> DEFINE t == SubSeq(s, 1, n)
           new == [ths EXCEPT ![m] = T]
<1>1. t \in Seq(RecordSet) /\ Len(s) \in Nat /\ n \in Nat /\ n > 0 /\ Len(t) = n /\ \A i \in 1..n : t[i] = s[i] /\ i \in 1..Len(s)
  <2>1. n \in 0..Len(s) /\ n > 0
    BY LenProperties
  <2> QED
    BY <2>1, Cut
<1>2. \A i \in 1..n : s[i] \in RecordSet /\ s[i].l \in Threads
  BY <1>1, ElementOfSeq, RecordFields
<1>3. m \in Threads /\ new[m] = T /\ \A u \in Threads : u # m => new[u] = ths[u]
  BY <1>1, <1>2
<1> HIDE DEF t, new
<1>4. \A i \in 1..n, u \in Threads : Count(t, i) = Count(s, i) /\ Nny(t, u, i - 1) = Nny(s, u, i - 1)
                                     /\ Count(t, i - 1) = Count(s, i - 1) /\ Nny(t, u, i) = Nny(s, u, i)
  <2>1. \A i \in 0..n : Count(t, i) = Count(s, i) /\ \A u : Nny(t, u, i) = Nny(s, u, i)
    <3>1. n \in Nat
      BY <1>1
    <3>2. \A k \in 1..n : t[k] = s[k]
      BY <1>1
    <3> QED
      BY <3>1, <3>2, CountsSame, ZenonT(60)
  <2>2. \A i \in 1..n : i \in 0..n /\ i - 1 \in 0..n
    BY <1>1
  <2> QED
    BY <2>1, <2>2, Zenon
<1>5. n \in 1..n
  BY <1>1
<1>6. ASSUME NEW i \in 1..n, t[i].at \in {"pcall", "resume"} PROVE t[i].nC = Count(t, i) /\ t[i].nC < Limit
  BY <1>1, <1>2, <1>4, <1>6 DEF Counts
<1>7. ASSUME NEW i \in 1..n, t[i].at = "resume" PROVE new[t[i].from].nC = Count(t, i - 1)
  <2>1. i \in 2..Len(s) /\ n \in i..Len(s) /\ t[i] = s[i] /\ i \in 1..Len(s)
    BY <1>1, <1>7 DEF Segments
  <2>2. s[i].from # m /\ s[i].from \in Threads
    BY <1>2, <1>7, <2>1, Resumed, RecordFields
  <2>3. new[s[i].from] = ths[s[i].from] /\ ths[s[i].from].nC = Count(s, i - 1)
    BY <1>3, <1>7, <2>1, <2>2 DEF Counts
  <2> QED
    BY <1>2, <1>4, <2>1, <2>3
<1>8. ASSUME NEW i \in 1..n, t[i].at = "pcall" PROVE t[i].nny = Nny(t, t[i].l, i - 1)
  <2>1. t[i] = s[i] /\ s[i].l \in Threads /\ i \in 1..Len(s) /\ Nny(t, s[i].l, i - 1) = Nny(s, s[i].l, i - 1)
    BY <1>1, <1>2, <1>4
  <2> QED
    BY <1>8, <2>1 DEF Counts
<1>9. ASSUME NEW i \in 1..n PROVE new[t[i].l].nny = Nny(t, t[i].l, n)
  <2>1. t[i] = s[i] /\ s[i].l \in Threads /\ i \in 1..Len(s)
    BY <1>1, <1>2
  <2>2. CASE s[i].l = m
    BY <1>3, <1>4, <1>5, <2>1, <2>2
  <2>3. CASE s[i].l # m
    <3>1. {k \in 1..Len(s) : Unyields(s, k, s[i].l)} = {k \in 1..n : Unyields(s, k, s[i].l)}
      <4>1. \A k \in 1..Len(s) : Unyields(s, k, s[i].l) => k \in 1..n
        BY <2>3, Lower DEF Unyields
      <4> QED
        BY <1>1, <4>1
    <3>2. Nny(s, s[i].l, Len(s)) = Nny(s, s[i].l, n)
      BY <3>1 DEF Nny
    <3> QED
      BY <1>3, <1>4, <1>5, <2>1, <2>3, <3>2 DEF Counts
  <2> QED
    BY <2>2, <2>3
<1>10. new[m].nC = Count(t, n)
  BY <1>3, <1>4, <1>5
<1>11. Counts(t, new, m)
  BY <1>1, <1>6, <1>7, <1>8, <1>9, <1>10, Zenon DEF Counts
<1> QED
  BY <1>11 DEF t, new

LEMMA CountsOff ==
  ASSUME NEW s \in Seq(RecordSet), NEW ths \in [Threads -> ThreadSet], NEW l, Segments(s, l), Counts(s, ths, l),
         NEW m \in Threads, ~On(s, m), NEW T \in ThreadSet
  PROVE  Counts(s, [ths EXCEPT ![m] = T], l)
<1> DEFINE new == [ths EXCEPT ![m] = T]
<1>1. \A u \in Threads : u # m => new[u] = ths[u]
  OBVIOUS
<1> HIDE DEF new
<1>2. Len(s) \in 1..Len(s) /\ \A i \in 1..Len(s) : s[i].l \in Threads /\ s[i].l # m /\ new[s[i].l] = ths[s[i].l]
  <2>1. Len(s) \in 1..Len(s)
    BY LenProperties DEF Segments
  <2> QED
    BY <1>1, <2>1, ElementOfSeq, RecordFields DEF On
<1>3. new[l] = ths[l]
  BY <1>2 DEF Segments
<1>4. ASSUME NEW i \in 1..Len(s), s[i].at = "resume" PROVE new[s[i].from] = ths[s[i].from]
  <2>1. i \in 2..Len(s) /\ i - 1 \in 1..Len(s)
    BY <1>4, LenProperties DEF Segments
  <2>2. s[i].from = s[i - 1].l
    BY <1>4, <2>1 DEF Segments
  <2> QED
    BY <1>2, <2>1, <2>2
<1>5. Counts(s, new, l)
  BY <1>2, <1>3, <1>4, Zenon DEF Counts
<1> QED
  BY <1>5 DEF new
-----------------------------------------------------------------------------
(* The stack of the thread that runs.                                      *)

LEMMA OwnAbove ==
  ASSUME NEW s \in Seq(RecordSet), NEW ths, NEW l, Segments(s, l), Linked(s, ths), NEW j \in 1..Len(s)
  PROVE  /\ s[j].at = "resume" => j \in 2..Len(s) /\ \A i \in 1..(j - 1) : s[i].l # s[j].l
         /\ s[j].at = "unroll" =>
              /\ j \in 2..Len(s) /\ j - 1 \in 2..Len(s) /\ s[j - 1].at = "resume" /\ s[j - 1].l = s[j].l
              /\ \A i \in 1..(j - 2) : s[i].l # s[j].l
<1>1. Len(s) \in Nat /\ j \in Nat /\ s[1].at = "pcall"
  BY LenProperties DEF Segments
<1>2. ASSUME s[j].at = "resume" PROVE j \in 2..Len(s) /\ \A i \in 1..(j - 1) : s[i].l # s[j].l
  <2>1. j \in 2..Len(s) /\ j \in j..Len(s)
    BY <1>1, <1>2
  <2> QED
    BY <1>2, <2>1, Resumed
<1>3. ASSUME s[j].at = "unroll"
      PROVE  /\ j \in 2..Len(s) /\ j - 1 \in 2..Len(s) /\ s[j - 1].at = "resume" /\ s[j - 1].l = s[j].l
             /\ \A i \in 1..(j - 2) : s[i].l # s[j].l
  <2>1. j \in 2..Len(s)
    BY <1>1, <1>3
  <2>2. s[j - 1].at = "resume" /\ j - 1 \in 1..Len(s)
    BY <1>1, <1>3, <2>1 DEF Linked, FollowsAt
  <2>3. j - 1 \in 2..Len(s) /\ j \in (j - 1)..Len(s) /\ j - 1 \in (j - 1)..Len(s)
    BY <1>1, <2>1, <2>2
  <2>4. (\A k \in 1..(j - 1 - 1) : s[k].l # s[j].l)
    BY <2>2, <2>3, Resumed
  <2>5. s[j - 1].l = s[j].l
    <3>1. \A k \in (j - 1 + 1)..j : s[k].at # "resume"
      BY <1>1, <1>3
    <3>2. j - 1 < j
      BY <1>1
    <3> QED
      BY <2>2, <3>1, <3>2 DEF Segments
  <2>6. j - 1 - 1 = j - 2
    BY <1>1
  <2> QED
    BY <2>1, <2>2, <2>3, <2>4, <2>5, <2>6
<1> QED
  BY <1>2, <1>3

\* What runs above the record j is above the frames that wait below.
LEMMA RunsDeep ==
  ASSUME NEW s \in Seq(RecordSet), NEW ths, NEW l, Segments(s, l), Linked(s, ths), Depths(s, ths),
         NEW j \in 1..Len(s), NEW g, NEW n \in Nat, RunsAbove(s[j], g, n)
  PROVE  n > 0 /\ \A i \in 1..j : Deep(s[i]) /\ s[i].l = s[j].l => s[i].ci < n
<1>1. Len(s) \in Nat /\ j \in Nat /\ \A i \in 1..j : i \in 1..Len(s)
  BY LenProperties
<1>2. PICK b \in 0..n : Ran(g, b, n) /\ (s[j].at = "call" => b = s[j].ci) /\ (s[j].at = "resume" => b = 0)
  BY DEF RunsAbove
<1>3. b < n /\ b \in Nat
  BY <1>2 DEF Ran
<1>4. ASSUME NEW i \in 1..j, Deep(s[i]), s[i].l = s[j].l PROVE s[i].ci < n
  <2>1. CASE s[j].at = "call"
    <3>1. CASE i = j
      BY <1>2, <1>3, <2>1, <3>1
    <3>2. CASE i # j
      <4>1. i < j /\ i \in 1..Len(s) /\ Deep(s[j])
        BY <1>1, <2>1, <3>2 DEF Deep
      <4>2. s[i].ci <= s[j].ci
        BY <1>4, <4>1 DEF Depths
      <4>3. s[i].ci \in Nat /\ s[j].ci = b
        BY <1>2, <1>4, <2>1, <4>1, ElementOfSeq, RecordFields
      <4> QED
        BY <1>3, <4>2, <4>3
    <3> QED
      BY <3>1, <3>2
  <2>2. CASE s[j].at = "resume"
    <3>1. i # j /\ \A k \in 1..(j - 1) : s[k].l # s[j].l
      BY <1>4, <2>2, OwnAbove DEF Deep
    <3>2. i \in 1..(j - 1)
      BY <1>1, <3>1
    <3> QED
      BY <1>4, <3>1, <3>2
  <2>3. CASE s[j].at = "unroll"
    <3>1. i # j /\ i # j - 1 /\ \A k \in 1..(j - 2) : s[k].l # s[j].l
      BY <1>4, <2>3, OwnAbove DEF Deep
    <3>2. i \in 1..(j - 2)
      BY <1>1, <3>1
    <3> QED
      BY <1>4, <3>1, <3>2
  <2> QED
    BY <2>1, <2>2, <2>3 DEF RunsAbove
<1> QED
  BY <1>3, <1>4

\* Nothing of t on the C stack forbids a yield.
LEMMA NoneUnyields ==
  ASSUME NEW s \in Seq(RecordSet), NEW t \in Threads, NEW n \in Nat, Nny(s, t, n) = 0
  PROVE  t # "main" /\ \A i \in 1..n : ~Unyields(s, i, t)
<1> DEFINE U == {k \in 1..n : Unyields(s, k, t)}
<1>1. IsFiniteSet(U)
  <2>1. 1 \in Int /\ n \in Int
    OBVIOUS
  <2> QED
    BY <2>1, FS_Interval, FS_Subset
<1>2. Cardinality(U) \in Nat /\ Nny(s, t, n) = Cardinality(U) + (IF t = "main" THEN 1 ELSE 0)
  BY <1>1, FS_CardinalityType DEF Nny
<1>3. Cardinality(U) = 0 /\ t # "main"
  <2> HIDE DEF U
  <2> QED
    BY <1>2
<1>4. U = {}
  BY <1>1, <1>3, FS_EmptySet
<1> QED
  BY <1>3, <1>4

LEMMA CutOn ==
  ASSUME NEW s \in Seq(RecordSet), NEW l, Segments(s, l), NEW n \in 1..Len(s), NEW t
  PROVE  /\ On(SubSeq(s, 1, n), t) <=> \E i \in 1..n : s[i].l = t
         /\ s[n].l = l => (On(SubSeq(s, 1, n), t) <=> On(s, t))
<1>1. Len(s) \in Nat /\ n \in Nat /\ Len(s) \in 1..Len(s) /\ s[Len(s)].l = l /\ \A i \in 1..n : i \in 1..Len(s)
  BY LenProperties DEF Segments
<1>2. On(SubSeq(s, 1, n), t) <=> \E i \in 1..n : s[i].l = t
  <2>1. n \in 0..Len(s)
    BY <1>1
  <2>2. Len(SubSeq(s, 1, n)) = n /\ \A i \in 1..n : SubSeq(s, 1, n)[i] = s[i]
    BY <2>1, Cut
  <2> QED
    BY <2>2 DEF On
<1>3. ASSUME s[n].l = l, NEW j \in 1..Len(s), s[j].l = t PROVE \E i \in 1..n : s[i].l = t
  <2>1. CASE j <= n
    <3>1. j \in 1..n
      BY <1>1, <2>1
    <3> QED
      BY <1>3, <3>1
  <2>2. CASE j > n
    <3>1. n < Len(s) /\ n < j
      BY <1>1, <2>2
    <3>2. \A k \in (n + 1)..Len(s) : s[k].at # "resume"
      BY <1>1, <1>3, <3>1 DEF Segments
    <3>3. \A k \in (n + 1)..j : s[k].at # "resume"
      BY <1>1, <3>2
    <3>4. s[n].l = s[j].l /\ n \in 1..n
      BY <1>1, <3>1, <3>3 DEF Segments
    <3> QED
      BY <1>3, <3>4
  <2> QED
    BY <1>1, <2>1, <2>2
<1> QED
  BY <1>1, <1>2, <1>3 DEF On

LEMMA GrownOn ==
  ASSUME NEW s \in Seq(RecordSet), NEW r \in RecordSet, NEW t
  PROVE  On(Append(s, r), t) <=> On(s, t) \/ r.l = t
<1> DEFINE q == Append(s, r)
<1>1. Len(s) \in Nat /\ Len(q) = Len(s) + 1 /\ q[Len(s) + 1] = r /\ (\A i \in 1..Len(s) : q[i] = s[i] /\ i \in 1..Len(q))
      /\ (\A i \in 1..Len(q) : i \in 1..Len(s) \/ i = Len(s) + 1) /\ Len(s) + 1 \in 1..Len(q)
  BY Grown
<1> HIDE DEF q
<1>2. On(q, t) <=> On(s, t) \/ r.l = t
  BY <1>1, Zenon DEF On
<1> QED
  BY <1>2 DEF q
-----------------------------------------------------------------------------
(* The C stack and the threads together.                                   *)

LEMMA StateFacts ==
  ASSUME NEW s, NEW ths, NEW l, State(s, ths, l)
  PROVE  /\ s \in Seq(RecordSet) /\ ths \in [Threads -> ThreadSet] /\ l \in Threads /\ ths[l] \in ThreadSet
         /\ Segments(s, l) /\ Linked(s, ths) /\ Depths(s, ths) /\ NoYpcalls(s, ths)
         /\ \A t \in Threads : Ypcalls(ths[t].frames)
         /\ \A t \in Threads : On(s, t) => Covers(s, Len(s), ths[t].frames, t)
         /\ Len(s) \in Nat /\ Len(s) \in 1..Len(s) /\ s[Len(s)].l = l /\ s[Len(s)] \in RecordSet /\ On(s, l) /\ On(s, "main")
         /\ ths[l].nC = Count(s, Len(s)) /\ ths[l].nny = Nny(s, l, Len(s))
         /\ ~ths[l].start /\ Covers(s, Len(s), ths[l].frames, l)
         /\ \A i \in 1..Len(s) : s[i] \in RecordSet /\ s[i].l \in Threads
<1>1. /\ s \in Seq(RecordSet) /\ ths \in [Threads -> ThreadSet] /\ l \in Threads
      /\ Stacks(s, ths, l) /\ Counts(s, ths, l) /\ Statuses(s, ths, l)
  BY DEF State
<1>2. /\ Segments(s, l) /\ Linked(s, ths) /\ Depths(s, ths) /\ NoYpcalls(s, ths)
      /\ \A t \in Threads : Ypcalls(ths[t].frames)
      /\ \A t \in Threads : On(s, t) => Covers(s, Len(s), ths[t].frames, t)
  BY <1>1 DEF Stacks
<1>3. Len(s) \in Nat /\ Len(s) \in 1..Len(s) /\ 1 \in 1..Len(s) /\ s[Len(s)].l = l /\ s[1].l = "main"
  BY <1>1, <1>2, LenProperties DEF Segments
<1>4. On(s, l) /\ On(s, "main")
  BY <1>3 DEF On
<1>5. \A i \in 1..Len(s) : s[i] \in RecordSet /\ s[i].l \in Threads
  BY <1>1, ElementOfSeq, RecordFields
<1>6. ths[l].nC = Count(s, Len(s)) /\ ths[l].nny = Nny(s, l, Len(s))
  BY <1>1, <1>3 DEF Counts
<1>7. ~ths[l].start
  BY <1>1, <1>4 DEF Statuses
<1> QED
  BY <1>1, <1>2, <1>3, <1>4, <1>5, <1>6, <1>7

LEMMA StateCut ==
  ASSUME NEW s, NEW ths, NEW l, State(s, ths, l), NEW n \in 1..Len(s), s[n].l = l,
         NEW T \in ThreadSet, ~T.start, T.nC = Count(s, n), T.nny = Nny(s, l, n), NEW h \in Nat, h <= Len(T.frames),
         \A k \in 1..h : T.frames[k] = ths[l].frames[k],
         \A i \in 1..n : Deep(s[i]) /\ s[i].l = l => s[i].ci <= h,
         \A i \in 1..n : s[i].at = "pcall" /\ s[i].l = l =>
           \A k \in 1..Len(T.frames) : k > s[i].ci => ~T.frames[k].ypcall,
         Ypcalls(T.frames), Covers(s, n, T.frames, l)
  PROVE  State(SubSeq(s, 1, n), [ths EXCEPT ![l] = T], l)
<1> DEFINE q == SubSeq(s, 1, n)
           new == [ths EXCEPT ![l] = T]
<1>1. /\ s \in Seq(RecordSet) /\ ths \in [Threads -> ThreadSet] /\ l \in Threads
      /\ Stacks(s, ths, l) /\ Counts(s, ths, l) /\ Statuses(s, ths, l) /\ Segments(s, l)
  BY DEF State, Stacks
<1>2. new \in [Threads -> ThreadSet] /\ new[l] = T /\ \A t \in Threads : t # l => new[t] = ths[t]
  BY <1>1
<1>3. q \in Seq(RecordSet)
  <2>1. n \in 0..Len(s)
    BY <1>1, LenProperties
  <2> QED
    BY <1>1, <2>1, Cut
<1>4. Stacks(q, new, l)
  BY <1>1, StacksCut
<1>5. Counts(q, new, l)
  BY <1>1, CountsCut
<1>6. \A t \in Threads : On(q, t) <=> On(s, t)
  BY <1>1, CutOn
<1>7. On(s, l)
  BY StateFacts
<1> HIDE DEF q, new
<1>8. Statuses(q, new, l)
  BY <1>1, <1>2, <1>6, <1>7, Zenon DEF Statuses
<1>9. State(q, new, l)
  BY <1>1, <1>2, <1>3, <1>4, <1>5, <1>8 DEF State
<1> QED
  BY <1>9 DEF q, new

\* The frames of l change above the first h.
LEMMA StateFrames ==
  ASSUME NEW s, NEW ths, NEW l, State(s, ths, l),
         NEW T \in ThreadSet, ~T.start, T.nC = ths[l].nC, T.nny = ths[l].nny, NEW h \in Nat, h <= Len(T.frames),
         \A k \in 1..h : T.frames[k] = ths[l].frames[k],
         \A i \in 1..Len(s) : Deep(s[i]) /\ s[i].l = l => s[i].ci <= h,
         \A i \in 1..Len(s) : s[i].at = "pcall" /\ s[i].l = l =>
           \A k \in 1..Len(T.frames) : k > s[i].ci => ~T.frames[k].ypcall,
         Ypcalls(T.frames), Covers(s, Len(s), T.frames, l)
  PROVE  State(s, [ths EXCEPT ![l] = T], l)
<1>1. /\ s \in Seq(RecordSet) /\ Len(s) \in 1..Len(s) /\ s[Len(s)].l = l
      /\ ths[l].nC = Count(s, Len(s)) /\ ths[l].nny = Nny(s, l, Len(s))
  BY StateFacts
<1>2. State(SubSeq(s, 1, Len(s)), [ths EXCEPT ![l] = T], l)
  BY <1>1, StateCut
<1> QED
  BY <1>1, <1>2, SubSeqFull

\* Its other fields change only.
LEMMA StateSame ==
  ASSUME NEW s, NEW ths, NEW l, State(s, ths, l),
         NEW T \in ThreadSet, ~T.start, T.nC = ths[l].nC, T.nny = ths[l].nny, T.frames = ths[l].frames
  PROVE  State(s, [ths EXCEPT ![l] = T], l)
<1>1. /\ s \in Seq(RecordSet) /\ ths[l] \in ThreadSet /\ l \in Threads /\ Depths(s, ths) /\ NoYpcalls(s, ths)
      /\ (\A t \in Threads : Ypcalls(ths[t].frames)) /\ Covers(s, Len(s), ths[l].frames, l)
  BY StateFacts
<1>2. Len(T.frames) \in Nat /\ Len(T.frames) <= Len(T.frames)
  BY ThreadFields
<1>3. \A i \in 1..Len(s) : Deep(s[i]) /\ s[i].l = l => s[i].ci <= Len(T.frames)
  BY <1>1 DEF Depths
<1>4. \A i \in 1..Len(s) : s[i].at = "pcall" /\ s[i].l = l =>
        \A k \in 1..Len(T.frames) : k > s[i].ci => ~T.frames[k].ypcall
  BY <1>1 DEF NoYpcalls
<1>5. Ypcalls(T.frames) /\ Covers(s, Len(s), T.frames, l) /\ \A k \in 1..Len(T.frames) : T.frames[k] = ths[l].frames[k]
  BY <1>1
<1> QED
  BY <1>2, <1>3, <1>4, <1>5, StateFrames

LEMMA StateGrow ==
  ASSUME NEW s, NEW ths, NEW l, State(s, ths, l), NEW r \in RecordSet, r.at # "resume", r.l = l,
         FollowsAt(s[Len(s)], r), WaitsAt(s[Len(s)], r, ths), Deep(r) => r.ci = Len(ths[l].frames),
         NEW T \in ThreadSet, ~T.start, T.frames = ths[l].frames,
         T.nC = ths[l].nC + (IF r.at = "call" THEN 1 ELSE 0),
         T.nny = ths[l].nny + (IF r.at = "call" /\ r.noyield THEN 1 ELSE 0),
         r.at = "pcall" => r.nC = ths[l].nC /\ r.nC < Limit /\ r.nny = ths[l].nny
  PROVE  State(Append(s, r), [ths EXCEPT ![l] = T], l)
<1> DEFINE q == Append(s, r)
           new == [ths EXCEPT ![l] = T]
<1>1. /\ s \in Seq(RecordSet) /\ ths \in [Threads -> ThreadSet] /\ l \in Threads /\ Segments(s, l) /\ On(s, l)
      /\ ths[l].nC = Count(s, Len(s)) /\ ths[l].nny = Nny(s, l, Len(s)) /\ ths[l].nC \in Int
      /\ Stacks(s, ths, l) /\ Counts(s, ths, l) /\ Statuses(s, ths, l)
  BY StateFacts, ThreadFields DEF State
<1>2. new \in [Threads -> ThreadSet] /\ new[l] = T /\ \A t \in Threads : t # l => new[t] = ths[t]
  BY <1>1
<1>3. q \in Seq(RecordSet) /\ Segments(q, l)
  BY <1>1, Grown, SegmentsGrow
<1>4. Stacks(q, ths, l)
  BY <1>1, <1>3, StacksGrow
<1>5. Stacks(q, new, l)
  <2>1. /\ Len(q) \in 1..Len(q) /\ q[Len(q)].l = l /\ SubSeq(q, 1, Len(q)) = q
    BY <1>3, LenProperties, SubSeqFull DEF Segments
  <2>2. On(q, l)
    BY <2>1 DEF On
  <2>3. Len(T.frames) \in Nat /\ Len(T.frames) <= Len(T.frames)
    BY ThreadFields
  <2>4. (\A i \in 1..Len(q) : Deep(q[i]) /\ q[i].l = l => q[i].ci <= Len(T.frames))
        /\ (\A i \in 1..Len(q) : q[i].at = "pcall" /\ q[i].l = l =>
              \A k \in 1..Len(T.frames) : k > q[i].ci => ~T.frames[k].ypcall)
        /\ Ypcalls(T.frames) /\ Covers(q, Len(q), T.frames, l)
    <3> HIDE DEF q
    <3>1. Depths(q, ths) /\ NoYpcalls(q, ths) /\ (\A t \in Threads : Ypcalls(ths[t].frames))
          /\ \A t \in Threads : On(q, t) => Covers(q, Len(q), ths[t].frames, t)
      BY <1>4 DEF Stacks
    <3> QED
      BY <1>1, <2>2, <3>1 DEF Depths, NoYpcalls
  <2>5. \A k \in 1..Len(T.frames) : T.frames[k] = ths[l].frames[k]
    OBVIOUS
  <2> HIDE DEF q
  <2>6. Stacks(SubSeq(q, 1, Len(q)), new, l)
    BY <1>1, <1>3, <1>4, <2>1, <2>3, <2>4, <2>5, StacksCut
  <2> QED
    BY <2>1, <2>6
<1>6. Counts(q, new, l)
  <2>1. T.nC = Count(s, Len(s)) + (IF r.at \in {"call", "resume"} THEN 1 ELSE 0)
    BY <1>1
  <2>2. r.at \in {"pcall", "resume"} => r.nC = T.nC /\ r.nC < Limit
    BY <1>1
  <2> QED
    BY <1>1, <2>1, <2>2, CountsGrow
<1>7. \A t \in Threads : On(q, t) <=> On(s, t)
  BY <1>1, GrownOn
<1> HIDE DEF q, new
<1>8. Statuses(q, new, l)
  BY <1>1, <1>2, <1>7, Zenon DEF Statuses
<1>9. State(q, new, l)
  BY <1>1, <1>2, <1>3, <1>5, <1>6, <1>8 DEF State
<1> QED
  BY <1>9 DEF q, new

\* Frames are popped.
LEMMA FramesCut ==
  ASSUME NEW g \in Seq(FrameSet), NEW f \in Seq(FrameSet), Len(f) <= Len(g), \A k \in 1..Len(f) : f[k] = g[k]
  PROVE  /\ Ypcalls(g) => Ypcalls(f)
         /\ \A s, n, t : Covers(s, n, g, t) => Covers(s, n, f, t)
         /\ \A n \in 1..Len(f) : Shape(g, n) => Shape(f, n)
<1>1. Len(f) \in Nat /\ Len(g) \in Nat /\ (\A k \in 1..Len(f) : k \in 1..Len(g)) /\ \A n \in 1..Len(f) : \A k \in 1..n : k \in 1..Len(f)
  BY LenProperties
<1>2. \A n \in 1..Len(f) : Shape(g, n) => Shape(f, n)
  BY <1>1, Zenon DEF Shape
<1>3. Ypcalls(g) => Ypcalls(f)
  BY <1>1, <1>2, Zenon DEF Ypcalls
<1>4. \A k \in 1..(Len(f) - 1) : k \in 1..(Len(g) - 1) /\ k \in 1..Len(f)
  BY <1>1
<1>5. \A s, n, t : Covers(s, n, g, t) => Covers(s, n, f, t)
  BY <1>4, Zenon DEF Covers
<1> QED
  BY <1>2, <1>3, <1>5

\* lua_resume leaves the thread l with T, and its resumer m with U.
LEMMA StateLeave ==
  ASSUME NEW s, NEW ths, NEW l, State(s, ths, l), NEW i \in 2..Len(s), s[i].at = "resume", s[i].l = l,
         NEW m, m = s[i].from, NEW T \in ThreadSet, NEW U \in ThreadSet,
         T.status = "ok" => T.frames = <<>>, T.status = "yield" => Suspended(T), Ypcalls(T.frames),
         U.start = ths[m].start, U.nC = ths[m].nC, U.nny = ths[m].nny,
         Len(U.frames) <= Len(ths[m].frames), Len(U.frames) >= Len(ths[m].frames) - 1,
         \A k \in 1..Len(U.frames) : U.frames[k] = ths[m].frames[k]
  PROVE  /\ m \in Threads /\ m # l /\ i - 1 \in 1..Len(s) /\ s[i - 1].l = m
         /\ ths[m].status = "ok"
         /\ Within(s[i - 1], ths[m].frames, Len(ths[m].frames), {"resume", "wrap"})
         /\ State(SubSeq(s, 1, i - 1), [[ths EXCEPT ![l] = T] EXCEPT ![m] = U], m)
<1> DEFINE n == i - 1
           q == SubSeq(s, 1, n)
           mid == [ths EXCEPT ![m] = U]
           new == [mid EXCEPT ![l] = T]
           g == ths[m].frames
           H == Len(g)
<1>1. /\ s \in Seq(RecordSet) /\ ths \in [Threads -> ThreadSet] /\ l \in Threads /\ Len(s) \in Nat
      /\ Stacks(s, ths, l) /\ Counts(s, ths, l) /\ Statuses(s, ths, l)
      /\ Segments(s, l) /\ Linked(s, ths) /\ Depths(s, ths) /\ NoYpcalls(s, ths)
      /\ (\A t \in Threads : Ypcalls(ths[t].frames))
      /\ (\A t \in Threads : On(s, t) => Covers(s, Len(s), ths[t].frames, t))
      /\ \A k \in 1..Len(s) : s[k] \in RecordSet /\ s[k].l \in Threads
  BY StateFacts DEF State
<1>2. i \in Nat /\ i \in 1..Len(s) /\ n \in Nat /\ n \in 1..Len(s) /\ n \in 1..n /\ n + 1 = i /\ i \in i..Len(s)
      /\ (\A k \in 1..n : k \in 1..Len(s)) /\ \A k \in 1..Len(s) : k \in 1..n \/ k \in i..Len(s)
  BY <1>1
<1>3. /\ \A j \in i..Len(s) : s[j].l # m /\ s[n].l = m /\ \A k \in 1..n : s[k].l # s[j].l
  BY <1>1, Resumed
<1>4. \A j \in i..Len(s) : s[j].l = l
  <2> SUFFICES ASSUME NEW j \in i..Len(s), j # i PROVE s[j].l = s[i].l
    OBVIOUS
  <2>1. j \in 1..Len(s) /\ i < j /\ Len(s) \in 1..Len(s) /\ i < Len(s) /\ \A k \in (i + 1)..j : k \in (i + 1)..Len(s)
    BY <1>1, <1>2
  <2>2. s[Len(s)].l = s[i].l
    BY <1>1 DEF Segments
  <2>3. \A k \in (i + 1)..Len(s) : s[k].at # "resume"
    BY <1>1, <1>2, <2>1, <2>2 DEF Segments
  <2> QED
    BY <1>1, <1>2, <2>1, <2>3 DEF Segments
<1>5. m \in Threads /\ m # l /\ s[n].l = m /\ \A k \in 1..n : s[k].l # l
  BY <1>1, <1>2, <1>3, Zenon
<1>6. On(s, m) /\ ths[m].status = "ok" /\ ~ths[m].start
  BY <1>1, <1>2, <1>5 DEF On, Statuses
<1>7. Within(s[n], g, H, {"resume", "wrap"})
  BY <1>1 DEF Linked, WaitsAt
<1>8. H \in Nat /\ H > 0 /\ H - 1 \in Nat /\ g \in Seq(FrameSet) /\ U.frames \in Seq(FrameSet) /\ Len(U.frames) \in Nat /\ RunsAbove(s[n], g, H - 1)
  <2>1. ths[m] \in ThreadSet
    BY <1>1, <1>5
  <2>2. g \in Seq(FrameSet) /\ H \in Nat /\ U.frames \in Seq(FrameSet) /\ Len(U.frames) \in Nat
    BY <2>1, ThreadFields
  <2>3. H \in 1..H /\ RunsAbove(s[n], g, H - 1)
    BY <1>7 DEF Within
  <2> HIDE DEF H, g
  <2> QED
    BY <2>2, <2>3
<1>9. \A k \in 1..n : Deep(s[k]) /\ s[k].l = m => s[k].ci < H - 1
  <2> HIDE DEF g, H, n
  <2> QED
    BY <1>1, <1>2, <1>5, <1>8, RunsDeep
<1>10. Ypcalls(U.frames) /\ Covers(s, n, U.frames, m)
  <2>1. Ypcalls(g) /\ Covers(s, Len(s), g, m)
    BY <1>1, <1>5, <1>6
  <2>2. \A k \in 1..Len(s) : Unyields(s, k, m) => k \in 1..n
    BY <1>2, <1>3 DEF Unyields
  <2>3. Covers(s, n, g, m)
    BY <2>1, <2>2, Zenon DEF Covers
  <2> HIDE DEF g
  <2>4. Len(U.frames) <= Len(g) /\ \A k \in 1..Len(U.frames) : U.frames[k] = g[k]
    BY DEF g
  <2> QED
    BY <1>8, <2>1, <2>3, <2>4, FramesCut
<1>11. Count(s, n) = U.nC /\ Nny(s, m, n) = U.nny
  <2>1. Count(s, n) = U.nC
    BY <1>1, <1>2 DEF Counts
  <2>2. \A k \in 1..Len(s) : Unyields(s, k, m) => k \in 1..n
    BY <1>2, <1>3 DEF Unyields
  <2>3. {k \in 1..Len(s) : Unyields(s, k, m)} = {k \in 1..n : Unyields(s, k, m)}
    BY <1>2, <2>2
  <2>4. Nny(s, m, Len(s)) = Nny(s, m, n)
    BY <2>3 DEF Nny
  <2> QED
    BY <1>1, <1>2, <1>5, <2>1, <2>4 DEF Counts
<1>12. Stacks(q, mid, m)
  <2>1. H - 1 <= Len(U.frames) /\ (\A k \in 1..(H - 1) : U.frames[k] = ths[m].frames[k])
    <3>1. H - 1 <= Len(U.frames)
      BY SMTT(30)
    <3>2. \A k \in 1..(H - 1) : k \in 1..Len(U.frames)
      BY <1>8, <3>1, SMTT(30)
    <3> QED
      BY <3>1, <3>2, SMTT(30)
  <2>2. \A k \in 1..n : Deep(s[k]) /\ s[k].l = m => s[k].ci <= H - 1
    BY <1>1, <1>2, <1>8, <1>9, RecordFields
  <2>3. \A j \in 1..n : s[j].at = "pcall" /\ s[j].l = m =>
           \A k \in 1..Len(U.frames) : k > s[j].ci => ~U.frames[k].ypcall
    <3>1. \A k \in 1..Len(U.frames) : k \in 1..Len(ths[m].frames)
      BY <1>8
    <3> SUFFICES ASSUME NEW j \in 1..n, s[j].at = "pcall", s[j].l = m, NEW k \in 1..Len(U.frames), k > s[j].ci
                 PROVE  ~U.frames[k].ypcall
      OBVIOUS
    <3>2. j \in 1..Len(s) /\ k \in 1..Len(ths[s[j].l].frames) /\ U.frames[k] = ths[s[j].l].frames[k]
      BY <1>2, <3>1
    <3> QED
      BY <1>1, <3>2 DEF NoYpcalls
  <2> HIDE DEF n, H
  <2> QED
    BY <1>1, <1>2, <1>5, <1>8, <1>10, <2>1, <2>2, <2>3, StacksCut
<1>13. Counts(q, mid, m)
  <2> HIDE DEF n
  <2> QED
    BY <1>1, <1>2, <1>5, <1>11, CountsCut
<1>14. \A t : On(q, t) <=> \E k \in 1..n : s[k].l = t
  <2> HIDE DEF n
  <2> QED
    BY <1>1, <1>2, CutOn
<1>15. q \in Seq(RecordSet) /\ mid \in [Threads -> ThreadSet] /\ new \in [Threads -> ThreadSet] /\ ~On(q, l) /\ Segments(q, m)
  <2>1. n \in 0..Len(s)
    BY <1>2
  <2>2. q \in Seq(RecordSet)
    <3> HIDE DEF n
    <3> QED
      BY <1>1, <2>1, Cut
  <2> QED
    BY <1>1, <1>5, <1>12, <1>14, <2>2 DEF Stacks
<1>16. /\ new[l] = T /\ new[m] = U /\ \A t \in Threads : t # l /\ t # m => new[t] = ths[t]
       /\ new = [[ths EXCEPT ![l] = T] EXCEPT ![m] = U]
  BY <1>1, <1>5
<1>17. On(q, m) /\ (\A t \in Threads : t # l => (On(q, t) <=> On(s, t)))
  <2>1. \A t \in Threads, j \in 1..Len(s) : t # l /\ s[j].l = t => j \in 1..n
    BY <1>2, <1>4
  <2> QED
    BY <1>2, <1>5, <1>14, <2>1, Zenon DEF On
<1> HIDE DEF q, mid
<1>18. Stacks(q, new, m)
  BY <1>1, <1>12, <1>15, StacksOff
<1>19. Counts(q, new, m)
  BY <1>1, <1>13, <1>15, CountsOff
<1> HIDE DEF new
<1>20. Statuses(q, new, m)
  <2>1. \A t \in Threads : On(q, t) => ~new[t].start /\ (t # m => new[t].status = "ok")
    BY <1>1, <1>6, <1>15, <1>16, <1>17 DEF Statuses
  <2>2. \A t \in Threads : ~On(q, t) =>
       /\ new[t].status = "ok" => new[t].frames = <<>>
       /\ new[t].status = "yield" => Suspended(new[t])
    BY <1>1, <1>16, <1>17 DEF Statuses
  <2> QED
    BY <2>1, <2>2 DEF Statuses
<1>21. State(q, new, m)
  BY <1>5, <1>15, <1>18, <1>19, <1>20 DEF State
<1>22. State(SubSeq(s, 1, i - 1), [[ths EXCEPT ![l] = T] EXCEPT ![m] = U], m)
  BY <1>16, <1>21 DEF q
<1> QED
  BY <1>2, <1>5, <1>6, <1>7, <1>22

\* The thread co, off the C stack, is resumed, and has T.
LEMMA StateResume ==
  ASSUME NEW s, NEW ths, NEW l, State(s, ths, l), ths[l].status = "ok",
         NEW co \in Threads, ~On(s, co), NEW r \in RecordSet, r.at = "resume", r.l = co, r.from = l,
         r.nC = ths[l].nC + 1, r.nC < Limit,
         s[Len(s)].at \notin {"pcall", "errormsg"},
         Within(s[Len(s)], ths[l].frames, Len(ths[l].frames), {"resume", "wrap"}),
         NEW T \in ThreadSet, ~T.start, T.nC = r.nC, T.nny = 0, Ypcalls(T.frames), Shape(T.frames, Len(T.frames) - 1)
  PROVE  State(Append(s, r), [ths EXCEPT ![co] = T], co)
<1> DEFINE q == Append(s, r)
           new == [ths EXCEPT ![co] = T]
<1>1. /\ s \in Seq(RecordSet) /\ ths \in [Threads -> ThreadSet] /\ l \in Threads /\ Segments(s, l) /\ On(s, l) /\ On(s, "main")
      /\ ths[l].nC = Count(s, Len(s)) /\ Len(s) \in Nat /\ Len(s) \in 1..Len(s) /\ ths[l].nC \in Int
      /\ Stacks(s, ths, l) /\ Counts(s, ths, l) /\ Statuses(s, ths, l)
  BY StateFacts, ThreadFields DEF State
<1>2. /\ new \in [Threads -> ThreadSet] /\ new[co] = T /\ \A t \in Threads : t # co => new[t] = ths[t]
      /\ l # co /\ co # "main"
  BY <1>1
<1>3. q \in Seq(RecordSet) /\ Segments(q, co)
  BY <1>1, Grown, SegmentsResume
<1>4. Nny(s, co, Len(s)) = 0
  <2>1. {k \in 1..Len(s) : Unyields(s, k, co)} = {}
    BY DEF On, Unyields
  <2>2. Cardinality({k \in 1..Len(s) : Unyields(s, k, co)}) = 0
    BY <2>1, FS_EmptySet
  <2> QED
    BY <1>2, <2>2 DEF Nny
<1> HIDE DEF new
<1>5. Stacks(s, new, l)
  BY <1>1, StacksOff DEF new
<1>6. Stacks(q, new, co)
  <2>1. FollowsAt(s[Len(s)], r)
    BY <1>1 DEF FollowsAt
  <2>2. WaitsAt(s[Len(s)], r, new)
    BY <1>1, <1>2 DEF WaitsAt
  <2>3. Covers(s, Len(s), new[co].frames, co)
    BY <1>2 DEF Covers, Shape
  <2>4. ~Deep(r)
    BY DEF Deep
  <2> QED
    BY <1>1, <1>2, <1>3, <1>5, <2>1, <2>2, <2>3, <2>4, StacksGrow
<1>7. Counts(q, new, co)
  <2>1. T.nC = Count(s, Len(s)) + (IF r.at \in {"call", "resume"} THEN 1 ELSE 0)
    BY <1>1
  <2>2. T.nny = Nny(s, co, Len(s)) + (IF r.at = "call" /\ r.noyield THEN 1 ELSE 0)
    BY <1>4
  <2>3. (r.at \in {"pcall", "resume"} => r.nC = T.nC /\ r.nC < Limit) /\ r.at # "pcall" /\ r.from = l /\ l # co
    BY <1>2
  <2> QED
    BY <1>1, <2>1, <2>2, <2>3, CountsGrow DEF new
<1>8. \A t \in Threads : On(q, t) <=> On(s, t) \/ t = co
  BY <1>1, GrownOn
<1> HIDE DEF q
<1>9. Statuses(q, new, co)
  BY <1>1, <1>2, <1>8, Zenon DEF Statuses
<1>10. State(q, new, co)
  BY <1>1, <1>2, <1>3, <1>6, <1>7, <1>9 DEF State
<1> QED
  BY <1>10 DEF q, new
-----------------------------------------------------------------------------
(* What the operations do to the fields of a thread.                       *)

Others(T, U) == T.status = U.status /\ T.start = U.start
Keeps(T, U) == Others(T, U) /\ T.nC = U.nC /\ T.nny = U.nny

LEMMA Pushed ==
  ASSUME NEW g \in Seq(FrameSet), NEW f \in FrameSet
  PROVE  /\ Append(g, f) \in Seq(FrameSet) /\ Len(g) \in Nat /\ Len(Append(g, f)) = Len(g) + 1
         /\ Append(g, f)[Len(g) + 1] = f /\ Append(g, f)[Len(Append(g, f))] = f
         /\ \A k \in 1..Len(g) : Append(g, f)[k] = g[k]
         /\ \A k \in 1..Len(Append(g, f)) : k \in 1..Len(g) \/ k = Len(g) + 1
<1>1. Len(g) \in Nat
  BY LenProperties
<1> QED
  BY <1>1, AppendProperties

LEMMA Popped ==
  ASSUME NEW g \in Seq(FrameSet), Len(g) > 0
  PROVE  /\ Pop(g) \in Seq(FrameSet) /\ Len(g) \in Nat /\ Len(Pop(g)) = Len(g) - 1 /\ Last(g) \in FrameSet /\ Last(g) = g[Len(g)]
         /\ \A k \in 1..Len(Pop(g)) : Pop(g)[k] = g[k] /\ k \in 1..Len(g)
<1>1. Len(g) \in Nat /\ Len(g) - 1 \in 0..Len(g) /\ Len(g) \in 1..Len(g)
  BY LenProperties
<1>2. Last(g) \in FrameSet
  BY <1>1, ElementOfSeq DEF Last
<1> QED
  BY <1>1, <1>2, Cut DEF Pop, Last

LEMMA FrameFields ==
  ASSUME NEW kind \in Kinds, NEW fresh \in BOOLEAN
  PROVE  /\ Frame(kind, fresh) \in FrameSet /\ Frame(kind, fresh).kind = kind /\ Frame(kind, fresh).fresh = fresh
         /\ Frame(kind, fresh).ypcall = FALSE
BY DEF Frame, FrameSet

LEMMA PushFields ==
  ASSUME NEW T \in ThreadSet, NEW f \in FrameSet, NEW n \in Int
  PROVE  /\ Push(T, f) \in ThreadSet /\ Keeps(Push(T, f), T) /\ Push(T, f).frames = Append(T.frames, f)
         /\ Push([T EXCEPT !.size = n], f) \in ThreadSet /\ Keeps(Push([T EXCEPT !.size = n], f), T)
         /\ Push([T EXCEPT !.size = n], f).frames = Append(T.frames, f)
         /\ [T EXCEPT !.size = n] \in ThreadSet /\ Keeps([T EXCEPT !.size = n], T) /\ [T EXCEPT !.size = n].frames = T.frames
<1>1. T.frames \in Seq(FrameSet) /\ Append(T.frames, f) \in Seq(FrameSet)
  BY ThreadFields, Pushed
<1> DEFINE g == Append(T.frames, f)
           P == [T EXCEPT !.frames = g]
           U == [T EXCEPT !.size = n]
           Q == [U EXCEPT !.frames = g]
<1>2. Push(T, f) = P /\ Push(U, f) = Q
  BY DEF Push, ThreadSet
<1>3. g \in Seq(FrameSet)
  BY <1>1
<1> HIDE DEF g
<1>4. P \in ThreadSet /\ Keeps(P, T) /\ P.frames = g
  BY <1>3 DEF ThreadSet, Keeps, Others
<1>5. U \in ThreadSet /\ Keeps(U, T) /\ U.frames = T.frames
  BY DEF ThreadSet, Keeps, Others
<1>6. Q \in ThreadSet /\ Keeps(Q, T) /\ Q.frames = g
  BY <1>3 DEF ThreadSet, Keeps, Others
<1> QED
  BY <1>2, <1>4, <1>5, <1>6 DEF g

LEMMA CountedFields ==
  ASSUME NEW T \in ThreadSet, NEW noyield \in BOOLEAN
  PROVE  /\ Counted(T, noyield) \in ThreadSet /\ Others(Counted(T, noyield), T) /\ Counted(T, noyield).frames = T.frames
         /\ Counted(T, noyield).nC = T.nC + 1 /\ Counted(T, noyield).nny = T.nny + (IF noyield THEN 1 ELSE 0)
<1> DEFINE a == T.nC + 1
           b == IF noyield THEN T.nny + 1 ELSE T.nny
<1>1. a \in Int /\ b \in Int /\ b = T.nny + (IF noyield THEN 1 ELSE 0)
  BY ThreadFields
<1>2. Counted(T, noyield) = [T EXCEPT !.nC = a, !.nny = b]
  BY DEF Counted, ThreadSet
<1> HIDE DEF a, b
<1>3. /\ Counted(T, noyield) \in ThreadSet /\ Others(Counted(T, noyield), T) /\ Counted(T, noyield).frames = T.frames
      /\ Counted(T, noyield).nC = a /\ Counted(T, noyield).nny = b
  BY <1>1, <1>2 DEF ThreadSet, Others
<1> QED
  BY <1>1, <1>3 DEF a

LEMMA UnCountedFields ==
  ASSUME NEW T \in ThreadSet, NEW r, r.noyield \in BOOLEAN
  PROVE  /\ UnCounted(T, r) \in ThreadSet /\ Others(UnCounted(T, r), T) /\ UnCounted(T, r).frames = T.frames
         /\ UnCounted(T, r).nC = T.nC - 1 /\ UnCounted(T, r).nny = T.nny - (IF r.noyield THEN 1 ELSE 0)
<1> DEFINE a == T.nC - 1
           b == IF r.noyield THEN T.nny - 1 ELSE T.nny
<1>1. a \in Int /\ b \in Int /\ b = T.nny - (IF r.noyield THEN 1 ELSE 0)
  BY ThreadFields
<1>2. UnCounted(T, r) = [T EXCEPT !.nC = a, !.nny = b]
  BY DEF UnCounted, ThreadSet
<1> HIDE DEF a, b
<1>3. /\ UnCounted(T, r) \in ThreadSet /\ Others(UnCounted(T, r), T) /\ UnCounted(T, r).frames = T.frames
      /\ UnCounted(T, r).nC = a /\ UnCounted(T, r).nny = b
  BY <1>1, <1>2 DEF ThreadSet, Others
<1> QED
  BY <1>1, <1>3 DEF a

LEMMA FinishedFields ==
  ASSUME NEW T \in ThreadSet, Len(T.frames) > 0
  PROVE  /\ Finished(T) \in ThreadSet /\ Keeps(Finished(T), T) /\ Finished(T).frames = Pop(T.frames)
<1> DEFINE g == Pop(T.frames)
           e == IF Last(T.frames).ypcall THEN Last(T.frames).old ELSE T.errf
<1>1. g \in Seq(FrameSet)
  BY ThreadFields, Popped
<1>2. e \in Nat
  <2>1. Last(T.frames).old \in Nat
    BY ThreadFields, Popped DEF FrameSet
  <2> QED
    BY <2>1, ThreadFields
<1>3. Finished(T) = [T EXCEPT !.frames = g, !.errf = e]
  BY DEF Finished, ThreadSet
<1> HIDE DEF g, e
<1>4. Finished(T) \in ThreadSet /\ Keeps(Finished(T), T) /\ Finished(T).frames = g
  BY <1>1, <1>2, <1>3 DEF ThreadSet, Keeps, Others
<1> QED
  BY <1>4 DEF g

LEMMA ShrinkFields ==
  ASSUME NEW T \in ThreadSet
  PROVE  /\ ShrinkStack(T) \in ThreadSet /\ Keeps(ShrinkStack(T), T) /\ ShrinkStack(T).frames = T.frames
<1>1. GoodSize(T) \in Int
  BY ThreadFields, ThreadsAssumption DEF GoodSize, InUse
<1> HIDE DEF GoodSize
<1>2. [T EXCEPT !.size = GoodSize(T)] \in ThreadSet /\ Keeps([T EXCEPT !.size = GoodSize(T)], T)
      /\ [T EXCEPT !.size = GoodSize(T)].frames = T.frames
  BY <1>1 DEF ThreadSet, Keeps, Others
<1> QED
  BY <1>2 DEF ShrinkStack, Keeps, Others

LEMMA RestoredFields ==
  ASSUME NEW T \in ThreadSet, NEW r, r.nC \in Int
  PROVE  /\ Restored(T, r) \in ThreadSet /\ Others(Restored(T, r), T) /\ Restored(T, r).frames = T.frames
         /\ Restored(T, r).nC = r.nC /\ Restored(T, r).nny = T.nny
BY DEF Restored, ThreadSet, Others

LEMMA PcallErrorFields ==
  ASSUME NEW T \in ThreadSet, NEW r, r.ci \in 0..Len(T.frames), r.nny \in Int, r.errf \in Nat
  PROVE  /\ PcallError(T, r) \in ThreadSet /\ Others(PcallError(T, r), T)
         /\ PcallError(T, r).frames = SubSeq(T.frames, 1, r.ci) /\ PcallError(T, r).nC = T.nC /\ PcallError(T, r).nny = r.nny
<1> DEFINE g == SubSeq(T.frames, 1, r.ci)
           U == [T EXCEPT !.frames = g, !.nny = r.nny, !.errf = r.errf]
<1>1. g \in Seq(FrameSet)
  BY ThreadFields, Cut
<1>2. PcallError(T, r) = ShrinkStack(U)
  BY DEF PcallError, ThreadSet
<1> HIDE DEF g
<1>3. U \in ThreadSet /\ Others(U, T) /\ U.frames = g /\ U.nC = T.nC /\ U.nny = r.nny
  BY <1>1 DEF ThreadSet, Others
<1> HIDE DEF U
<1>4. ShrinkStack(U) \in ThreadSet /\ Keeps(ShrinkStack(U), U) /\ ShrinkStack(U).frames = U.frames
  BY <1>3, ShrinkFields
<1> QED
  BY <1>2, <1>3, <1>4 DEF Keeps, Others, g

LEMMA RecoveredFields ==
  ASSUME NEW T \in ThreadSet, NEW i \in 1..Len(T.frames)
  PROVE  /\ Recovered(T, i) \in ThreadSet /\ Others(Recovered(T, i), T)
         /\ Recovered(T, i).frames = SubSeq(T.frames, 1, i) /\ Recovered(T, i).nC = T.nC /\ Recovered(T, i).nny = 0
<1> DEFINE g == SubSeq(T.frames, 1, i)
           e == T.frames[i].old
           z == 0
           U == [T EXCEPT !.frames = g, !.nny = z, !.errf = e]
<1>1. g \in Seq(FrameSet) /\ e \in Nat /\ z \in Int
  <2>1. i \in 0..Len(T.frames) /\ T.frames[i] \in FrameSet
    BY ThreadFields
  <2> QED
    BY <2>1, ThreadFields, Cut DEF FrameSet
<1>2. Recovered(T, i) = ShrinkStack(U)
  BY DEF Recovered, ThreadSet
<1> HIDE DEF g, e, z
<1>3. U \in ThreadSet /\ Others(U, T) /\ U.frames = g /\ U.nC = T.nC /\ U.nny = z
  BY <1>1 DEF ThreadSet, Others
<1> HIDE DEF U
<1>4. ShrinkStack(U) \in ThreadSet /\ Keeps(ShrinkStack(U), U) /\ ShrinkStack(U).frames = U.frames
  BY <1>3, ShrinkFields
<1> QED
  BY <1>2, <1>3, <1>4 DEF Keeps, Others, g, z

LEMMA RunningFields ==
  ASSUME NEW T \in ThreadSet, NEW n \in Int
  PROVE  /\ Running(T, n) \in ThreadSet /\ Running(T, n).frames = T.frames /\ Running(T, n).nC = n /\ Running(T, n).nny = 0
         /\ Running(T, n).status = "ok" /\ Running(T, n).start = FALSE
<1> DEFINE z == 0
           st == "ok"
           no == FALSE
<1>1. z \in Int /\ st \in {"ok", "yield", "err"} /\ no \in BOOLEAN
  OBVIOUS
<1>2. Running(T, n) = [T EXCEPT !.nC = n, !.nny = z, !.status = st, !.start = no]
  BY DEF Running
<1> HIDE DEF z, st, no
<1>3. /\ Running(T, n) \in ThreadSet /\ Running(T, n).frames = T.frames /\ Running(T, n).nC = n /\ Running(T, n).nny = z
      /\ Running(T, n).status = st /\ Running(T, n).start = no
  BY <1>1, <1>2 DEF ThreadSet
<1> QED
  BY <1>3 DEF z, st, no

\* A function is called, that is not protected yet.
LEMMA FramesPush ==
  ASSUME NEW g \in Seq(FrameSet), NEW f \in FrameSet, ~f.ypcall
  PROVE  /\ Ypcalls(g) => Ypcalls(Append(g, f))
         /\ \A s, n, t : Covers(s, n, g, t) /\ (Len(g) > 0 => Plain(g[Len(g)]) \/ \E i \in 1..n : Unyields(s, i, t) /\ s[i].ci = Len(g))
              => Covers(s, n, Append(g, f), t)
<1> DEFINE h == Append(g, f)
<1>1. h \in Seq(FrameSet) /\ Len(g) \in Nat /\ Len(h) = Len(g) + 1 /\ h[Len(g) + 1] = f
      /\ (\A k \in 1..Len(g) : h[k] = g[k]) /\ \A k \in 1..Len(h) : k \in 1..Len(g) \/ k = Len(g) + 1
  BY Pushed
<1>2. \A k \in 1..Len(g) : \A j \in 1..k : j \in 1..Len(g)
  BY <1>1
<1>3. \A k \in 1..(Len(h) - 1) : k \in 1..Len(g) /\ (k \in 1..(Len(g) - 1) \/ (k = Len(g) /\ Len(g) > 0))
  BY <1>1
<1> HIDE DEF h
<1>4. Ypcalls(g) => Ypcalls(h)
  BY <1>1, <1>2, Zenon DEF Ypcalls, Shape
<1>5. ASSUME NEW s, NEW n, NEW t, Covers(s, n, g, t), Len(g) > 0 => Plain(g[Len(g)]) \/ \E i \in 1..n : Unyields(s, i, t) /\ s[i].ci = Len(g)
      PROVE  Covers(s, n, h, t)
  BY <1>1, <1>3, <1>5, Zenon DEF Covers
<1>6. \A s, n, t : Covers(s, n, g, t) /\ (Len(g) > 0 => Plain(g[Len(g)]) \/ \E i \in 1..n : Unyields(s, i, t) /\ s[i].ci = Len(g))
              => Covers(s, n, h, t)
  BY <1>5, Zenon
<1> QED
  BY <1>4, <1>6, Zenon DEF h
-----------------------------------------------------------------------------
(* What comes next.                                                        *)

LEMMA Limits == Limit \in Nat /\ MaxCCalls \in Nat /\ MaxCCalls < Limit /\ Limit > 1
BY ThreadsAssumption DEF Limit

LEMMA BoundedThrow == \A n \in Int : n <= Limit => Bounded(n, "throw")
BY Limits DEF Bounded

LEMMA Controls ==
  /\ Run \in CtlSet /\ Run.go = "run" /\ Run.st = "ok"
  /\ Raise \in CtlSet /\ Raise.go = "raise" /\ Raise.st = "err"
  /\ \A go \in {"return", "unroll", "stop"} :
       Ctl(go, "ok", "") \in CtlSet /\ Ctl(go, "ok", "").go = go /\ Ctl(go, "ok", "").st = "ok"
  /\ \A noyield \in BOOLEAN : /\ Call(noyield) \in CtlSet /\ Call(noyield).st = "ok"
                              /\ Call(noyield).go = IF noyield THEN "callnoyield" ELSE "call"
  /\ \A st \in {"err", "yield"}, msg \in {"", "error", "handled", "unhandled"} :
       Throw(st, msg) \in CtlSet /\ Throw(st, msg).go = "throw" /\ Throw(st, msg).st = st
  /\ \A kind \in Kinds : /\ Body(kind) \in CtlSet /\ Body(kind).st = "ok"
                         /\ Body(kind).go = IF kind = "lua" THEN "run" ELSE "body"
<1>1. Run \in CtlSet /\ Run.go = "run" /\ Run.st = "ok" /\ Raise \in CtlSet /\ Raise.go = "raise" /\ Raise.st = "err"
  BY DEF Run, Raise, Ctl, CtlSet, Goings
<1>2. ASSUME NEW noyield \in BOOLEAN
      PROVE  Call(noyield) \in CtlSet /\ Call(noyield).st = "ok" /\ Call(noyield).go = IF noyield THEN "callnoyield" ELSE "call"
  BY DEF Call, Ctl, CtlSet, Goings
<1>3. ASSUME NEW st \in {"err", "yield"}, NEW msg \in {"", "error", "handled", "unhandled"}
      PROVE  Throw(st, msg) \in CtlSet /\ Throw(st, msg).go = "throw" /\ Throw(st, msg).st = st
  BY DEF Throw, Ctl, CtlSet, Goings
<1>4. ASSUME NEW kind \in Kinds
      PROVE  Body(kind) \in CtlSet /\ Body(kind).st = "ok" /\ Body(kind).go = IF kind = "lua" THEN "run" ELSE "body"
  BY DEF Body, Ctl, CtlSet, Goings
<1>5. ASSUME NEW go \in {"return", "unroll", "stop"}
      PROVE  Ctl(go, "ok", "") \in CtlSet /\ Ctl(go, "ok", "").go = go /\ Ctl(go, "ok", "").st = "ok"
  BY DEF Ctl, CtlSet, Goings
<1> QED
  BY <1>1, <1>2, <1>3, <1>4, <1>5

LEMMA GoesGood ==
  ASSUME L \in Threads, th \in [Threads -> ThreadSet],
         NEW T, NEW stack, NEW k \in CtlSet, Goes(T, stack, k), State(stack, [th EXCEPT ![L] = T], L),
         Continues(stack[Len(stack)], T.frames, k.go), Bounded(T.nC, k.go), Yielding(T, k)
  PROVE  Good(c', th', L', ctl')
<1>1. th' = [th EXCEPT ![L] = T] /\ c' = stack /\ ctl' = k /\ L' = L
  BY DEF Goes
<1>2. th'[L] = T
  BY <1>1
<1> QED
  BY <1>1, <1>2 DEF Good

LEMMA RaiseGood ==
  ASSUME L \in Threads, th \in [Threads -> ThreadSet],
         NEW T \in ThreadSet, NEW stack, Goes(T, stack, Raise), State(stack, [th EXCEPT ![L] = T], L),
         stack[Len(stack)].at \notin {"pcall", "errormsg"}, T.nC < Limit, T.status = "ok"
  PROVE  Good(c', th', L', ctl')
<1>1. Continues(stack[Len(stack)], T.frames, Raise.go) /\ Bounded(T.nC, Raise.go) /\ Yielding(T, Raise) /\ Raise \in CtlSet
  BY Controls DEF Continues, Bounded, Yielding
<1> QED
  BY <1>1, GoesGood

LEMMA ThrowGood ==
  ASSUME L \in Threads, th \in [Threads -> ThreadSet],
         NEW T \in ThreadSet, NEW stack, NEW msg \in {"", "error", "handled", "unhandled"},
         Goes(T, stack, Throw("err", msg)), State(stack, [th EXCEPT ![L] = T], L),
         stack[Len(stack)].at \notin {"pcall", "errormsg"}, T.nC <= Limit, T.status = "ok"
  PROVE  Good(c', th', L', ctl')
<1> DEFINE k == Throw("err", msg)
<1>1. Limit \in Nat /\ T.nC \in Int
  BY Limits, ThreadFields
<1>2. k \in CtlSet /\ k.go = "throw" /\ k.st = "err"
  BY Controls
<1> HIDE DEF k
<1>3. Continues(stack[Len(stack)], T.frames, k.go)
  BY <1>2 DEF Continues
<1>4. Bounded(T.nC, k.go)
  BY <1>1, <1>2, BoundedThrow
<1>5. Yielding(T, k)
  BY <1>2 DEF Yielding
<1>6. Goes(T, stack, k)
  BY DEF k
<1> QED
  BY <1>2, <1>3, <1>4, <1>5, <1>6, GoesGood

\* Where a function may be called.
Callable(s, g, l) == Len(g) > 0 => Plain(g[Len(g)]) \/ \E i \in 1..Len(s) : Unyields(s, i, l) /\ s[i].ci = Len(g)

LEMMA StatePush ==
  ASSUME NEW s, NEW ths, NEW l, State(s, ths, l), NEW T \in ThreadSet, Keeps(T, ths[l]), NEW f \in FrameSet, ~f.ypcall,
         T.frames = Append(ths[l].frames, f), Callable(s, ths[l].frames, l)
  PROVE  State(s, [ths EXCEPT ![l] = T], l)
<1> DEFINE g == ths[l].frames
           h == T.frames
<1>1. /\ ths[l] \in ThreadSet /\ Depths(s, ths) /\ NoYpcalls(s, ths) /\ Ypcalls(g) /\ ~ths[l].start /\ Covers(s, Len(s), g, l)
      /\ \A i \in 1..Len(s) : s[i] \in RecordSet /\ s[i].l \in Threads
  BY StateFacts
<1>2. g \in Seq(FrameSet) /\ Len(g) \in Nat
  BY <1>1, ThreadFields
<1>3. /\ Len(h) = Len(g) + 1 /\ h[Len(g) + 1] = f /\ (\A k \in 1..Len(g) : h[k] = g[k])
      /\ \A k \in 1..Len(h) : k \in 1..Len(g) \/ k = Len(g) + 1
  BY <1>2, Pushed
<1>4. Ypcalls(h) /\ Covers(s, Len(s), h, l)
  BY <1>1, <1>2, FramesPush DEF Callable
<1>5. \A i \in 1..Len(s) : Deep(s[i]) /\ s[i].l = l => s[i].ci <= Len(g)
  BY <1>1 DEF Depths
<1>6. \A i \in 1..Len(s) : s[i].at = "pcall" /\ s[i].l = l => \A k \in 1..Len(h) : k > s[i].ci => ~h[k].ypcall
  BY <1>1, <1>3 DEF NoYpcalls
<1>7. Len(g) <= Len(h)
  BY <1>2, <1>3
<1>8. ~T.start /\ T.nC = ths[l].nC /\ T.nny = ths[l].nny
  BY <1>1 DEF Keeps, Others
<1> HIDE DEF g, h
<1>9. \A k \in 1..Len(g) : T.frames[k] = ths[l].frames[k]
  BY <1>3 DEF g, h
<1> QED
  BY <1>2, <1>4, <1>5, <1>6, <1>7, <1>8, <1>9, StateFrames DEF g, h

LEMMA Sizes ==
  ASSUME NEW T \in ThreadSet
  PROVE  T.size \in Int /\ GrownSize(T) \in Int /\ ErrorStack \in Int
<1> DEFINE size == T.size
           len == Len(T.frames)
           doubled == IF 2 * size > MaxStack THEN MaxStack ELSE 2 * size
           needed == len + 1 + ExtraStack
<1>1. size \in Int /\ len \in Nat
  BY ThreadFields
<1>2. MaxStack \in Int /\ ErrorStack \in Int /\ ExtraStack \in Int
  BY ThreadsAssumption
<1>3. GrownSize(T) = IF doubled < needed THEN needed ELSE doubled
  BY DEF GrownSize
<1> HIDE DEF size, len
<1>4. doubled \in Int /\ needed \in Int
  BY <1>1, <1>2
<1> HIDE DEF doubled, needed
<1> QED
  BY <1>1, <1>2, <1>3, <1>4 DEF size

LEMMA EnterGood ==
  ASSUME L \in Threads, th \in [Threads -> ThreadSet],
         NEW T \in ThreadSet, NEW f \in FrameSet, ~f.ypcall, NEW stack, NEW k \in CtlSet, Enter(T, f, stack, k),
         State(stack, [th EXCEPT ![L] = T], L), Callable(stack, T.frames, L),
         stack[Len(stack)].at \notin {"pcall", "errormsg"}, T.nC < Limit, T.status = "ok",
         k.st # "yield", k.go # "throw", Continues(stack[Len(stack)], Append(T.frames, f), k.go)
  PROVE  Good(c', th', L', ctl')
<1> DEFINE ths == [th EXCEPT ![L] = T]
           n == GrownSize(T)
<1>1. ths[L] = T /\ (\A U : [ths EXCEPT ![L] = U] = [th EXCEPT ![L] = U]) /\ ths \in [Threads -> ThreadSet]
  OBVIOUS
<1>2. n \in Int /\ ErrorStack \in Int
  BY Sizes
<1> HIDE DEF n, ths
<1>3. ASSUME NEW U \in ThreadSet, Keeps(U, T), U.frames = Append(T.frames, f), Goes(U, stack, k)
      PROVE  Good(c', th', L', ctl')
  <2>1. State(stack, [ths EXCEPT ![L] = U], L)
    BY <1>1, <1>3, StatePush DEF ths
  <2>2. State(stack, [th EXCEPT ![L] = U], L)
    BY <1>1, <2>1
  <2>3. U.status = "ok" /\ U.nC = T.nC
    BY <1>3 DEF Keeps, Others
  <2>4. Bounded(U.nC, k.go) /\ Yielding(U, k)
    BY <2>3 DEF Bounded, Yielding
  <2> QED
    BY <1>3, <2>2, <2>4, GoesGood
<1>4. CASE Goes(Push(T, f), stack, k)
  BY <1>3, <1>4, <1>2, PushFields
<1>5. CASE Goes(Push([T EXCEPT !.size = n], f), stack, k)
  BY <1>3, <1>5, <1>2, PushFields
<1>6. CASE Goes([T EXCEPT !.size = ErrorStack], stack, Raise)
  <2> DEFINE U == [T EXCEPT !.size = ErrorStack]
  <2>1. U \in ThreadSet /\ Keeps(U, T) /\ U.frames = T.frames
    BY <1>2, PushFields
  <2> HIDE DEF U
  <2>2. State(stack, [ths EXCEPT ![L] = U], L)
    <3>1. ~ths[L].start /\ State(stack, ths, L)
      BY StateFacts DEF ths
    <3> QED
      BY <1>1, <2>1, <3>1, StateSame DEF Keeps, Others
  <2>3. State(stack, [th EXCEPT ![L] = U], L)
    BY <1>1, <2>2
  <2>4. U.status = "ok" /\ U.nC < Limit
    BY <2>1 DEF Keeps, Others
  <2> QED
    BY <1>6, <2>1, <2>3, <2>4, RaiseGood DEF U
<1>7. CASE Goes(T, stack, Throw("err", "unhandled"))
  <2>1. T.nC <= Limit
    BY ThreadFields, Limits
  <2> QED
    BY <1>7, <2>1, ThrowGood
<1> QED
  BY <1>4, <1>5, <1>6, <1>7 DEF Enter, n
-----------------------------------------------------------------------------
(* What runs above a record when a function is called or returns.          *)

LEMMA RunsSame ==
  ASSUME NEW g \in Seq(FrameSet), NEW f \in Seq(FrameSet), NEW n \in Nat, n <= Len(f),
         \A k \in 1..n : f[k] = g[k], NEW r, RunsAbove(r, g, n)
  PROVE  RunsAbove(r, f, n)
<1>1. PICK b \in 0..n : Ran(g, b, n) /\ (r.at = "call" => b = r.ci) /\ (r.at = "resume" => b = 0)
  BY DEF RunsAbove
<1>2. Ran(f, b, n)
  <2>1. \A k \in (b + 1)..n : k \in 1..n
    BY <1>1
  <2>2. \A k \in (b + 1)..n : f[k].kind = "lua" /\ f[k].fresh = (k = b + 1)
    BY <1>1, <2>1 DEF Ran
  <2> QED
    BY <1>1, <2>2 DEF Ran
<1> QED
  BY <1>1, <1>2 DEF RunsAbove

LEMMA RunsOne ==
  ASSUME NEW f \in Seq(FrameSet), NEW n \in Nat, Len(f) = n + 1, f[n + 1].kind = "lua", f[n + 1].fresh,
         NEW r, r.at \in {"call", "resume", "unroll"}, r.at = "call" => r.ci = n, r.at = "resume" => n = 0
  PROVE  RunsAbove(r, f, n + 1)
<1>1. n \in 0..(n + 1) /\ n < n + 1 /\ n + 1 <= n + 1 /\ \A k \in (n + 1)..(n + 1) : k = n + 1
  OBVIOUS
<1>2. \A k \in (n + 1)..(n + 1) : f[k].kind = "lua" /\ f[k].fresh = (k = n + 1)
  <2>1. f[n + 1].fresh \in BOOLEAN
    <3>1. n + 1 \in 1..Len(f)
      OBVIOUS
    <3> QED
      BY <3>1, ElementOfSeq DEF FrameSet
  <2> QED
    BY <1>1, <2>1
<1>3. Ran(f, n, n + 1)
  BY <1>1, <1>2, Zenon DEF Ran
<1> QED
  BY <1>1, <1>3, Zenon DEF RunsAbove

LEMMA RunsMore ==
  ASSUME NEW g \in Seq(FrameSet), NEW r, RunsAbove(r, g, Len(g)), NEW f \in FrameSet, f.kind = "lua", f.fresh = FALSE
  PROVE  RunsAbove(r, Append(g, f), Len(Append(g, f)))
<1> DEFINE h == Append(g, f)
           n == Len(g)
<1>1. h \in Seq(FrameSet) /\ n \in Nat /\ Len(h) = n + 1 /\ h[n + 1] = f /\ \A k \in 1..n : h[k] = g[k]
  BY Pushed
<1>2. PICK b \in 0..n : Ran(g, b, n) /\ (r.at = "call" => b = r.ci) /\ (r.at = "resume" => b = 0)
  BY DEF RunsAbove
<1> HIDE DEF h, n
<1>3. \A k \in (b + 1)..n : h[k].kind = "lua" /\ h[k].fresh = (k = b + 1)
  <2>1. \A k \in (b + 1)..n : k \in 1..n
    BY <1>1, <1>2
  <2> QED
    BY <1>1, <1>2, <2>1 DEF Ran
<1>4. b < n /\ b < n + 1 /\ b \in 0..(n + 1) /\ n + 1 # b + 1 /\ n + 1 <= n + 1 /\ \A k \in (b + 1)..(n + 1) : k \in (b + 1)..n \/ k = n + 1
  BY <1>1, <1>2 DEF Ran
<1>5. \A k \in (b + 1)..(n + 1) : h[k].kind = "lua" /\ h[k].fresh = (k = b + 1)
  BY <1>1, <1>3, <1>4, Zenon
<1>6. Ran(h, b, n + 1)
  BY <1>1, <1>4, <1>5, Zenon DEF Ran
<1>7. RunsAbove(r, h, n + 1)
  BY <1>2, <1>4, <1>6, Zenon DEF RunsAbove
<1> QED
  BY <1>1, <1>7 DEF h

\* A Lua function returns: to another, or to what runs it.
LEMMA RunsLess ==
  ASSUME NEW g \in Seq(FrameSet), NEW r, RunsAbove(r, g, Len(g))
  PROVE  /\ Len(g) > 0 /\ Last(g).kind = "lua" /\ r.at \in {"call", "resume", "unroll"}
         /\ ~Last(g).fresh => RunsAbove(r, Pop(g), Len(Pop(g)))
         /\ Last(g).fresh => (r.at = "call" => r.ci = Len(Pop(g))) /\ (r.at = "resume" => Len(Pop(g)) = 0)
<1> DEFINE n == Len(g)
           h == Pop(g)
<1>1. PICK b \in 0..n : Ran(g, b, n) /\ (r.at = "call" => b = r.ci) /\ (r.at = "resume" => b = 0)
  BY DEF RunsAbove
<1>2. n \in Nat /\ n > 0 /\ b < n /\ n \in (b + 1)..n /\ Last(g) = g[n]
  BY <1>1, LenProperties DEF Ran, Last
<1>3. g[n].kind = "lua" /\ g[n].fresh = (n = b + 1)
  BY <1>1, <1>2 DEF Ran
<1>4. h \in Seq(FrameSet) /\ Len(h) = n - 1 /\ \A k \in 1..Len(h) : h[k] = g[k]
  BY <1>2, Popped
<1> HIDE DEF n, h
<1>5. ASSUME n # b + 1 PROVE RunsAbove(r, h, n - 1)
  <2>1. b < n - 1 /\ b \in 0..(n - 1) /\ n - 1 <= n - 1 /\ \A k \in (b + 1)..(n - 1) : k \in (b + 1)..n /\ k \in 1..(n - 1)
    BY <1>2, <1>5
  <2>2. \A k \in (b + 1)..(n - 1) : h[k].kind = "lua" /\ h[k].fresh = (k = b + 1)
    BY <1>1, <1>4, <2>1 DEF Ran
  <2>3. Ran(h, b, n - 1)
    BY <1>4, <2>1, <2>2, Zenon DEF Ran
  <2> QED
    BY <1>1, <2>1, <2>3, Zenon DEF RunsAbove
<1>6. ASSUME n = b + 1 PROVE (r.at = "call" => r.ci = n - 1) /\ (r.at = "resume" => n - 1 = 0)
  BY <1>1, <1>2, <1>6
<1>7. r.at \in {"call", "resume", "unroll"}
  BY DEF RunsAbove
<1> QED
  BY <1>2, <1>3, <1>4, <1>5, <1>6, <1>7 DEF n, h

\* A C function is called, or returns.
LEMMA WithinPushed ==
  ASSUME NEW g \in Seq(FrameSet), NEW r, RunsAbove(r, g, Len(g)), NEW f \in FrameSet, NEW kinds, f.kind \in kinds
  PROVE  Within(r, Append(g, f), Len(Append(g, f)), kinds)
<1> DEFINE h == Append(g, f)
<1>1. h \in Seq(FrameSet) /\ Len(g) \in Nat /\ Len(h) = Len(g) + 1 /\ h[Len(h)] = f /\ \A k \in 1..Len(g) : h[k] = g[k]
  BY Pushed
<1> HIDE DEF h
<1>2. Len(g) <= Len(h) /\ Len(h) - 1 = Len(g) /\ Len(h) \in 1..Len(h)
  BY <1>1
<1>3. RunsAbove(r, h, Len(g))
  BY <1>1, <1>2, RunsSame
<1>4. Within(r, h, Len(h), kinds)
  BY <1>1, <1>2, <1>3 DEF Within
<1> QED
  BY <1>4 DEF h

LEMMA WithinPopped ==
  ASSUME NEW g \in Seq(FrameSet), NEW r, NEW n, NEW kinds, Within(r, g, n, kinds),
         NEW h \in Seq(FrameSet), Len(h) = n - 1, \A k \in 1..(n - 1) : h[k] = g[k]
  PROVE  /\ n \in 1..Len(g) /\ n \in Nat /\ g[n].kind \in kinds /\ r.at \in {"call", "resume", "unroll"}
         /\ RunsAbove(r, g, n - 1) /\ RunsAbove(r, h, Len(h))
<1>1. n \in 1..Len(g) /\ n \in Nat /\ n - 1 \in Nat /\ g[n].kind \in kinds /\ RunsAbove(r, g, n - 1) /\ n - 1 <= Len(h)
  BY LenProperties DEF Within
<1>2. RunsAbove(r, h, n - 1)
  BY <1>1, RunsSame
<1> QED
  BY <1>1, <1>2 DEF RunsAbove

LEMMA PopFields ==
  ASSUME NEW T \in ThreadSet, Len(T.frames) > 0
  PROVE  /\ [T EXCEPT !.frames = Pop(@)] \in ThreadSet /\ Keeps([T EXCEPT !.frames = Pop(@)], T)
         /\ [T EXCEPT !.frames = Pop(@)].frames = Pop(T.frames)
<1> DEFINE g == Pop(T.frames)
<1>1. g \in Seq(FrameSet)
  BY ThreadFields, Popped
<1>2. [T EXCEPT !.frames = Pop(@)] = [T EXCEPT !.frames = g]
  BY DEF ThreadSet
<1> HIDE DEF g
<1>3. [T EXCEPT !.frames = g] \in ThreadSet /\ Keeps([T EXCEPT !.frames = g], T) /\ [T EXCEPT !.frames = g].frames = g
  BY <1>1 DEF ThreadSet, Keeps, Others
<1> QED
  BY <1>2, <1>3 DEF g

LEMMA HandlerFields ==
  ASSUME NEW T \in ThreadSet, NEW e \in Nat
  PROVE  [T EXCEPT !.errf = e] \in ThreadSet /\ Keeps([T EXCEPT !.errf = e], T) /\ [T EXCEPT !.errf = e].frames = T.frames
BY DEF ThreadSet, Keeps, Others

\* The C stack is cut to the record n and the frames of its thread to the
\* function that waits there.
LEMMA StateBack ==
  ASSUME NEW s, NEW ths, NEW l, State(s, ths, l), NEW n \in 1..Len(s), s[n].l = l,
         NEW T \in ThreadSet, Others(T, ths[l]), T.nC = Count(s, n), T.nny = Nny(s, l, n),
         Len(T.frames) <= Len(ths[l].frames), \A k \in 1..Len(T.frames) : T.frames[k] = ths[l].frames[k],
         \A i \in 1..n : Deep(s[i]) /\ s[i].l = l => s[i].ci <= Len(T.frames),
         \A k \in 1..(Len(T.frames) - 1), i \in 1..Len(s) : Unyields(s, i, l) /\ s[i].ci = k => i \in 1..n
  PROVE  State(SubSeq(s, 1, n), [ths EXCEPT ![l] = T], l)
<1> DEFINE g == ths[l].frames
           h == T.frames
<1>1. /\ ths[l] \in ThreadSet /\ NoYpcalls(s, ths) /\ Ypcalls(g) /\ ~ths[l].start /\ Covers(s, Len(s), g, l) /\ Len(s) \in Nat
  BY StateFacts
<1>2. g \in Seq(FrameSet) /\ Len(g) \in Nat /\ h \in Seq(FrameSet) /\ Len(h) \in Nat /\ Len(h) <= Len(h)
  BY <1>1, ThreadFields
<1>3. Ypcalls(h) /\ Covers(s, Len(s), h, l)
  BY <1>1, <1>2, FramesCut
<1>4. Covers(s, n, h, l)
  BY <1>3, Zenon DEF Covers
<1>5. \A i \in 1..n : s[i].at = "pcall" /\ s[i].l = l => \A k \in 1..Len(h) : k > s[i].ci => ~h[k].ypcall
  <2>1. \A i \in 1..n : i \in 1..Len(s)
    BY <1>1
  <2>2. \A k \in 1..Len(h) : k \in 1..Len(g)
    BY <1>2
  <2> QED
    BY <1>1, <2>1, <2>2 DEF NoYpcalls
<1>6. ~T.start
  BY <1>1 DEF Others
<1> HIDE DEF g
<1> QED
  BY <1>2, <1>3, <1>4, <1>5, <1>6, StateCut

LEMMA StatePop ==
  ASSUME NEW s, NEW ths, NEW l, State(s, ths, l), NEW T \in ThreadSet, Keeps(T, ths[l]),
         Len(T.frames) <= Len(ths[l].frames), \A k \in 1..Len(T.frames) : T.frames[k] = ths[l].frames[k],
         \A i \in 1..Len(s) : Deep(s[i]) /\ s[i].l = l => s[i].ci <= Len(T.frames)
  PROVE  State(s, [ths EXCEPT ![l] = T], l)
<1>1. /\ s \in Seq(RecordSet) /\ Len(s) \in 1..Len(s) /\ s[Len(s)].l = l
      /\ ths[l].nC = Count(s, Len(s)) /\ ths[l].nny = Nny(s, l, Len(s))
  BY StateFacts
<1>2. State(SubSeq(s, 1, Len(s)), [ths EXCEPT ![l] = T], l)
  BY <1>1, StateBack DEF Keeps
<1> QED
  BY <1>1, <1>2, SubSeqFull

LEMMA CountLast ==
  ASSUME NEW s \in Seq(RecordSet), NEW n \in Nat, n > 0, NEW u \in Threads
  PROVE  /\ Count(s, n - 1) \in Nat /\ Nny(s, u, n - 1) \in Nat
         /\ Count(s, n) = Count(s, n - 1) + (IF s[n].at \in {"call", "resume"} THEN 1 ELSE 0)
         /\ Nny(s, u, n) = Nny(s, u, n - 1) + (IF Unyields(s, n, u) THEN 1 ELSE 0)
<1> DEFINE m == n - 1
<1>1. m \in Nat /\ m + 1 = n
  OBVIOUS
<1> HIDE DEF m
<1>2. /\ Count(s, m) \in Nat /\ Nny(s, u, m) \in Nat
      /\ Count(s, m + 1) = Count(s, m) + (IF s[m + 1].at \in {"call", "resume"} THEN 1 ELSE 0)
      /\ Nny(s, u, m + 1) = Nny(s, u, m) + (IF Unyields(s, m + 1, u) THEN 1 ELSE 0)
  BY <1>1, CountNext
<1> QED
  BY <1>1, <1>2 DEF m
-----------------------------------------------------------------------------
(* The steps.                                                              *)

LEMMA Running0 ==
  ASSUME Good(c, th, L, ctl)
  PROVE  /\ c \in Seq(RecordSet) /\ th \in [Threads -> ThreadSet] /\ L \in Threads /\ th[L] \in ThreadSet
         /\ th[L].frames \in Seq(FrameSet) /\ Len(th[L].frames) \in Nat /\ th[L].nC \in Int /\ th[L].nny \in Int /\ th[L].errf \in Nat
         /\ [th EXCEPT ![L] = th[L]] = th /\ State(c, [th EXCEPT ![L] = th[L]], L)
         /\ Len(c) \in Nat /\ Len(c) \in 1..Len(c) /\ c[Len(c)] \in RecordSet /\ c[Len(c)].l = L
<1>1. State(c, th, L) /\ c \in Seq(RecordSet) /\ th \in [Threads -> ThreadSet] /\ L \in Threads /\ th[L] \in ThreadSet
      /\ Len(c) \in Nat /\ Len(c) \in 1..Len(c) /\ c[Len(c)] \in RecordSet /\ c[Len(c)].l = L
  <2>1. State(c, th, L)
    BY DEF Good
  <2> QED
    BY <2>1, StateFacts
<1>2. [th EXCEPT ![L] = th[L]] = th
  BY <1>1
<1> QED
  BY <1>1, <1>2, ThreadFields

LEMMA GoodStep ==
  ASSUME Good(c, th, L, ctl)
  PROVE  /\ Continues(c[Len(c)], th[L].frames, ctl.go) /\ Bounded(th[L].nC, ctl.go) /\ Yielding(th[L], ctl)
         /\ State(c, th, L) /\ ~th[L].start
         /\ ctl.go # "throw" => th[L].status = "ok" /\ th[L].nC < Limit
<1>1. State(c, th, L) /\ Continues(c[Len(c)], th[L].frames, ctl.go) /\ Bounded(th[L].nC, ctl.go) /\ Yielding(th[L], ctl)
  BY Zenon DEF Good
<1>2. ~th[L].start
  BY <1>1, StateFacts
<1>3. ctl.go # "throw" => th[L].status = "ok" /\ th[L].nC < Limit
  BY <1>1, Zenon DEF Bounded, Yielding
<1> QED
  BY <1>1, <1>2, <1>3

LEMMA InBody ==
  ASSUME Good(c, th, L, ctl), ctl.go = "body"
  PROVE  /\ Len(th[L].frames) > 0 /\ Top = th[L].frames[Len(th[L].frames)] /\ ~Top.ypcall
         /\ Within(c[Len(c)], th[L].frames, Len(th[L].frames), CFunctions)
         /\ \A kinds : Top.kind \in kinds => Within(c[Len(c)], th[L].frames, Len(th[L].frames), kinds)
         /\ RunsAbove(c[Len(c)], th[L].frames, Len(th[L].frames) - 1)
         /\ c[Len(c)].at \in {"call", "resume", "unroll"} /\ th[L].nC < Limit /\ th[L].status = "ok"
<1>1. Within(c[Len(c)], th[L].frames, Len(th[L].frames), CFunctions) /\ th[L].frames[Len(th[L].frames)].ypcall = FALSE
      /\ th[L].nC < Limit /\ th[L].status = "ok"
  <2>1. Continues(c[Len(c)], th[L].frames, ctl.go) /\ th[L].nC < Limit /\ th[L].status = "ok"
    BY GoodStep
  <2> QED
    BY <2>1 DEF Continues
<1> QED
  BY <1>1, Running0 DEF Within, Top, Last, RunsAbove

LEMMA ErrorStep == ASSUME Good(c, th, L, ctl), Error PROVE Good(c', th', L', ctl')
<1>1. ctl.go = "body" /\ Goes(th[L], c, Raise)
  BY DEF Error
<1>2. c[Len(c)].at \notin {"pcall", "errormsg"} /\ th[L].nC < Limit /\ th[L].status = "ok"
  BY <1>1, InBody
<1> QED
  BY <1>1, <1>2, Running0, RaiseGood

LEMMA CallBackStep == ASSUME Good(c, th, L, ctl), CallBack PROVE Good(c', th', L', ctl')
<1> DEFINE k == Call(TRUE)
<1>1. ctl.go = "body" /\ Top.kind = "sort" /\ Goes(th[L], c, k)
  BY DEF CallBack
<1>2. k \in CtlSet /\ k.go = "callnoyield" /\ k.st = "ok"
  BY Controls
<1> HIDE DEF k
<1>3. Within(c[Len(c)], th[L].frames, Len(th[L].frames), {"sort"}) /\ th[L].nC < Limit /\ th[L].status = "ok"
  BY <1>1, InBody
<1>4. Continues(c[Len(c)], th[L].frames, k.go) /\ Bounded(th[L].nC, k.go) /\ Yielding(th[L], k)
  BY <1>2, <1>3 DEF Continues, Bounded, Yielding
<1> QED
  BY <1>1, <1>2, <1>4, Running0, GoesGood

LEMMA CallFunctionStep == ASSUME Good(c, th, L, ctl), CallFunction PROVE Good(c', th', L', ctl')
<1> DEFINE g == th[L].frames
           r == c[Len(c)]
<1>1. ctl.go = "run"
  BY DEF CallFunction
<1>2. PICK kind \in {"lua"} \cup CFunctions : Enter(th[L], Frame(kind, FALSE), c, Body(kind))
  BY DEF CallFunction
<1>3. RunsAbove(r, g, Len(g)) /\ th[L].nC < Limit /\ th[L].status = "ok"
  <2>1. Continues(r, g, ctl.go) /\ th[L].nC < Limit /\ th[L].status = "ok"
    BY <1>1, GoodStep
  <2> QED
    BY <1>1, <2>1, Zenon DEF Continues
<1>4. kind \in Kinds
  BY DEF Kinds
<1> DEFINE f == Frame(kind, FALSE)
           k == Body(kind)
<1>5. f \in FrameSet /\ f.kind = kind /\ f.fresh = FALSE /\ ~f.ypcall
  BY <1>4, FrameFields
<1>6. k \in CtlSet /\ k.st = "ok" /\ k.go = IF kind = "lua" THEN "run" ELSE "body"
  BY <1>4, Controls
<1>7. Enter(th[L], f, c, k)
  BY <1>2
<1> HIDE DEF f, k
<1>8. r.at \notin {"pcall", "errormsg"} /\ Last(g).kind = "lua"
  BY <1>3, Running0, RunsLess
<1>9. Callable(c, g, L)
  BY <1>8 DEF Callable, Plain, Last
<1>10. Continues(r, Append(g, f), k.go)
  <2>1. CASE kind = "lua"
    <3>1. RunsAbove(r, Append(g, f), Len(Append(g, f)))
      BY <1>3, <1>5, <2>1, Running0, RunsMore
    <3> QED
      BY <1>6, <2>1, <3>1 DEF Continues
  <2>2. CASE kind # "lua"
    <3>1. kind \in CFunctions
      BY <2>2
    <3>2. Within(r, Append(g, f), Len(Append(g, f)), CFunctions)
      BY <1>3, <1>5, <3>1, Running0, WithinPushed
    <3>3. Append(g, f)[Len(Append(g, f))].ypcall = FALSE
      BY <1>5, Running0, Pushed DEF FrameSet
    <3> QED
      BY <1>6, <2>2, <3>2, <3>3 DEF Continues
  <2> QED
    BY <2>1, <2>2
<1> HIDE DEF g, r
<1> QED
  BY <1>3, <1>5, <1>6, <1>7, <1>8, <1>9, <1>10, Running0, EnterGood DEF g, r

LEMMA DoCallStep == ASSUME Good(c, th, L, ctl), DoCall PROVE Good(c', th', L', ctl')
<1> DEFINE g == th[L].frames
           b == c[Len(c)]
           noyield == ctl.go = "callnoyield"
           r == CallRec(th[L], noyield)
           T == Counted(th[L], noyield)
           s == Append(c, r)
<1>1. ctl.go \in {"call", "callnoyield"} /\ CallFrom(T, s)
  BY DEF DoCall
<1>2. noyield \in BOOLEAN /\ (~noyield => ctl.go = "call")
  BY <1>1
<1>3. Continues(b, g, ctl.go) /\ th[L].nC < Limit /\ th[L].status = "ok"
  BY <1>1, GoodStep
<1>4. /\ ctl.go = "call" => Within(b, g, Len(g), CFunctions) /\ g[Len(g)].ypcall
      /\ ctl.go = "callnoyield" => b.at = "errormsg" \/ (b.at = "pcall" /\ b.ci = Len(g)) \/ Within(b, g, Len(g), {"sort"})
  BY <1>3 DEF Continues
<1>5. r \in RecordSet /\ r.at = "call" /\ r.l = L /\ r.ci = Len(g) /\ r.noyield = noyield
  <2> HIDE DEF noyield
  <2> QED
    BY <1>2, Running0 DEF CallRec, RecordSet
<1>6. /\ T \in ThreadSet /\ Others(T, th[L]) /\ T.frames = g /\ T.nC = th[L].nC + 1 /\ T.nny = th[L].nny + (IF noyield THEN 1 ELSE 0)
  <2> HIDE DEF noyield
  <2> QED
    BY <1>2, Running0, CountedFields
<1>7. /\ Within(b, g, Len(g), {"sort"}) => Within(b, g, Len(g), CFunctions)
      /\ Within(b, g, Len(g), CFunctions) => b.at \notin {"pcall", "errormsg"}
  BY DEF Within, RunsAbove, CFunctions
<1> HIDE DEF noyield
<1>8. ctl.go = "callnoyield" <=> noyield
  BY DEF noyield
<1> HIDE DEF r, T
<1>9. FollowsAt(b, r) /\ WaitsAt(b, r, th)
  <2>1. b.at \in {"pcall", "errormsg"} => noyield
    BY <1>1, <1>4, <1>7, <1>8
  <2>2. b.at = "pcall" => b.ci = Len(g)
    BY <1>1, <1>4, <1>7
  <2>3. b.at \notin {"pcall", "errormsg"} => Within(b, g, Len(g), CFunctions)
    BY <1>1, <1>4, <1>7
  <2>4. FollowsAt(b, r)
    BY <1>5, <2>1, <2>2 DEF FollowsAt
  <2>5. WaitsAt(b, r, th)
    BY <1>5, <2>3 DEF WaitsAt
  <2> QED
    BY <2>4, <2>5
<1>10. /\ s \in Seq(RecordSet) /\ Len(s) = Len(c) + 1 /\ s[Len(s)] = r /\ Len(s) \in 1..Len(s)
  BY <1>5, Running0, Grown
<1>11. State(s, [th EXCEPT ![L] = T], L)
  <2>1. State(c, th, L) /\ ~th[L].start
    BY GoodStep
  <2>2. T.nC = th[L].nC + (IF r.at = "call" THEN 1 ELSE 0) /\ T.nny = th[L].nny + (IF r.at = "call" /\ r.noyield THEN 1 ELSE 0)
    BY <1>5, <1>6
  <2>3. ~T.start /\ r.at # "resume" /\ r.at # "pcall" /\ (Deep(r) => r.ci = Len(th[L].frames))
    BY <1>5, <1>6, <2>1 DEF Others
  <2> QED
    BY <1>5, <1>6, <1>9, <2>1, <2>2, <2>3, StateGrow
<1>12. Callable(s, g, L)
  <2>1. CASE noyield
    BY <1>5, <1>10, <2>1 DEF Callable, Unyields
  <2>2. CASE ~noyield
    BY <1>2, <1>4, <2>2 DEF Callable, Plain
  <2> QED
    BY <2>1, <2>2
<1> HIDE DEF s
<1>13. T.nC \in Int /\ T.nC <= Limit /\ T.status = "ok" /\ s[Len(s)].at \notin {"pcall", "errormsg"}
  <2>1. T.nC \in Int /\ T.nC <= Limit
    BY <1>3, <1>6, Limits, Running0
  <2> QED
    BY <1>3, <1>5, <1>6, <1>10, <2>1 DEF Others
<1>14. CASE T.nC = MaxCCalls /\ Goes(T, s, Raise)
  <2>1. T.nC < Limit
    BY <1>14, Limits
  <2> QED
    BY <1>6, <1>11, <1>13, <1>14, <2>1, Running0, RaiseGood
<1>15. CASE Goes(T, s, Throw("err", "unhandled"))
  BY <1>6, <1>11, <1>13, <1>15, Running0, ThrowGood
<1>16. CASE T.nC < MaxCCalls + CCallsExtra /\ Enter(T, Frame("lua", TRUE), s, Run)
  <2> DEFINE f == Frame("lua", TRUE)
             h == Append(g, f)
  <2>1. f \in FrameSet /\ f.kind = "lua" /\ f.fresh = TRUE /\ ~f.ypcall
    <3>1. "lua" \in Kinds /\ TRUE \in BOOLEAN
      BY DEF Kinds
    <3> QED
      BY <3>1, FrameFields
  <2>2. Enter(T, f, s, Run) /\ T.nC < Limit
    BY <1>16 DEF Limit
  <2> HIDE DEF f
  <2>3. h \in Seq(FrameSet) /\ Len(h) = Len(g) + 1 /\ h[Len(g) + 1] = f /\ Len(g) \in Nat
    BY <2>1, Running0, Pushed
  <2> HIDE DEF h
  <2>4. h[Len(g) + 1].kind = "lua" /\ h[Len(g) + 1].fresh
    BY <2>1, <2>3
  <2>5. RunsAbove(r, h, Len(h))
    <3>1. r.at \in {"call", "resume", "unroll"} /\ (r.at = "call" => r.ci = Len(g)) /\ (r.at = "resume" => Len(g) = 0)
      BY <1>5
    <3> HIDE DEF g
    <3>2. RunsAbove(r, h, Len(g) + 1)
      BY <2>3, <2>4, <3>1, RunsOne
    <3> QED
      BY <2>3, <3>2
  <2>6. Run \in CtlSet /\ Run.st # "yield" /\ Run.go # "throw" /\ Continues(s[Len(s)], h, Run.go)
    BY <1>10, <2>5, Controls DEF Continues
  <2> HIDE DEF g
  <2> QED
    BY <1>6, <1>11, <1>12, <1>13, <2>1, <2>2, <2>6, Running0, EnterGood DEF h
<1> QED
  BY <1>1, <1>14, <1>15, <1>16 DEF CallFrom

LEMMA StackFacts ==
  ASSUME Good(c, th, L, ctl)
  PROVE  /\ Segments(c, L) /\ Linked(c, th) /\ Depths(c, th) /\ NoYpcalls(c, th) /\ Ypcalls(th[L].frames)
         /\ Covers(c, Len(c), th[L].frames, L) /\ th[L].nC = Count(c, Len(c)) /\ th[L].nny = Nny(c, L, Len(c))
         /\ \A i \in 1..Len(c) : c[i] \in RecordSet /\ c[i].l \in Threads /\ (Deep(c[i]) => c[i].ci \in Nat)
<1>1. State(c, th, L)
  BY GoodStep
<1>2. \A i \in 1..Len(c) : c[i] \in RecordSet
  BY <1>1, StateFacts
<1> QED
  BY <1>1, <1>2, StateFacts, RecordFields

\* A thread with unroll on top has nothing else on the C stack but its resume.
LEMMA Unrolls ==
  ASSUME Good(c, th, L, ctl), c[Len(c)].at = "unroll"
  PROVE  /\ \A i \in 1..Len(c) : ~(Deep(c[i]) /\ c[i].l = L) /\ ~Unyields(c, i, L)
         /\ Len(c) - 1 \in 2..Len(c) /\ c[Len(c) - 1].at = "resume" /\ c[Len(c) - 1].l = L
         /\ Shape(th[L].frames, Len(th[L].frames) - 1)
<1>1. Segments(c, L) /\ Linked(c, th) /\ c \in Seq(RecordSet) /\ Len(c) \in Nat /\ Len(c) \in 1..Len(c) /\ c[Len(c)].l = L
  BY StackFacts, Running0
<1>2. /\ Len(c) - 1 \in 2..Len(c) /\ c[Len(c) - 1].at = "resume" /\ c[Len(c) - 1].l = L
      /\ \A i \in 1..(Len(c) - 2) : c[i].l # L
  BY <1>1, OwnAbove
<1>3. \A i \in 1..Len(c) : i \in 1..(Len(c) - 2) \/ i = Len(c) - 1 \/ i = Len(c)
  BY <1>1
<1>4. \A i \in 1..Len(c) : ~(Deep(c[i]) /\ c[i].l = L) /\ ~Unyields(c, i, L)
  BY <1>2, <1>3 DEF Deep, Unyields
<1>5. Shape(th[L].frames, Len(th[L].frames) - 1)
  BY <1>4, StackFacts, Zenon DEF Covers, Shape
<1> QED
  BY <1>2, <1>4, <1>5

LEMMA ReturnStep == ASSUME Good(c, th, L, ctl), Return PROVE Good(c', th', L', ctl')
<1> DEFINE g == th[L].frames
           r == c[Len(c)]
           T == [th[L] EXCEPT !.frames = Pop(@)]
           k == IF Top.fresh THEN Ctl("return", "ok", "") ELSE Run
<1>1. ctl.go = "run" /\ Goes(T, c, k)
  BY DEF Return
<1>2. RunsAbove(r, g, Len(g)) /\ th[L].nC < Limit /\ th[L].status = "ok"
  <2>1. Continues(r, g, ctl.go) /\ th[L].nC < Limit /\ th[L].status = "ok"
    BY <1>1, GoodStep
  <2> QED
    BY <1>1, <2>1, Zenon DEF Continues
<1>3. /\ Len(g) > 0 /\ r.at \in {"call", "resume", "unroll"}
      /\ ~Last(g).fresh => RunsAbove(r, Pop(g), Len(Pop(g)))
      /\ Last(g).fresh => (r.at = "call" => r.ci = Len(Pop(g))) /\ (r.at = "resume" => Len(Pop(g)) = 0)
  BY <1>2, Running0, RunsLess
<1>4. T \in ThreadSet /\ Keeps(T, th[L]) /\ T.frames = Pop(g)
  BY <1>3, Running0, PopFields
<1>5. /\ Pop(g) \in Seq(FrameSet) /\ Len(g) \in Nat /\ Len(Pop(g)) = Len(g) - 1 /\ Len(Pop(g)) <= Len(g) /\ Last(g).fresh \in BOOLEAN
      /\ \A i \in 1..Len(Pop(g)) : Pop(g)[i] = g[i]
  <2>1. /\ Pop(g) \in Seq(FrameSet) /\ Len(g) \in Nat /\ Len(Pop(g)) = Len(g) - 1 /\ Last(g) \in FrameSet
        /\ \A i \in 1..Len(Pop(g)) : Pop(g)[i] = g[i]
    BY <1>3, Running0, Popped
  <2>2. Last(g).fresh \in BOOLEAN
    BY <2>1 DEF FrameSet
  <2>3. Len(Pop(g)) <= Len(g)
    BY <2>1, SMT
  <2> QED
    BY <2>1, <2>2, <2>3, Zenon
<1>6. \A i \in 1..Len(c) : Deep(c[i]) /\ c[i].l = L => c[i].ci <= Len(Pop(g))
  <2>1. \A i \in 1..Len(c) : Deep(c[i]) /\ c[i].l = L => c[i].ci < Len(g)
    BY <1>2, Running0, StackFacts, RunsDeep
  <2> QED
    BY <1>5, <2>1, StackFacts
<1> HIDE DEF T
<1>7. State(c, [th EXCEPT ![L] = T], L)
  <2>1. State(c, th, L)
    BY GoodStep
  <2> QED
    BY <1>4, <1>5, <1>6, <2>1, StatePop
<1>8. T.status = "ok" /\ T.nC < Limit
  BY <1>2, <1>4 DEF Keeps, Others
<1>9. k \in CtlSet /\ k.st = "ok" /\ k.go = IF Last(g).fresh THEN "return" ELSE "run"
  <2>1. Top = Last(g)
    BY DEF Top
  <2> QED
    BY <2>1, Controls
<1> HIDE DEF k
<1>10. Continues(r, T.frames, k.go)
  <2>1. CASE Last(g).fresh
    <3>1. r.at = "unroll" => Shape(Pop(g), Len(Pop(g)))
      <4> SUFFICES ASSUME r.at = "unroll" PROVE Shape(Pop(g), Len(Pop(g)))
        OBVIOUS
      <4>1. Shape(g, Len(Pop(g)))
        BY <1>5, Unrolls
      <4> QED
        BY <1>5, <4>1, Zenon DEF Shape
    <3>2. (r.at # "errormsg") /\ (Deep(r) => r.ci = Len(Pop(g)))
      BY <1>3, <2>1 DEF Deep
    <3> QED
      BY <1>3, <1>4, <1>9, <2>1, <3>1, <3>2 DEF Continues
  <2>2. CASE ~Last(g).fresh
    BY <1>3, <1>4, <1>9, <2>2 DEF Continues
  <2> QED
    BY <2>1, <2>2
<1>11. Bounded(T.nC, k.go) /\ Yielding(T, k)
  BY <1>8, <1>9 DEF Bounded, Yielding
<1> QED
  BY <1>1, <1>7, <1>9, <1>10, <1>11, Running0, GoesGood

LEMMA ErrorMsgStep == ASSUME Good(c, th, L, ctl), ErrorMsg PROVE Good(c', th', L', ctl')
<1> DEFINE b == c[Len(c)]
<1>1. ctl.go = "raise"
  BY DEF ErrorMsg
<1>2. b.at \notin {"pcall", "errormsg"} /\ th[L].nC < Limit /\ th[L].status = "ok"
  <2>1. Continues(b, th[L].frames, ctl.go) /\ th[L].nC < Limit /\ th[L].status = "ok"
    BY <1>1, GoodStep
  <2> QED
    BY <1>1, <2>1, Zenon DEF Continues
<1>3. CASE Goes(th[L], c, Throw("err", ctl.msg))
  <2>1. ctl.msg \in {"", "error", "handled", "unhandled"}
    BY DEF Good, CtlSet
  <2>2. th[L].nC <= Limit
    BY <1>2, Limits, Running0
  <2> QED
    BY <1>2, <1>3, <2>1, <2>2, Running0, ThrowGood
<1> DEFINE r == [at |-> "errormsg", l |-> L]
           k == Call(TRUE)
<1>4. CASE Goes(th[L], Append(c, r), k)
  <2>1. r \in RecordSet /\ r.at = "errormsg" /\ r.l = L
    BY Running0 DEF RecordSet
  <2>2. k \in CtlSet /\ k.go = "callnoyield" /\ k.st = "ok"
    BY Controls
  <2> HIDE DEF r, k
  <2>3. State(c, th, L) /\ ~th[L].start
    BY GoodStep
  <2>4. FollowsAt(b, r) /\ WaitsAt(b, r, th)
    BY <1>2, <2>1 DEF FollowsAt, WaitsAt
  <2>5. State(Append(c, r), [th EXCEPT ![L] = th[L]], L)
    <3>1. th[L].nC = th[L].nC + (IF r.at = "call" THEN 1 ELSE 0) /\ th[L].nny = th[L].nny + (IF r.at = "call" /\ r.noyield THEN 1 ELSE 0)
      BY <2>1, Running0
    <3>2. r.at # "resume" /\ r.at # "pcall" /\ ~Deep(r)
      BY <2>1 DEF Deep
    <3> QED
      BY <2>1, <2>3, <2>4, <3>1, <3>2, Running0, StateGrow
  <2>6. Append(c, r)[Len(Append(c, r))] = r
    BY <2>1, Running0, Grown
  <2>7. Continues(r, th[L].frames, k.go) /\ Bounded(th[L].nC, k.go) /\ Yielding(th[L], k)
    BY <1>2, <2>1, <2>2 DEF Continues, Bounded, Yielding
  <2> QED
    BY <1>4, <2>2, <2>5, <2>6, <2>7, Running0, GoesGood
<1> QED
  BY <1>3, <1>4 DEF ErrorMsg

LEMMA YieldStep == ASSUME Good(c, th, L, ctl), Yield PROVE Good(c', th', L', ctl')
<1> DEFINE g == th[L].frames
           n == Len(g)
<1>1. ctl.go = "body" /\ Top.kind = "yield"
  BY DEF Yield
<1>2. /\ n > 0 /\ g[n].kind = "yield" /\ c[Len(c)].at \notin {"pcall", "errormsg"} /\ th[L].nC < Limit /\ th[L].status = "ok"
  BY <1>1, InBody
<1>3. CASE Goes(th[L], c, Raise)
  BY <1>2, <1>3, Running0, RaiseGood
<1> DEFINE T == [th[L] EXCEPT !.status = "yield"]
           k == Throw("yield", "")
<1>4. CASE th[L].nny <= 0 /\ Goes(T, c, k)
  <2>1. T \in ThreadSet /\ T.status = "yield" /\ T.frames = g /\ T.nC = th[L].nC /\ T.nny = th[L].nny /\ T.start = th[L].start
    BY Running0 DEF ThreadSet
  <2>2. k \in CtlSet /\ k.go = "throw" /\ k.st = "yield"
    BY Controls
  <2> HIDE DEF T, k
  <2>3. Nny(c, L, Len(c)) \in Nat /\ Nny(c, L, Len(c)) = th[L].nny
    BY Running0, StackFacts, CountNext
  <2>4. th[L].nny = 0
    BY <1>4, <2>3, Running0
  <2>5. \A i \in 1..Len(c) : ~Unyields(c, i, L)
    BY <2>3, <2>4, Running0, NoneUnyields
  <2>6. Suspended(T)
    BY <1>2, <2>1, <2>5, StackFacts, Zenon DEF Covers, Shape, Suspended
  <2>7. State(c, [th EXCEPT ![L] = T], L)
    BY <2>1, GoodStep, StateSame
  <2>8. Continues(c[Len(c)], T.frames, k.go)
    BY <1>2, <2>2 DEF Continues
  <2>9. Bounded(T.nC, k.go) /\ Yielding(T, k)
    BY <1>2, <2>1, <2>2, <2>4, <2>6 DEF Bounded, Yielding
  <2> QED
    BY <1>4, <2>2, <2>7, <2>8, <2>9, Running0, GoesGood
<1> QED
  <2>1. ~(th[L].nny > 0) => th[L].nny <= 0
    BY Running0
  <2> QED
    BY <1>3, <1>4, <2>1 DEF Yield

LEMMA UnrollStep == ASSUME Good(c, th, L, ctl), Unroll PROVE Good(c', th', L', ctl')
<1> DEFINE g == th[L].frames
           n == Len(g)
           N == Len(c)
           r == c[N]
<1>1. r.at = "unroll" /\ Shape(g, n) /\ th[L].nC < Limit /\ th[L].status = "ok"
  <2>1. Continues(r, g, ctl.go) /\ th[L].nC < Limit /\ th[L].status = "ok" /\ (ctl.go = "unroll" \/ (ctl.go = "return" /\ r.at = "unroll"))
    BY GoodStep DEF Unroll, Last
  <2> QED
    BY <2>1, Zenon DEF Continues
<1>2. /\ \A i \in 1..N : ~(Deep(c[i]) /\ c[i].l = L) /\ ~Unyields(c, i, L)
      /\ N - 1 \in 2..N /\ c[N - 1].at = "resume" /\ c[N - 1].l = L
  BY <1>1, Unrolls
<1>3. CASE n = 0 /\ Goes(th[L], Pop(c), Ctl("return", "ok", ""))
  <2> DEFINE k == Ctl("return", "ok", "")
             s == Pop(c)
  <2>1. k \in CtlSet /\ k.go = "return" /\ k.st = "ok"
    BY Controls
  <2>2. N \in Nat /\ N - 1 \in 0..N /\ N - 1 \in Nat /\ N - 1 \in 1..N /\ (N - 1) + 1 = N /\ N - 1 \in 1..(N - 1)
        /\ \A i \in 1..(N - 1) : i \in 1..N
    BY <1>2, Running0
  <2>3. Len(s) = N - 1 /\ s[Len(s)] = c[N - 1]
    BY <2>2, Running0, Cut DEF Pop
  <2>4. Count(c, N - 1) = Count(c, N) /\ Nny(c, L, N - 1) = Nny(c, L, N)
    <3>1. ~Unyields(c, N, L) /\ r.at \notin {"call", "resume"}
      BY <1>1 DEF Unyields
    <3>2. /\ Count(c, N - 1) \in Nat /\ Nny(c, L, N - 1) \in Nat
          /\ Count(c, N) = Count(c, N - 1) + (IF r.at \in {"call", "resume"} THEN 1 ELSE 0)
          /\ Nny(c, L, N) = Nny(c, L, N - 1) + (IF Unyields(c, N, L) THEN 1 ELSE 0)
      <4>1. N \in Nat /\ N > 0
        BY <2>2
      <4> HIDE DEF N
      <4> QED
        BY <4>1, Running0, CountLast
    <3> HIDE DEF r
    <3> QED
      BY <3>1, <3>2
  <2>5. State(SubSeq(c, 1, N - 1), [th EXCEPT ![L] = th[L]], L)
    <3>1. th[L].nC = Count(c, N - 1) /\ th[L].nny = Nny(c, L, N - 1)
      BY <2>4, StackFacts
    <3>2. Len(g) <= Len(g) /\ (\A j \in 1..Len(g) : g[j] = g[j]) /\ Others(th[L], th[L])
      BY Running0 DEF Others
    <3>3. \A i \in 1..(N - 1) : Deep(c[i]) /\ c[i].l = L => c[i].ci <= Len(g)
      BY <1>2, <2>2
    <3>4. \A j \in 1..(Len(g) - 1), i \in 1..N : Unyields(c, i, L) /\ c[i].ci = j => i \in 1..(N - 1)
      BY <1>2
    <3> HIDE DEF N, g
    <3> QED
      BY <1>2, <2>2, <3>1, <3>2, <3>3, <3>4, Running0, GoodStep, StateBack DEF N, g
  <2> HIDE DEF k
  <2>6. Continues(c[N - 1], g, k.go)
    BY <1>2, <1>3, <2>1 DEF Continues, Deep
  <2>7. Bounded(th[L].nC, k.go) /\ Yielding(th[L], k)
    BY <1>1, <2>1 DEF Bounded, Yielding
  <2>8. State(s, [th EXCEPT ![L] = th[L]], L) /\ Continues(s[Len(s)], g, k.go)
    BY <2>3, <2>5, <2>6 DEF Pop
  <2>9. Goes(th[L], s, k)
    BY <1>3 DEF k
  <2> QED
    BY <2>1, <2>7, <2>8, <2>9, Running0, GoesGood
<1> DEFINE T == [th[L] EXCEPT !.frames[n].fresh = TRUE]
<1>4. CASE n # 0 /\ Top.kind = "lua" /\ Goes(T, c, Run)
  <2> DEFINE f == [g[n] EXCEPT !.fresh = TRUE]
             h == [g EXCEPT ![n] = f]
  <2>1. n \in 1..n /\ n - 1 \in Nat /\ n \in Nat /\ (n - 1) + 1 = n /\ n - 1 <= n /\ g[n] \in FrameSet /\ g \in Seq(FrameSet) /\ Top = g[n]
        /\ \A i \in 1..(n - 1) : i \in 1..n /\ i # n
    BY <1>4, Running0, ThreadFields DEF Top, Last
  <2>2. f \in FrameSet /\ f.kind = g[n].kind /\ f.fresh = TRUE /\ f.ypcall = g[n].ypcall
    BY <2>1 DEF FrameSet
  <2> HIDE DEF f
  <2>3. h \in Seq(FrameSet) /\ Len(h) = n /\ h[n] = f /\ \A i \in 1..n : i # n => h[i] = g[i]
    BY <2>1, <2>2, ExceptSeq
  <2>4. T = [th[L] EXCEPT !.frames = h]
    BY Running0 DEF ThreadSet, f
  <2> HIDE DEF h
  <2>5. T \in ThreadSet /\ Keeps(T, th[L]) /\ T.frames = h
    BY <2>3, <2>4, Running0 DEF ThreadSet, Keeps, Others
  <2> HIDE DEF T
  <2>6. Ypcalls(h) /\ Covers(c, N, h, L)
    <3>1. \A i \in 1..n : h[i].kind = g[i].kind /\ h[i].ypcall = g[i].ypcall
      BY <2>2, <2>3
    <3>2. \A i \in 1..n : \A j \in 1..i : j \in 1..n
      BY <2>1
    <3>3. Ypcalls(g) /\ \A i \in 1..(n - 1) : Plain(g[i]) \/ \E j \in 1..N : Unyields(c, j, L) /\ c[j].ci = i
      BY StackFacts DEF Covers
    <3>4. \A i \in 1..n : Plain(g[i]) => Plain(h[i])
      BY <3>1 DEF Plain
    <3>5. Ypcalls(h)
      BY <2>3, <3>1, <3>2, <3>3, <3>4, Zenon DEF Ypcalls, Shape
    <3>6. Covers(c, N, h, L)
      BY <2>1, <2>3, <3>3, <3>4, Zenon DEF Covers
    <3> QED
      BY <3>5, <3>6
  <2>7. State(c, [th EXCEPT ![L] = T], L)
    <3>1. \A i \in 1..(n - 1) : T.frames[i] = th[L].frames[i]
      BY <2>1, <2>3, <2>5
    <3>2. /\ \A i \in 1..Len(c) : Deep(c[i]) /\ c[i].l = L => c[i].ci <= n - 1
          /\ \A i \in 1..Len(c) : c[i].at = "pcall" /\ c[i].l = L =>
               \A j \in 1..Len(T.frames) : j > c[i].ci => ~T.frames[j].ypcall
      BY <1>2 DEF Deep
    <3>3. ~T.start /\ T.nC = th[L].nC /\ T.nny = th[L].nny
      BY <2>5, GoodStep DEF Keeps, Others
    <3>4. n - 1 \in Nat /\ n - 1 <= Len(T.frames)
      BY <2>1, <2>3, <2>5
    <3> HIDE DEF n, g
    <3> QED
      BY <2>5, <2>6, <3>1, <3>2, <3>3, <3>4, GoodStep, StateFrames DEF g
  <2>8. RunsAbove(r, h, Len(h))
    <3>1. r.at \in {"call", "resume", "unroll"} /\ r.at # "call" /\ r.at # "resume" /\ h[(n - 1) + 1].kind = "lua" /\ h[(n - 1) + 1].fresh
      BY <1>1, <1>4, <2>1, <2>2, <2>3
    <3>2. Len(h) = (n - 1) + 1
      BY <2>1, <2>3
    <3> DEFINE m == n - 1
    <3>3. m \in Nat /\ Len(h) = m + 1 /\ h[m + 1].kind = "lua" /\ h[m + 1].fresh
      BY <2>1, <3>1, <3>2
    <3> HIDE DEF n, r, m
    <3>4. r.at \in {"call", "resume", "unroll"} /\ (r.at = "call" => r.ci = m) /\ (r.at = "resume" => m = 0) /\ h \in Seq(FrameSet)
      BY <2>3, <3>1
    <3>5. RunsAbove(r, h, m + 1)
      BY <3>3, <3>4, RunsOne
    <3> QED
      BY <3>3, <3>5
  <2>9. Run \in CtlSet /\ Continues(r, T.frames, Run.go)
    BY <2>5, <2>8, Controls DEF Continues
  <2>10. Bounded(T.nC, Run.go) /\ Yielding(T, Run)
    BY <1>1, <2>5, Controls DEF Bounded, Yielding, Keeps, Others
  <2> QED
    BY <1>4, <2>7, <2>9, <2>10, Running0, GoesGood
<1>5. CASE n # 0 /\ Goes(Finished(th[L]), c, Ctl("unroll", "ok", ""))
  <2> DEFINE U == Finished(th[L])
             k == Ctl("unroll", "ok", "")
  <2>1. k \in CtlSet /\ k.go = "unroll" /\ k.st = "ok"
    BY Controls
  <2>2. n > 0 /\ U \in ThreadSet /\ Keeps(U, th[L]) /\ U.frames = Pop(g)
    <3>1. n > 0
      <4>1. n \in Nat /\ n # 0
        BY <1>5, Running0
      <4> HIDE DEF n
      <4> QED
        BY <4>1
    <3> QED
      BY <3>1, Running0, FinishedFields
  <2>3. Pop(g) \in Seq(FrameSet) /\ Len(g) \in Nat /\ Len(Pop(g)) = Len(g) - 1 /\ Len(Pop(g)) <= Len(g)
        /\ \A i \in 1..Len(Pop(g)) : Pop(g)[i] = g[i] /\ i \in 1..n
    BY <2>2, Running0, Popped
  <2>4. Goes(U, c, k)
    BY <1>5
  <2> HIDE DEF U, k
  <2>5. State(c, [th EXCEPT ![L] = U], L)
    <3>1. Len(U.frames) <= Len(g) /\ \A i \in 1..Len(U.frames) : U.frames[i] = g[i]
      BY <2>2, <2>3
    <3>2. \A i \in 1..Len(c) : Deep(c[i]) /\ c[i].l = L => c[i].ci <= Len(U.frames)
      BY <1>2
    <3> QED
      BY <2>2, <3>1, <3>2, GoodStep, StatePop
  <2>6. Shape(U.frames, Len(U.frames))
    BY <1>1, <2>2, <2>3, Zenon DEF Shape
  <2>7. Continues(r, U.frames, k.go)
    BY <1>1, <2>1, <2>6 DEF Continues
  <2>8. Bounded(U.nC, k.go) /\ Yielding(U, k)
    BY <1>1, <2>1, <2>2 DEF Bounded, Yielding, Keeps, Others
  <2> QED
    BY <2>1, <2>4, <2>5, <2>7, <2>8, Running0, GoesGood
<1> QED
  BY <1>3, <1>4, <1>5 DEF Unroll

\* luaD_pcall calls in a way that cannot be left by a yield.
LEMMA PcallUnyields ==
  ASSUME Good(c, th, L, ctl), NEW j \in 1..(Len(c) - 1), c[j].at = "pcall", c[j].l = L
  PROVE  \E i \in 1..Len(c) : Unyields(c, i, L)
<1>1. j \in 1..Len(c) /\ j + 1 \in 1..Len(c) /\ j + 1 \in 2..Len(c) /\ (j + 1) - 1 = j /\ j < j + 1 /\ \A k \in (j + 1)..(j + 1) : k = j + 1
  BY Running0
<1>2. c[j + 1].at = "call" /\ c[j + 1].noyield
  BY <1>1, StackFacts DEF Linked, FollowsAt
<1>3. c[j].l = c[j + 1].l
  BY <1>1, <1>2, StackFacts DEF Segments
<1> QED
  BY <1>1, <1>2, <1>3 DEF Unyields

LEMMA ConventionalStep ==
  ASSUME Good(c, th, L, ctl), ctl.go = "body", Top.kind \in Protecting, Conventional(th[L])
  PROVE  Good(c', th', L', ctl')
<1> DEFINE g == th[L].frames
           b == c[Len(c)]
           r == PcallRec(th[L])
           T == [th[L] EXCEPT !.errf = Handler(th[L])]
           k == Call(TRUE)
           s == Append(c, r)
<1>1. /\ ~Top.ypcall /\ Top = g[Len(g)] /\ Within(b, g, Len(g), Protecting)
      /\ b.at \notin {"pcall", "errormsg"} /\ th[L].nC < Limit /\ th[L].status = "ok"
  BY InBody
<1>2. r \in RecordSet /\ r.at = "pcall" /\ r.l = L /\ r.ci = Len(g) /\ r.nC = th[L].nC /\ r.nny = th[L].nny
  BY Running0 DEF PcallRec, RecordSet
<1>3. T \in ThreadSet /\ Keeps(T, th[L]) /\ T.frames = g
  <2>1. Handler(th[L]) \in Nat
    BY Running0 DEF Handler
  <2> QED
    BY <2>1, Running0, HandlerFields
<1>4. k \in CtlSet /\ k.go = "callnoyield" /\ k.st = "ok"
  BY Controls
<1>5. Goes(T, s, k)
  BY DEF Conventional
<1> HIDE DEF r, T, k
<1>6. s[Len(s)] = r
  BY <1>2, Running0, Grown
<1>7. State(s, [th EXCEPT ![L] = T], L)
  <2>1. FollowsAt(b, r) /\ WaitsAt(b, r, th)
    BY <1>1, <1>2 DEF FollowsAt, WaitsAt
  <2>2. T.nC = th[L].nC + (IF r.at = "call" THEN 1 ELSE 0) /\ T.nny = th[L].nny + (IF r.at = "call" /\ r.noyield THEN 1 ELSE 0)
    BY <1>2, <1>3, Running0 DEF Keeps
  <2>3. ~T.start /\ r.at # "resume" /\ r.at = "pcall" /\ r.nC < Limit
    BY <1>1, <1>2, <1>3, GoodStep DEF Keeps, Others
  <2> QED
    BY <1>2, <1>3, <2>1, <2>2, <2>3, GoodStep, StateGrow
<1>8. Continues(r, T.frames, k.go) /\ Bounded(T.nC, k.go) /\ Yielding(T, k)
  BY <1>1, <1>2, <1>3, <1>4 DEF Continues, Bounded, Yielding, Keeps, Others
<1> HIDE DEF s
<1> QED
  BY <1>4, <1>5, <1>6, <1>7, <1>8, Running0, GoesGood

LEMMA YieldableStep ==
  ASSUME Good(c, th, L, ctl), ctl.go = "body", Top.kind \in Protecting, ~(th[L].nny > 0), Yieldable(th[L])
  PROVE  Good(c', th', L', ctl')
<1> DEFINE g == th[L].frames
           n == Len(g)
           b == c[Len(c)]
           f == [g[n] EXCEPT !.ypcall = TRUE, !.old = th[L].errf]
           h == [g EXCEPT ![n] = f]
           e == Handler(th[L])
           T == [th[L] EXCEPT !.errf = e, !.frames = h]
           k == Call(FALSE)
<1>1. /\ n > 0 /\ Top = g[n] /\ RunsAbove(b, g, n - 1)
      /\ b.at \in {"call", "resume", "unroll"} /\ th[L].nC < Limit /\ th[L].status = "ok"
  BY InBody
<1>2. n \in 1..n /\ n - 1 \in Nat /\ n \in Nat /\ (n - 1) + 1 = n /\ n - 1 <= n /\ g[n] \in FrameSet /\ g \in Seq(FrameSet)
      /\ (\A i \in 1..(n - 1) : i \in 1..n /\ i # n) /\ (\A i \in 1..n : i \in 1..(n - 1) \/ i = n) /\ e \in Nat
  BY <1>1, Running0, ThreadFields DEF Handler
<1>3. f \in FrameSet /\ f.kind = g[n].kind /\ f.ypcall = TRUE
  <2>1. th[L].errf \in Nat
    BY Running0
  <2> QED
    BY <1>2, <2>1 DEF FrameSet
<1>4. Goes(T, c, k)
  <2> DEFINE U == [th[L] EXCEPT !.errf = Handler(th[L]), !.frames[n] = [@ EXCEPT !.ypcall = TRUE, !.old = th[L].errf]]
  <2>1. Goes(U, c, k)
    BY DEF Yieldable
  <2>2. U = T
    BY <1>2, Running0 DEF ThreadSet
  <2> QED
    BY <2>1, <2>2
<1> HIDE DEF f, e
<1>5. h \in Seq(FrameSet) /\ Len(h) = n /\ h[n] = f /\ \A i \in 1..n : i # n => h[i] = g[i]
  <2>1. n \in 1..Len(g)
    BY <1>2
  <2>2. /\ h \in Seq(FrameSet) /\ Len(h) = Len(g)
        /\ \A i \in 1..Len(g) : h[i] = IF i = n THEN f ELSE g[i]
    <3> HIDE DEF n, g
    <3> QED
      BY <1>2, <1>3, <2>1, ExceptSeq
  <2> QED
    BY <1>2, <2>2
<1> HIDE DEF h
<1>6. T \in ThreadSet /\ Keeps(T, th[L]) /\ T.frames = h
  BY <1>2, <1>5, Running0 DEF ThreadSet, Keeps, Others
<1>7. k \in CtlSet /\ k.go = "call" /\ k.st = "ok"
  BY Controls
<1> HIDE DEF T, k
<1>8. \A i \in 1..Len(c) : ~Unyields(c, i, L)
  <2>1. Nny(c, L, Len(c)) \in Nat /\ Nny(c, L, Len(c)) = th[L].nny
    BY Running0, StackFacts, CountNext
  <2>2. Nny(c, L, Len(c)) = 0
    BY <2>1
  <2> QED
    BY <2>2, Running0, NoneUnyields
<1>9. \A i \in 1..Len(c) : ~(c[i].at = "pcall" /\ c[i].l = L)
  <2> SUFFICES ASSUME NEW i \in 1..Len(c), c[i].at = "pcall", c[i].l = L PROVE FALSE
    OBVIOUS
  <2>1. i # Len(c)
    BY <1>1
  <2>2. i \in 1..(Len(c) - 1)
    BY <2>1, Running0
  <2> QED
    BY <1>8, <2>2, PcallUnyields
<1>10. \A i \in 1..(n - 1) : Plain(g[i])
  BY <1>8, StackFacts DEF Covers
<1>11. Shape(h, n) /\ Ypcalls(h) /\ Covers(c, Len(c), h, L)
  <2>1. \A i \in 1..n : Plain(h[i])
    BY <1>2, <1>3, <1>5, <1>10 DEF Plain
  <2>2. \A i \in 1..n : \A j \in 1..i : j \in 1..n
    BY <1>2
  <2>3. \A i \in 1..n : h[i].ypcall => h[i].kind \in Protecting
    BY <1>1, <1>2, <1>3, <1>5, StackFacts DEF Ypcalls
  <2>4. Shape(h, n)
    BY <2>1 DEF Shape
  <2>5. Ypcalls(h)
    BY <1>5, <2>1, <2>2, <2>3, Zenon DEF Ypcalls, Shape
  <2>6. Covers(c, Len(c), h, L)
    BY <1>2, <1>5, <2>1, Zenon DEF Covers
  <2> QED
    BY <2>4, <2>5, <2>6
<1>12. State(c, [th EXCEPT ![L] = T], L)
  <2>1. \A i \in 1..(n - 1) : T.frames[i] = th[L].frames[i]
    BY <1>2, <1>5, <1>6
  <2>2. \A i \in 1..Len(c) : Deep(c[i]) /\ c[i].l = L => c[i].ci <= n - 1
    <3>1. \A i \in 1..Len(c) : Deep(c[i]) /\ c[i].l = L => c[i].ci < n - 1
      <4> DEFINE m == n - 1
      <4>1. m \in Nat /\ RunsAbove(b, g, m)
        BY <1>1, <1>2
      <4> HIDE DEF m
      <4>2. \A i \in 1..Len(c) : Deep(c[i]) /\ c[i].l = L => c[i].ci < m
        BY <4>1, Running0, StackFacts, RunsDeep
      <4> QED
        BY <4>2 DEF m
    <3>2. n - 1 \in Nat /\ \A i \in 1..Len(c) : Deep(c[i]) => c[i].ci \in Nat
      BY <1>2, StackFacts
    <3> HIDE DEF n
    <3> QED
      BY <3>1, <3>2
  <2>3. \A i \in 1..Len(c) : c[i].at = "pcall" /\ c[i].l = L => \A j \in 1..Len(T.frames) : j > c[i].ci => ~T.frames[j].ypcall
    BY <1>9
  <2>4. ~T.start /\ T.nC = th[L].nC /\ T.nny = th[L].nny
    BY <1>6, GoodStep DEF Keeps, Others
  <2>5. n - 1 \in Nat /\ n - 1 <= Len(T.frames)
    BY <1>2, <1>5, <1>6
  <2> HIDE DEF n, g
  <2> QED
    BY <1>6, <1>11, <2>1, <2>2, <2>3, <2>4, <2>5, GoodStep, StateFrames DEF g
<1>13. Continues(b, T.frames, k.go)
  <2>1. RunsAbove(b, h, n - 1)
    <3>1. n - 1 <= Len(h) /\ \A i \in 1..(n - 1) : h[i] = g[i]
      BY <1>2, <1>5
    <3> DEFINE m == n - 1
    <3>2. m \in Nat /\ m <= Len(h) /\ (\A i \in 1..m : h[i] = g[i]) /\ RunsAbove(b, g, m)
      BY <1>1, <1>2, <3>1
    <3> HIDE DEF m, b
    <3>3. RunsAbove(b, h, m)
      BY <1>2, <1>5, <3>2, RunsSame
    <3> QED
      BY <3>3 DEF m
  <2>2. h[n].kind \in CFunctions /\ h[n].ypcall
    BY <1>1, <1>3, <1>5 DEF Protecting, CFunctions
  <2>3. Within(b, h, Len(h), CFunctions)
    BY <1>2, <1>5, <2>1, <2>2 DEF Within
  <2> QED
    BY <1>5, <1>6, <1>7, <2>2, <2>3, <1>3 DEF Continues
<1>14. Bounded(T.nC, k.go) /\ Yielding(T, k)
  BY <1>1, <1>6, <1>7 DEF Bounded, Yielding, Keeps, Others
<1> QED
  BY <1>4, <1>7, <1>12, <1>13, <1>14, Running0, GoesGood

LEMMA PcallStep == ASSUME Good(c, th, L, ctl), Pcall PROVE Good(c', th', L', ctl')
BY ConventionalStep, YieldableStep DEF Pcall

\* The C function that waits below the record j of L goes on.
LEMMA GoesOn ==
  ASSUME Good(c, th, L, ctl), NEW j \in 2..Len(c), Deep(c[j]), c[j].l = L, c[j - 1].l = L,
         NEW kinds, Within(c[j - 1], th[L].frames, c[j].ci, kinds),
         NEW T \in ThreadSet, T.status = "ok", T.start = th[L].start, T.nC = Count(c, j - 1), T.nny = Nny(c, L, j - 1), T.nC < Limit,
         Len(T.frames) = c[j].ci, \A k \in 1..Len(T.frames) : T.frames[k] = th[L].frames[k],
         th[L].status = "ok", Goes(Finished(T), SubSeq(c, 1, j - 1), Run)
  PROVE  Good(c', th', L', ctl')
<1> DEFINE n == j - 1
           g == th[L].frames
           U == Finished(T)
           h == U.frames
           d == c[j].ci
<1>1. Len(c) \in Nat /\ j \in 1..Len(c) /\ n \in 1..Len(c) /\ n \in 0..Len(c) /\ n \in Nat /\ n + 1 = j /\ d \in Nat
      /\ (\A i \in 1..n : i \in 1..Len(c)) /\ \A i \in 1..Len(c) : i \in 1..n \/ i \in j..Len(c)
  <2>1. Len(c) \in Nat
    BY Running0
  <2>2. j \in 1..Len(c)
    BY <2>1
  <2>3. d \in Nat
    BY <2>2, StackFacts
  <2> QED
    BY <2>1, <2>2, <2>3
<1>2. d \in 1..Len(g) /\ d - 1 \in Nat /\ d > 0 /\ d <= Len(g) /\ Len(T.frames) = d
  BY Running0 DEF Within
<1>3. U \in ThreadSet /\ Keeps(U, T) /\ h = Pop(T.frames)
  BY <1>2, FinishedFields
<1>4. T.frames \in Seq(FrameSet)
  BY ThreadFields
<1>5. h \in Seq(FrameSet) /\ Len(h) = d - 1 /\ \A k \in 1..Len(h) : h[k] = T.frames[k] /\ k \in 1..Len(T.frames)
  BY <1>2, <1>3, <1>4, Popped
<1>6. Len(h) <= Len(g) /\ \A k \in 1..Len(h) : h[k] = g[k]
  <2>1. \A k \in 1..Len(h) : h[k] = g[k]
    BY <1>5
  <2>2. d - 1 <= Len(g)
    BY <1>1, <1>2, Running0
  <2> QED
    BY <1>5, <2>1, <2>2
<1> HIDE DEF U, n
<1>7. RunsAbove(c[n], g, d - 1) /\ RunsAbove(c[n], h, Len(h))
  <2>1. Within(c[n], g, d, kinds) /\ \A k \in 1..(d - 1) : h[k] = g[k]
    BY <1>5, <1>6 DEF n
  <2>2. g \in Seq(FrameSet) /\ h \in Seq(FrameSet) /\ Len(h) = d - 1
    BY <1>5, Running0
  <2> HIDE DEF d, g, h
  <2> QED
    BY <2>1, <2>2, WithinPopped
<1>8. \A i \in 1..n : Deep(c[i]) /\ c[i].l = L => c[i].ci <= Len(h)
  <2> DEFINE m == d - 1
  <2>1. m \in Nat /\ RunsAbove(c[n], g, m) /\ c[n].l = L
    BY <1>2, <1>7 DEF n
  <2> HIDE DEF m, d, h
  <2>2. \A i \in 1..n : Deep(c[i]) /\ c[i].l = L => c[i].ci < m
    BY <1>1, <2>1, Running0, StackFacts, RunsDeep
  <2>3. \A i \in 1..n : Deep(c[i]) => c[i].ci \in Nat
    BY <1>1, StackFacts
  <2>4. Len(h) = m
    BY <1>5 DEF m
  <2> SUFFICES ASSUME NEW i \in 1..n, Deep(c[i]), c[i].l = L PROVE c[i].ci <= Len(h)
    OBVIOUS
  <2>5. c[i].ci < m /\ c[i].ci \in Nat
    BY <2>2, <2>3
  <2> QED
    BY <2>1, <2>4, <2>5
<1>9. \A k \in 1..(Len(h) - 1), i \in 1..Len(c) : Unyields(c, i, L) /\ c[i].ci = k => i \in 1..n
  <2> SUFFICES ASSUME NEW k \in 1..(Len(h) - 1), NEW i \in j..Len(c), Unyields(c, i, L), c[i].ci = k PROVE FALSE
    BY <1>1
  <2>1. i \in 1..Len(c) /\ (i = j \/ j < i)
    BY <1>1
  <2>2. Deep(c[i]) /\ c[i].l = L
    BY DEF Unyields, Deep
  <2>3. i = j \/ c[j].ci <= c[i].ci
    BY <1>1, <2>1, <2>2, StackFacts DEF Depths
  <2>4. k < d
    BY <1>1, <1>5
  <2>5. c[i].ci \in Nat /\ d <= k
    BY <1>1, <2>1, <2>2, <2>3, StackFacts
  <2> QED
    BY <1>1, <2>4, <2>5
<1>10. State(SubSeq(c, 1, n), [th EXCEPT ![L] = U], L)
  <2>1. Others(U, th[L]) /\ U.nC = Count(c, n) /\ U.nny = Nny(c, L, n) /\ c[n].l = L
    BY <1>3 DEF Keeps, Others, n
  <2> HIDE DEF g, d
  <2> QED
    BY <1>1, <1>3, <1>6, <1>8, <1>9, <2>1, GoodStep, StateBack DEF g
<1> DEFINE s == SubSeq(c, 1, n)
<1>11. s[Len(s)] = c[n]
  <2>1. n \in 1..n
    BY <1>1
  <2> QED
    BY <1>1, <2>1, Running0, Cut
<1>12. Run \in CtlSet /\ Continues(c[n], h, Run.go)
  BY <1>7, Controls DEF Continues
<1>13. Bounded(U.nC, Run.go) /\ Yielding(U, Run)
  BY <1>3, Controls DEF Bounded, Yielding, Keeps, Others
<1>14. Goes(U, s, Run)
  BY DEF U, n
<1> HIDE DEF s
<1> QED
  BY <1>10, <1>11, <1>12, <1>13, <1>14, Running0, GoesGood DEF s

LEMMA ReturnedStep == ASSUME Good(c, th, L, ctl), Returned PROVE Good(c', th', L', ctl')
<1> DEFINE N == Len(c)
           g == th[L].frames
           r == c[N]
           T == UnCounted(th[L], r)
           b == c[N - 1]
<1>1. ctl.go = "return" /\ r.at = "call" /\ Last(c) = r
  BY DEF Returned, Last
<1>2. r.ci = Len(g) /\ th[L].nC < Limit /\ th[L].status = "ok"
  <2>1. Continues(r, g, ctl.go) /\ th[L].nC < Limit /\ th[L].status = "ok"
    BY <1>1, GoodStep
  <2> QED
    BY <1>1, <2>1, Zenon DEF Continues, Deep
<1>3. N \in 2..N /\ N \in Nat /\ N > 0 /\ N \in 1..N /\ N - 1 \in 1..N /\ N - 1 \in 0..N /\ N - 1 < N /\ N - 1 \in 1..(N - 1)
      /\ \A k \in ((N - 1) + 1)..N : k = N
  <2>1. N \in Nat /\ N \in 1..N /\ c[1].at = "pcall"
    BY Running0, StackFacts DEF Segments
  <2>2. N # 1
    BY <1>1, <2>1
  <2> HIDE DEF N
  <2> QED
    BY <2>1, <2>2
<1>4. b.l = L /\ b \in RecordSet /\ r.l = L /\ r \in RecordSet /\ r.noyield \in BOOLEAN /\ FollowsAt(b, r) /\ WaitsAt(b, r, th)
  <2>1. FollowsAt(b, r) /\ WaitsAt(b, r, th) /\ b \in RecordSet
    BY <1>3, StackFacts DEF Linked
  <2>2. r.l = L /\ r \in RecordSet /\ r.noyield \in BOOLEAN
    BY <1>1, Running0, RecordFields
  <2>3. b.l = r.l
    BY <1>1, <1>3, StackFacts DEF Segments
  <2> QED
    BY <2>1, <2>2, <2>3
<1>5. /\ T \in ThreadSet /\ Others(T, th[L]) /\ T.frames = g
      /\ T.nC = th[L].nC - 1 /\ T.nny = th[L].nny - (IF r.noyield THEN 1 ELSE 0)
  BY <1>4, Running0, UnCountedFields
<1>6. T.nC = Count(c, N - 1) /\ T.nny = Nny(c, L, N - 1) /\ T.nC < Limit /\ T.nC \in Int
  <2>1. /\ Count(c, N - 1) \in Nat /\ Nny(c, L, N - 1) \in Nat
        /\ Count(c, N) = Count(c, N - 1) + (IF r.at \in {"call", "resume"} THEN 1 ELSE 0)
        /\ Nny(c, L, N) = Nny(c, L, N - 1) + (IF Unyields(c, N, L) THEN 1 ELSE 0)
    <3> HIDE DEF N
    <3> QED
      BY <1>3, Running0, CountLast DEF r
  <2>2. Unyields(c, N, L) <=> r.noyield
    BY <1>1, <1>4 DEF Unyields
  <2>3. th[L].nC = Count(c, N) /\ th[L].nny = Nny(c, L, N)
    BY StackFacts
  <2> HIDE DEF N, r, T
  <2>4. T.nC = Count(c, N - 1) /\ T.nC \in Int /\ T.nC < th[L].nC
    BY <1>1, <1>5, <2>1, <2>3
  <2>5. T.nny = Nny(c, L, N - 1)
    BY <1>1, <1>4, <1>5, <2>1, <2>2, <2>3
  <2> QED
    BY <1>2, <2>4, <2>5, Running0, Limits
<1>7. T.status = "ok" /\ T.start = th[L].start
  BY <1>2, <1>5 DEF Others
<1>8. Pop(c) = SubSeq(c, 1, N - 1) /\ Len(Pop(c)) = N - 1 /\ Last(Pop(c)) = b /\ Pop(c)[Len(Pop(c))] = b /\ Pop(c) \in Seq(RecordSet)
  BY <1>3, Running0, Cut DEF Pop, Last
<1>9. CASE b.at = "errormsg"
  <2> DEFINE s == Pop(Pop(c))
             M == N - 2
  <2>1. Goes(T, s, Throw("err", "handled"))
    BY <1>1, <1>8, <1>9 DEF Returned
  <2>2. N - 1 # 1 /\ N - 1 \in Nat
    <3>1. c[1].at = "pcall"
      BY StackFacts DEF Segments
    <3> HIDE DEF N
    <3> QED
      BY <1>3, <1>9, <3>1
  <2>3. M \in 1..N /\ M \in 0..N /\ M \in 0..(N - 1) /\ M \in Nat /\ M < N - 1 /\ M + 1 = N - 1 /\ (N - 1) - 1 = M /\ N - 1 \in 2..N /\ N - 1 \in Nat /\ N - 1 > 0 /\ M \in 1..M
        /\ (\A k \in (M + 1)..(N - 1) : k = N - 1) /\ (\A i \in 1..M : i \in 1..N /\ i \in 1..(N - 1))
        /\ \A i \in 1..N : i \in 1..M \/ i = N - 1 \/ i = N
    <3>1. N \in Nat /\ N > 2
      <4> HIDE DEF N
      <4> QED
        BY <1>3, <2>2
    <3> HIDE DEF N
    <3> QED
      BY <3>1
  <2>4. c[M].l = L /\ c[M].at \notin {"pcall", "errormsg"}
    <3>1. FollowsAt(c[M], b)
      BY <2>3, StackFacts DEF Linked
    <3>2. c[M].l = b.l
      BY <1>3, <1>9, <2>3, StackFacts DEF Segments
    <3> QED
      BY <1>4, <1>9, <3>1, <3>2 DEF FollowsAt
  <2>5. s = SubSeq(c, 1, M) /\ Len(s) = M /\ s[Len(s)] = c[M]
    <3>1. /\ SubSeq(c, 1, M) \in Seq(RecordSet) /\ Len(SubSeq(c, 1, M)) = M /\ \A i \in 1..M : SubSeq(c, 1, M)[i] = c[i]
      <4> HIDE DEF M
      <4> QED
        BY <2>3, Running0, Cut
    <3>2. s = SubSeq(Pop(c), 1, M)
      BY <1>8, <2>3 DEF Pop
    <3>3. M \in 0..Len(Pop(c))
      <4>1. M \in 0..(N - 1)
        BY <2>3
      <4> QED
        BY <1>8, <4>1
    <3>4. s \in Seq(RecordSet) /\ Len(s) = M /\ \A i \in 1..M : s[i] = Pop(c)[i]
      <4> DEFINE p == Pop(c)
      <4>1. p \in Seq(RecordSet) /\ s = SubSeq(p, 1, M) /\ M \in 0..Len(p)
        BY <1>8, <3>2, <3>3
      <4> HIDE DEF M, p, s
      <4>2. s \in Seq(RecordSet) /\ Len(s) = M /\ \A i \in 1..M : s[i] = p[i]
        BY <4>1, Cut
      <4> QED
        BY <4>2 DEF p
    <3>5. \A i \in 1..M : Pop(c)[i] = c[i]
      BY <1>3, <1>8, <2>3, Running0, Cut
    <3>6. \A i \in 1..Len(s) : s[i] = SubSeq(c, 1, M)[i]
      BY <3>1, <3>4, <3>5
    <3> HIDE DEF s
    <3>7. s = SubSeq(c, 1, M)
      BY <3>1, <3>4, <3>6, SeqEqual
    <3> QED
      BY <2>3, <3>1, <3>7
  <2>6. Count(c, M) = Count(c, N - 1) /\ Nny(c, L, M) = Nny(c, L, N - 1)
    <3>1. /\ Count(c, M) \in Nat /\ Nny(c, L, M) \in Nat
          /\ Count(c, N - 1) = Count(c, M) + (IF b.at \in {"call", "resume"} THEN 1 ELSE 0)
          /\ Nny(c, L, N - 1) = Nny(c, L, M) + (IF Unyields(c, N - 1, L) THEN 1 ELSE 0)
      <4> DEFINE m == N - 1
      <4>1. m \in Nat /\ m > 0 /\ m - 1 = M
        BY <2>3
      <4> HIDE DEF M, m
      <4>2. /\ Count(c, m - 1) \in Nat /\ Nny(c, L, m - 1) \in Nat
            /\ Count(c, m) = Count(c, m - 1) + (IF c[m].at \in {"call", "resume"} THEN 1 ELSE 0)
            /\ Nny(c, L, m) = Nny(c, L, m - 1) + (IF Unyields(c, m, L) THEN 1 ELSE 0)
        BY <4>1, Running0, CountLast
      <4> QED
        BY <4>1, <4>2 DEF m
    <3>2. ~Unyields(c, N - 1, L)
      BY <1>9 DEF Unyields
    <3> HIDE DEF M, N, b
    <3> QED
      BY <1>9, <3>1, <3>2
  <2>7. State(SubSeq(c, 1, M), [th EXCEPT ![L] = T], L)
    <3>1. \A i \in 1..M : Deep(c[i]) /\ c[i].l = L => c[i].ci <= Len(T.frames)
      BY <1>5, <2>3, StackFacts DEF Depths
    <3>2. \A k \in 1..(Len(T.frames) - 1), i \in 1..Len(c) : Unyields(c, i, L) /\ c[i].ci = k => i \in 1..M
      <4> SUFFICES ASSUME NEW k \in 1..(Len(T.frames) - 1), Unyields(c, N, L), c[N].ci = k PROVE FALSE
        BY <1>9, <2>3 DEF Unyields
      <4> QED
        BY <1>2, <1>5, Running0
    <3>3. Len(T.frames) <= Len(g) /\ \A k \in 1..Len(T.frames) : T.frames[k] = g[k]
      BY <1>5, Running0
    <3>4. T.nC = Count(c, M) /\ T.nny = Nny(c, L, M)
      BY <1>6, <2>6
    <3>5. M \in 1..Len(c)
      BY <2>3
    <3> HIDE DEF M, N, g, T
    <3> QED
      BY <1>5, <2>4, <3>1, <3>2, <3>3, <3>4, <3>5, GoodStep, StateBack DEF g
  <2>8. T.nC <= Limit
    BY <1>6, Limits
  <2> HIDE DEF s, M, T
  <2> QED
    BY <1>5, <1>7, <2>1, <2>4, <2>5, <2>7, <2>8, Running0, ThrowGood
<1>10. \A k \in 1..(Len(T.frames) - 1), i \in 1..Len(c) : Unyields(c, i, L) /\ c[i].ci = k => i \in 1..(N - 1)
  <2> SUFFICES ASSUME NEW k \in 1..(Len(T.frames) - 1), Unyields(c, N, L), c[N].ci = k PROVE FALSE
    BY <1>3
  <2> QED
    BY <1>2, <1>5, Running0
<1>11. CASE b.at = "pcall"
  <2>1. Goes(T, Pop(c), ctl)
    BY <1>1, <1>8, <1>11 DEF Returned
  <2>2. State(SubSeq(c, 1, N - 1), [th EXCEPT ![L] = T], L)
    <3>1. \A i \in 1..(N - 1) : i \in 1..N
      BY <1>3
    <3>2. \A i \in 1..(N - 1) : Deep(c[i]) /\ c[i].l = L => c[i].ci <= Len(T.frames)
      BY <1>5, <3>1, StackFacts DEF Depths
    <3>3. Len(T.frames) <= Len(g) /\ \A k \in 1..Len(T.frames) : T.frames[k] = g[k]
      BY <1>5, Running0
    <3> DEFINE M == N - 1
    <3>4. M \in 1..Len(c)
      BY <1>3
    <3>5. State(SubSeq(c, 1, M), [th EXCEPT ![L] = T], L)
      <4>1. /\ T.nC = Count(c, M) /\ T.nny = Nny(c, L, M) /\ c[M].l = L
            /\ \A i \in 1..M : Deep(c[i]) /\ c[i].l = L => c[i].ci <= Len(T.frames)
            /\ \A k \in 1..(Len(T.frames) - 1), i \in 1..Len(c) : Unyields(c, i, L) /\ c[i].ci = k => i \in 1..M
        BY <1>4, <1>6, <1>10, <3>2
      <4> HIDE DEF M, N, g, T
      <4> QED
        BY <1>5, <3>3, <3>4, <4>1, GoodStep, StateBack DEF g
    <3> QED
      BY <3>5
  <2>3. ctl \in CtlSet /\ (ctl.go # "throw" => ctl.st # "yield")
    BY DEF Good, Yielding
  <2>4. Continues(b, T.frames, ctl.go)
    BY <1>1, <1>2, <1>4, <1>5, <1>11 DEF Continues, FollowsAt
  <2>5. Bounded(T.nC, ctl.go) /\ Yielding(T, ctl)
    BY <1>1, <1>6, <1>7, GoodStep DEF Bounded, Yielding
  <2> HIDE DEF T
  <2> QED
    BY <1>8, <2>1, <2>2, <2>3, <2>4, <2>5, Running0, GoesGood
<1>12. CASE b.at \notin {"errormsg", "pcall"}
  <2>1. Goes(Finished(T), SubSeq(c, 1, N - 1), Run)
    BY <1>1, <1>8, <1>12 DEF Returned
  <2>2. Within(b, g, r.ci, CFunctions)
    BY <1>1, <1>4, <1>12 DEF WaitsAt
  <2>3. Deep(c[N]) /\ c[N].l = L /\ c[N - 1].l = L /\ Len(T.frames) = c[N].ci /\ \A k \in 1..Len(T.frames) : T.frames[k] = th[L].frames[k]
    BY <1>1, <1>2, <1>4, <1>5 DEF Deep
  <2> HIDE DEF T, N
  <2> QED
    BY <1>2, <1>3, <1>5, <1>6, <1>7, <2>1, <2>2, <2>3, GoesOn DEF N
<1> QED
  BY <1>9, <1>11, <1>12

LEMMA AfterPcallGood ==
  ASSUME Good(c, th, L, ctl), NEW j \in 1..Len(c), c[j].at = "pcall", c[j].l = L,
         NEW T \in ThreadSet, T.status = "ok", T.start = th[L].start, T.nC = Count(c, j), T.nny = Nny(c, L, j - 1),
         Len(T.frames) = c[j].ci, \A k \in 1..Len(T.frames) : T.frames[k] = th[L].frames[k],
         th[L].status = "ok", AfterPcall(T, SubSeq(c, 1, j - 1))
  PROVE  Good(c', th', L', ctl') \/ ctl'.go = "stop"
<1>1. CASE T.frames = <<>>
  <2>1. ctl' = Ctl("stop", "ok", "")
    BY <1>1 DEF AfterPcall, Goes
  <2> QED
    BY <2>1 DEF Ctl
<1>2. CASE T.frames # <<>>
  <2>1. Goes(Finished(T), SubSeq(c, 1, j - 1), Run)
    BY <1>2 DEF AfterPcall
  <2>2. j # 1
    <3>1. j = 1 => Len(T.frames) = 0
      BY StackFacts DEF Segments
    <3>2. Len(T.frames) = 0 => T.frames = <<>>
      BY ThreadFields, EmptySeq
    <3> QED
      BY <1>2, <3>1, <3>2
  <2>3. j \in 2..Len(c) /\ j \in Nat /\ j > 0 /\ j - 1 \in 1..Len(c) /\ j - 1 < j /\ \A k \in ((j - 1) + 1)..j : k = j
    BY <2>2, Running0
  <2>4. c[j - 1].l = c[j].l
    <3>1. \A k \in ((j - 1) + 1)..j : c[k].at # "resume"
      BY <2>3
    <3> QED
      BY <2>3, <3>1, StackFacts DEF Segments
  <2>5. Within(c[j - 1], th[L].frames, c[j].ci, Protecting)
    BY <2>3, StackFacts DEF Linked, WaitsAt
  <2>6. Count(c, j) = Count(c, j - 1)
    <3>1. /\ Count(c, j - 1) \in Nat
          /\ Count(c, j) = Count(c, j - 1) + (IF c[j].at \in {"call", "resume"} THEN 1 ELSE 0)
      BY <2>3, Running0, CountLast
    <3> QED
      BY <3>1
  <2>7. T.nC < Limit
    BY GoodStep DEF State, Counts
  <2>8. Deep(c[j])
    BY DEF Deep
  <2>9. Good(c', th', L', ctl')
    BY <2>1, <2>3, <2>4, <2>5, <2>6, <2>7, <2>8, GoesOn
  <2> QED
    BY <2>9
<1> QED
  BY <1>1, <1>2

\* The resumer goes on, with its frame popped or an error raised.
LEMMA ResumerGood ==
  ASSUME NEW s, NEW ths, NEW m \in Threads, ths \in [Threads -> ThreadSet], NEW failed \in BOOLEAN,
         Len(ths[m].frames) > 0, ths[m].status = "ok", ths[m].nC < Limit,
         Within(s[Len(s)], ths[m].frames, Len(ths[m].frames), {"resume", "wrap"}),
         State(s, [ths EXCEPT ![m] = ths[m]], m), State(s, [ths EXCEPT ![m] = Finished(ths[m])], m),
         Resumer(m, ths, s, failed)
  PROVE  Good(c', th', L', ctl')
<1> DEFINE T == ths[m]
           U == Finished(T)
           wrap == failed /\ Last(T.frames).kind = "wrap"
<1>1. T \in ThreadSet
  OBVIOUS
<1>2. U \in ThreadSet /\ Keeps(U, T) /\ U.frames = Pop(T.frames)
  BY <1>1, FinishedFields
<1>3. L' = m /\ c' = s /\ (wrap => ctl' = Raise) /\ (~wrap => ctl' = Run)
  BY DEF Resumer
<1>4. th' = [ths EXCEPT ![m] = IF wrap THEN T ELSE U]
  BY DEF Resumer
<1>5. s[Len(s)].at \notin {"pcall", "errormsg"} /\ RunsAbove(s[Len(s)], U.frames, Len(U.frames))
  <2>1. /\ Pop(T.frames) \in Seq(FrameSet) /\ Len(Pop(T.frames)) = Len(T.frames) - 1 /\ Len(T.frames) \in Nat /\ T.frames \in Seq(FrameSet)
        /\ \A k \in 1..Len(Pop(T.frames)) : Pop(T.frames)[k] = T.frames[k]
    BY <1>1, ThreadFields, Popped
  <2>2. \A k \in 1..(Len(T.frames) - 1) : Pop(T.frames)[k] = T.frames[k]
    BY <2>1
  <2> DEFINE h == Pop(T.frames)
  <2> HIDE DEF h
  <2>3. Len(h) = Len(T.frames) - 1 /\ h \in Seq(FrameSet) /\ \A k \in 1..(Len(T.frames) - 1) : h[k] = T.frames[k]
    BY <2>1, <2>2 DEF h
  <2>4. s[Len(s)].at \in {"call", "resume", "unroll"} /\ RunsAbove(s[Len(s)], h, Len(h))
    <3> DEFINE g == T.frames
               r == s[Len(s)]
    <3>1. g \in Seq(FrameSet) /\ Within(r, g, Len(g), {"resume", "wrap"}) /\ Len(h) = Len(g) - 1 /\ \A k \in 1..(Len(g) - 1) : h[k] = g[k]
      BY <2>1, <2>3
    <3> HIDE DEF g, r, T
    <3>2. r.at \in {"call", "resume", "unroll"} /\ RunsAbove(r, h, Len(h))
      BY <2>3, <3>1, WithinPopped
    <3> QED
      BY <3>2 DEF r
  <2> QED
    BY <1>2, <2>4 DEF h
<1> HIDE DEF wrap, U
<1>6. CASE wrap
  <2>1. th'[m] = T /\ State(s, th', m)
    BY <1>4, <1>6
  <2>2. Continues(s[Len(s)], T.frames, Raise.go) /\ Bounded(T.nC, Raise.go) /\ Yielding(T, Raise) /\ Raise \in CtlSet
    BY <1>5, Controls DEF Continues, Bounded, Yielding
  <2> QED
    BY <1>3, <1>6, <2>1, <2>2 DEF Good
<1>7. CASE ~wrap
  <2>1. th'[m] = U /\ State(s, th', m)
    <3>1. th' = [ths EXCEPT ![m] = U]
      BY <1>4, <1>7
    <3> QED
      BY <3>1 DEF U
  <2>2. Continues(s[Len(s)], U.frames, Run.go) /\ Bounded(U.nC, Run.go) /\ Yielding(U, Run) /\ Run \in CtlSet
    BY <1>2, <1>5, Controls DEF Continues, Bounded, Yielding, Keeps, Others
  <2> QED
    BY <1>3, <1>7, <2>1, <2>2 DEF Good
<1> QED
  BY <1>6, <1>7

LEMMA LeaveGood ==
  ASSUME Good(c, th, L, ctl), NEW j \in 2..Len(c), c[j].at = "resume", c[j].l = L,
         NEW T \in ThreadSet, T.status = "ok" => T.frames = <<>>, T.status = "yield" => Suspended(T), Ypcalls(T.frames),
         NEW failed \in BOOLEAN, Leave(T, c[j], SubSeq(c, 1, j - 1), failed)
  PROVE  Good(c', th', L', ctl')
<1> DEFINE m == c[j].from
           V == [T EXCEPT !.nny = c[j].nny, !.nC = @ - 1]
           ths == [th EXCEPT ![L] = V]
           s == SubSeq(c, 1, j - 1)
           g == th[m].frames
<1>1. j \in 1..Len(c) /\ j \in Nat /\ j > 0 /\ j - 1 \in 1..Len(c) /\ j - 1 \in 0..Len(c) /\ j - 1 \in 1..(j - 1) /\ Len(c) \in Nat
  BY Running0
<1>2. c[j] \in RecordSet /\ c[j].nny \in Int
  <2>1. c[j] \in RecordSet
    BY <1>1, StackFacts
  <2> QED
    BY <2>1, RecordFields
<1>3. V \in ThreadSet /\ V.status = T.status /\ V.frames = T.frames
  <2> DEFINE a == c[j].nny
             z == T.nC - 1
  <2>1. a \in Int /\ z \in Int
    BY <1>2, ThreadFields
  <2>2. V = [T EXCEPT !.nny = a, !.nC = z]
    BY DEF ThreadSet
  <2> HIDE DEF a, z, V
  <2> QED
    BY <2>1, <2>2 DEF ThreadSet
<1>4. Resumer(m, ths, s, failed)
  BY DEF Leave
<1> HIDE DEF V
<1>5. (V.status = "ok" => V.frames = <<>>) /\ (V.status = "yield" => Suspended(V)) /\ Ypcalls(V.frames) /\ State(c, th, L)
  BY <1>3, GoodStep DEF Suspended
<1>6. m \in Threads /\ th[m] \in ThreadSet
  BY <1>2, Running0, RecordFields
<1>7. g \in Seq(FrameSet) /\ Len(g) \in Nat
  BY <1>6, ThreadFields
<1>8. /\ m # L /\ c[j - 1].l = m /\ th[m].status = "ok"
      /\ Within(c[j - 1], g, Len(g), {"resume", "wrap"})
      /\ State(s, [ths EXCEPT ![m] = th[m]], m)
  <2> DEFINE U == th[m]
  <2>1. U \in ThreadSet /\ U.frames = g /\ U.start = th[m].start /\ U.nC = th[m].nC /\ U.nny = th[m].nny /\ U = th[m]
    BY <1>6
  <2> HIDE DEF U
  <2>2. Len(U.frames) <= Len(g) /\ Len(U.frames) >= Len(g) - 1 /\ \A k \in 1..Len(U.frames) : U.frames[k] = g[k]
    BY <1>7, <2>1
  <2>3. /\ m # L /\ c[j - 1].l = m /\ th[m].status = "ok"
        /\ Within(c[j - 1], g, Len(g), {"resume", "wrap"})
        /\ State(s, [ths EXCEPT ![m] = U], m)
    BY <1>3, <1>5, <2>1, <2>2, StateLeave, SMTT(60)
  <2> QED
    BY <2>1, <2>3
<1>9. Len(g) > 0
  <2>1. Len(g) \in 1..Len(g)
    BY <1>8 DEF Within
  <2> HIDE DEF g
  <2> QED
    BY <1>7, <2>1
<1>10. State(s, [ths EXCEPT ![m] = Finished(th[m])], m)
  <2> DEFINE U == Finished(th[m])
  <2>1. U \in ThreadSet /\ Keeps(U, th[m]) /\ U.frames = Pop(g)
    BY <1>6, <1>9, FinishedFields
  <2> HIDE DEF U
  <2>2. Len(U.frames) <= Len(g) /\ Len(U.frames) >= Len(g) - 1 /\ \A k \in 1..Len(U.frames) : U.frames[k] = g[k]
    <3>1. Len(Pop(g)) = Len(g) - 1 /\ \A k \in 1..Len(Pop(g)) : Pop(g)[k] = g[k]
      BY <1>7, <1>9, Popped
    <3> DEFINE h == U.frames
    <3>2. h = Pop(g)
      BY <2>1
    <3> HIDE DEF g, h
    <3>3. Len(h) = Len(g) - 1 /\ \A k \in 1..Len(h) : h[k] = g[k]
      BY <3>1, <3>2
    <3>4. Len(h) <= Len(g) /\ Len(h) >= Len(g) - 1
      BY <1>7, <3>3
    <3>5. \A k \in 1..Len(h) : h[k] = g[k]
      BY <3>3, Zenon
    <3> QED
      BY <3>4, <3>5, Zenon DEF h
  <2>3. U.start = th[m].start /\ U.nC = th[m].nC /\ U.nny = th[m].nny
    BY <2>1 DEF Keeps, Others
  <2>4. State(s, [ths EXCEPT ![m] = U], m)
    <3>1. U \in ThreadSet
      BY <2>1
    <3> QED
      BY <1>3, <1>5, <2>2, <2>3, <3>1, StateLeave, SMTT(60)
  <2> QED
    BY <2>4 DEF U
<1>11. th[m].nC < Limit
  <2>1. Counts(c, th, L)
    BY GoodStep DEF State
  <2>2. th[m].nC = Count(c, j - 1) /\ c[j].nC = Count(c, j) /\ c[j].nC < Limit
    BY <1>1, <2>1 DEF Counts
  <2>3. Count(c, j - 1) \in Nat /\ Count(c, j) = Count(c, j - 1) + (IF c[j].at \in {"call", "resume"} THEN 1 ELSE 0)
    BY <1>1, Running0, CountLast
  <2> QED
    BY <2>2, <2>3, Limits
<1>12. s[Len(s)] = c[j - 1]
  <2> DEFINE n == j - 1
  <2>1. n \in 0..Len(c) /\ n \in 1..n
    BY <1>1
  <2> HIDE DEF n
  <2>2. Len(SubSeq(c, 1, n)) = n /\ SubSeq(c, 1, n)[n] = c[n]
    BY <2>1, Running0, Cut
  <2> QED
    BY <2>2 DEF n
<1>13. ths \in [Threads -> ThreadSet] /\ ths[m] = th[m]
  BY <1>3, <1>8, Running0
<1> HIDE DEF ths, m, s
<1> QED
  BY <1>4, <1>6, <1>8, <1>9, <1>10, <1>11, <1>12, <1>13, ResumerGood

LEMMA TryEndsStep == ASSUME Good(c, th, L, ctl), TryEnds PROVE Good(c', th', L', ctl') \/ ctl'.go = "stop"
<1> DEFINE g == th[L].frames
           N == Len(c)
           r == c[N]
           T == Restored(th[L], r)
<1>1. ctl.go = "return" /\ r.at \in {"pcall", "resume"} /\ Last(c) = r
  BY DEF TryEnds, Last
<1>2. Continues(r, g, ctl.go) /\ th[L].nC < Limit /\ th[L].status = "ok"
  BY <1>1, GoodStep
<1>3. (r.at = "pcall" => r.ci = Len(g)) /\ (r.at = "resume" => Len(g) = 0)
  BY <1>1, <1>2, Zenon DEF Continues, Deep
<1>4. /\ N \in Nat /\ N > 0 /\ N \in 1..N /\ r \in RecordSet /\ r.l = L /\ r.nC \in Int
      /\ r.at = "pcall" => r.errf \in Nat
  <2>1. N \in Nat /\ N \in 1..N /\ r \in RecordSet /\ r.l = L
    BY Running0
  <2>2. r.nC \in Int /\ (r.at = "pcall" => r.errf \in Nat)
    BY <1>1, <2>1, RecordFields
  <2> HIDE DEF N
  <2> QED
    BY <2>1, <2>2
<1>5. T \in ThreadSet /\ Others(T, th[L]) /\ T.frames = g /\ T.nC = r.nC /\ T.nny = th[L].nny
  BY <1>4, Running0, RestoredFields
<1>6. r.nC = Count(c, N) /\ th[L].nny = Nny(c, L, N)
  <2>1. Counts(c, th, L)
    BY GoodStep DEF State
  <2> HIDE DEF N
  <2>2. r.nC = Count(c, N)
    BY <1>1, <1>4, <2>1 DEF Counts, N
  <2> QED
    BY <2>2, StackFacts DEF N
<1> HIDE DEF T
<1>7. CASE r.at = "pcall"
  <2> DEFINE U == [T EXCEPT !.errf = r.errf]
  <2>1. U \in ThreadSet /\ Keeps(U, T) /\ U.frames = g
    BY <1>4, <1>5, <1>7, HandlerFields
  <2>2. AfterPcall(U, SubSeq(c, 1, N - 1))
    BY <1>1, <1>7 DEF TryEnds, Pop, T
  <2> HIDE DEF U
  <2>3. Nny(c, L, N - 1) = Nny(c, L, N)
    <3>1. ~Unyields(c, N, L)
      BY <1>7 DEF Unyields
    <3>2. Nny(c, L, N - 1) \in Nat /\ Nny(c, L, N) = Nny(c, L, N - 1) + (IF Unyields(c, N, L) THEN 1 ELSE 0)
      <4> HIDE DEF N
      <4> QED
        BY <1>4, Running0, CountLast
    <3> HIDE DEF N
    <3> QED
      BY <3>1, <3>2
  <2>4. /\ U.status = "ok" /\ U.start = th[L].start /\ U.nC = Count(c, N) /\ U.nny = Nny(c, L, N - 1)
        /\ Len(U.frames) = c[N].ci /\ \A k \in 1..Len(U.frames) : U.frames[k] = th[L].frames[k]
    BY <1>2, <1>3, <1>5, <1>6, <1>7, <2>1, <2>3 DEF Keeps, Others
  <2>5. N \in 1..Len(c) /\ c[N].at = "pcall" /\ c[N].l = L
    BY <1>4, <1>7
  <2> HIDE DEF N
  <2> QED
    BY <1>2, <2>1, <2>2, <2>4, <2>5, AfterPcallGood
<1>8. CASE r.at = "resume"
  <2>1. N \in 2..N
    <3>1. c[1].at = "pcall"
      BY StackFacts DEF Segments
    <3>2. N # 1
      BY <1>8, <3>1
    <3> HIDE DEF N
    <3> QED
      BY <1>4, <3>2
  <2>2. Leave(T, c[N], SubSeq(c, 1, N - 1), FALSE)
    BY <1>1, <1>8 DEF TryEnds, Pop, T
  <2>3. T.frames = <<>>
    BY <1>3, <1>5, <1>8, ThreadFields, EmptySeq
  <2>4. T.status = "ok" /\ Ypcalls(T.frames)
    BY <1>2, <1>5, StackFacts DEF Others
  <2>5. N \in 2..Len(c) /\ c[N].at = "resume" /\ c[N].l = L
    BY <1>4, <1>8, <2>1
  <2>6. T.status # "yield" /\ FALSE \in BOOLEAN
    BY <2>4
  <2> HIDE DEF N
  <2> QED
    BY <1>5, <2>2, <2>3, <2>4, <2>5, <2>6, LeaveGood
<1> QED
  BY <1>1, <1>7, <1>8

\* Where an error or a yield gets to.
LEMMA LastTryIs ==
  ASSUME Good(c, th, L, ctl)
  PROVE  /\ LastTry \in 1..Len(c) /\ c[LastTry].at \in {"pcall", "resume"} /\ c[LastTry].l = L
         /\ c[LastTry] \in RecordSet /\ c[LastTry].nC = Count(c, LastTry) /\ c[LastTry].nC < Limit
         /\ c[LastTry].at = "resume" => LastTry \in 2..Len(c)
         /\ \A i \in 1..Len(c) : c[i].at \in {"pcall", "resume"} => i <= LastTry
<1> DEFINE N == Len(c)
           S == {i \in DOMAIN c : c[i].at \in {"pcall", "resume"}}
           j == LastTry
<1>1. N \in Nat /\ N \in 1..N /\ 1 \in 1..N /\ DOMAIN c = 1..N
  <2>1. N \in Nat /\ N \in 1..N /\ DOMAIN c = 1..N
    BY Running0
  <2> HIDE DEF N
  <2> QED
    BY <2>1
<1>2. c[1].at = "pcall" /\ c[N].l = L
  BY StackFacts, Running0 DEF Segments
<1>3. S \subseteq 1..N /\ S # {}
  BY <1>1, <1>2
<1>4. j \in S /\ \A i \in S : i <= j
  <2>1. j = Highest(S)
    BY DEF LastTry
  <2> HIDE DEF S, N, j
  <2> QED
    BY <1>1, <1>3, <2>1, HighestIs
<1>5. j \in 1..N /\ c[j].at \in {"pcall", "resume"}
  BY <1>1, <1>4
<1>6. \A i \in 1..N : c[i].at \in {"pcall", "resume"} => i <= j
  BY <1>1, <1>4
<1> HIDE DEF j, S, N
<1>7. c[j].l = L
  <2>1. CASE j = N
    BY <1>2, <2>1
  <2>2. CASE j < N
    <3>1. \A k \in (j + 1)..N : c[k].at # "resume"
      BY <1>1, <1>5, <1>6
    <3>2. c[j].l = c[N].l
      BY <1>1, <1>5, <2>2, <3>1, StackFacts DEF Segments, N
    <3> QED
      BY <1>2, <3>2
  <2> QED
    BY <1>1, <1>5, <2>1, <2>2
<1>8. c[j] \in RecordSet
  BY <1>5, StackFacts DEF N
<1>9. c[j].nC = Count(c, j) /\ c[j].nC < Limit
  <2>1. Counts(c, th, L)
    BY GoodStep DEF State
  <2> QED
    BY <1>5, <2>1 DEF Counts, N
<1>10. c[j].at = "resume" => j \in 2..N
  <2>1. c[j].at = "resume" => j # 1
    BY <1>2
  <2> QED
    BY <1>1, <1>5, <2>1
<1> QED
  BY <1>5, <1>6, <1>7, <1>8, <1>9, <1>10 DEF j, N

\* recover: the call of lua_pcallk that the error gets to is finished by unroll.
LEMMA RecoverGood ==
  ASSUME Good(c, th, L, ctl), NEW j \in 2..Len(c), c[j].at = "resume", c[j].l = L,
         NEW T \in ThreadSet, T.frames = th[L].frames, T.nC = Count(c, j), T.nC < Limit, T.status = "ok", ~T.start,
         RecoverPoint(T) # 0, Recover(T, Append(SubSeq(c, 1, j - 1), c[j]))
  PROVE  Good(c', th', L', ctl')
<1> DEFINE g == th[L].frames
           i == RecoverPoint(T)
           R == Recovered(T, i)
           U == Finished(R)
           h == U.frames
           s == SubSeq(c, 1, j)
           r == UnrollRec(L)
           k == Ctl("unroll", "ok", "")
<1>a. k \in CtlSet /\ k.go = "unroll" /\ k.st = "ok"
  BY Controls
<1>c. Goes(U, Append(Append(SubSeq(c, 1, j - 1), c[j]), r), k)
  BY DEF Recover
<1>1. g \in Seq(FrameSet) /\ Len(g) \in Nat /\ i \in 1..Len(g) /\ g[i].ypcall /\ i \in Nat /\ i > 0
  <2> DEFINE S == {x \in DOMAIN g : g[x].ypcall}
  <2>1. g \in Seq(FrameSet) /\ Len(g) \in Nat /\ DOMAIN g = 1..Len(g)
    BY Running0
  <2>2. i = Highest(S) /\ S \subseteq 1..Len(g)
    BY <2>1 DEF RecoverPoint
  <2> HIDE DEF S, i
  <2>3. i \in S
    BY <2>1, <2>2, HighestIs DEF i
  <2> QED
    BY <2>1, <2>3 DEF S
<1>2. j \in Nat /\ j \in 1..Len(c) /\ Len(c) \in Nat /\ j - 1 \in 0..Len(c) /\ 1 \in 1..(j - 1) /\ 1 \in 1..Len(c) /\ j \in 0..Len(c) /\ j \in 1..j
      /\ (j - 1) + 1 = j /\ j - 1 \in Nat /\ (\A x \in 1..j : x \in 1..(j - 1) \/ x = j) /\ \A x \in 1..(j - 1) : x \in 1..j
  BY Running0
<1>b. \A x \in 1..(j - 1) : c[x].l # L
  BY <1>2, Running0, StackFacts, OwnAbove
<1>3. \A x \in 1..j : ~(Deep(c[x]) /\ c[x].l = L) /\ ~Unyields(c, x, L)
  BY <1>2, <1>b DEF Deep, Unyields
<1>4. L # "main"
  <2>1. c[1].l # L
    BY <1>2, <1>b
  <2> QED
    BY <2>1, StackFacts DEF Segments
<1>5. Nny(c, L, j) = 0
  <2>1. {x \in 1..j : Unyields(c, x, L)} = {}
    BY <1>3
  <2> DEFINE n == Cardinality({x \in 1..j : Unyields(c, x, L)})
  <2>2. Cardinality({}) = 0
    BY FS_EmptySet
  <2>3. n = 0
    BY <2>1, <2>2
  <2>4. Nny(c, L, j) = n + (IF L = "main" THEN 1 ELSE 0)
    BY DEF Nny
  <2> HIDE DEF n
  <2> QED
    BY <1>4, <2>3, <2>4
<1> HIDE DEF i
<1>6. R \in ThreadSet /\ Others(R, T) /\ R.frames = SubSeq(g, 1, i) /\ R.nC = T.nC /\ R.nny = 0
  BY <1>1, RecoveredFields
<1>7. R.frames \in Seq(FrameSet) /\ Len(R.frames) = i /\ \A x \in 1..i : R.frames[x] = g[x]
  <2>1. i \in 0..Len(g)
    BY <1>1
  <2> QED
    BY <1>1, <1>6, <2>1, Cut
<1> HIDE DEF R
<1>8. U \in ThreadSet /\ Keeps(U, R) /\ h = Pop(R.frames)
  BY <1>1, <1>6, <1>7, FinishedFields
<1>9. h \in Seq(FrameSet) /\ Len(h) = i - 1 /\ \A x \in 1..Len(h) : h[x] = R.frames[x] /\ x \in 1..i
  BY <1>1, <1>7, <1>8, Popped
<1> HIDE DEF U
<1>10. /\ Len(h) \in Nat /\ Len(h) <= Len(g) /\ \A x \in 1..Len(h) : h[x] = g[x] /\ x \in 1..i
  BY <1>1, <1>7, <1>9
<1>11. Shape(h, Len(h))
  <2>1. Shape(g, i)
    BY <1>1, StackFacts DEF Ypcalls
  <2> QED
    BY <1>10, <2>1 DEF Shape
<1>12. Ypcalls(h)
  BY <1>1, <1>9, <1>10, StackFacts, FramesCut
<1>13. Covers(c, j, h, L)
  <2>1. \A x \in 1..(Len(h) - 1) : x \in 1..Len(h)
    BY <1>10
  <2> QED
    BY <1>11, <2>1 DEF Covers, Shape
<1>14. ~U.start /\ U.status = "ok" /\ U.nC = Count(c, j) /\ U.nny = Nny(c, L, j) /\ U.nC < Limit
  BY <1>5, <1>6, <1>8 DEF Keeps, Others
<1>15. State(s, [th EXCEPT ![L] = U], L)
  <2>1. \A x \in 1..j : Deep(c[x]) /\ c[x].l = L => c[x].ci <= Len(h)
    BY <1>3
  <2>2. \A x \in 1..j : c[x].at = "pcall" /\ c[x].l = L => \A y \in 1..Len(U.frames) : y > c[x].ci => ~U.frames[y].ypcall
    BY <1>3 DEF Deep
  <2>3. Len(h) <= Len(U.frames) /\ \A x \in 1..Len(h) : U.frames[x] = th[L].frames[x]
    BY <1>10
  <2> HIDE DEF g
  <2> QED
    BY <1>2, <1>8, <1>10, <1>12, <1>13, <1>14, <2>1, <2>2, <2>3, GoodStep, StateCut
<1>16. s \in Seq(RecordSet) /\ Len(s) = j /\ s[Len(s)] = c[j]
  BY <1>2, Running0, Cut
<1>17. r \in RecordSet /\ r.at = "unroll" /\ r.l = L
  BY Running0 DEF UnrollRec, RecordSet
<1>18. Append(SubSeq(c, 1, j - 1), c[j]) = s
  <2> DEFINE q == SubSeq(c, 1, j - 1)
             t == Append(q, c[j])
             m == j - 1
  <2>1. q \in Seq(RecordSet) /\ Len(q) = m /\ \A x \in 1..m : q[x] = c[x]
    <3>1. m \in 0..Len(c)
      BY <1>2
    <3> HIDE DEF m
    <3>2. SubSeq(c, 1, m) \in Seq(RecordSet) /\ Len(SubSeq(c, 1, m)) = m /\ \A x \in 1..m : SubSeq(c, 1, m)[x] = c[x]
      BY <3>1, Running0, Cut
    <3> QED
      BY <3>2 DEF m
  <2>2. c[j] \in RecordSet
    BY <1>2, StackFacts
  <2> HIDE DEF q
  <2>3. t \in Seq(RecordSet) /\ Len(t) = Len(q) + 1 /\ t[Len(q) + 1] = c[j] /\ \A x \in 1..Len(q) : t[x] = q[x]
    BY <2>1, <2>2, Grown
  <2> HIDE DEF t
  <2>4. Len(t) = j /\ t[j] = c[j] /\ \A x \in 1..(j - 1) : t[x] = c[x]
    BY <1>2, <2>1, <2>3
  <2>5. \A x \in 1..j : s[x] = c[x]
    <3>1. c \in Seq(RecordSet) /\ j \in 0..Len(c)
      BY <1>2, Running0
    <3> QED
      BY <3>1, Cut
  <2>6. \A x \in 1..Len(t) : t[x] = s[x]
    BY <1>2, <2>4, <2>5
  <2> HIDE DEF s
  <2>7. t = s
    BY <1>16, <2>3, <2>4, <2>6, SeqEqual
  <2> QED
    BY <2>7 DEF t, q
<1> HIDE DEF s, r
<1>19. Goes(U, Append(s, r), k)
  BY <1>18, <1>c
<1>20. State(Append(s, r), [th EXCEPT ![L] = U], L)
  <2> DEFINE ths == [th EXCEPT ![L] = U]
  <2>1. ths[L] = U /\ [ths EXCEPT ![L] = U] = ths
    BY <1>8, Running0
  <2> HIDE DEF ths
  <2>2. FollowsAt(s[Len(s)], r) /\ WaitsAt(s[Len(s)], r, ths) /\ ~Deep(r)
    BY <1>16, <1>17 DEF FollowsAt, WaitsAt, Deep
  <2>3. State(s, ths, L)
    BY <1>15 DEF ths
  <2>4. U.nC \in Int /\ U.nny \in Int
    BY <1>8, ThreadFields
  <2>5. U.nC = ths[L].nC + (IF r.at = "call" THEN 1 ELSE 0) /\ U.nny = ths[L].nny + (IF r.at = "call" /\ r.noyield THEN 1 ELSE 0)
    BY <1>17, <2>1, <2>4
  <2>6. r.at # "resume" /\ r.at # "pcall" /\ U.frames = ths[L].frames
    BY <1>17, <2>1
  <2>7. State(Append(s, r), [ths EXCEPT ![L] = U], L)
    BY <1>8, <1>14, <1>17, <2>2, <2>3, <2>5, <2>6, StateGrow
  <2> QED
    BY <2>1, <2>7 DEF ths
<1>21. Append(s, r)[Len(Append(s, r))] = r
  BY <1>16, <1>17, Grown
<1>22. k \in CtlSet /\ k.go = "unroll" /\ k.st = "ok"
  BY <1>a
<1> HIDE DEF k
<1>23. Continues(r, h, k.go)
  BY <1>11, <1>17, <1>22 DEF Continues
<1>24. Bounded(U.nC, k.go) /\ Yielding(U, k)
  BY <1>14, <1>22 DEF Bounded, Yielding
<1> QED
  BY <1>8, <1>19, <1>20, <1>21, <1>22, <1>23, <1>24, Running0, GoesGood

LEMMA JumpStep == ASSUME Good(c, th, L, ctl), Jump PROVE Good(c', th', L', ctl') \/ ctl'.go = "stop"
<1> DEFINE j == LastTry
           r == c[j]
           g == th[L].frames
           N == Len(c)
           T == Restored(th[L], r)
           below == SubSeq(c, 1, j - 1)
<1>1. ctl.go = "throw" /\ Caught(T, r, below)
  BY DEF Jump
<1>2. /\ j \in 1..N /\ r.at \in {"pcall", "resume"} /\ r.l = L /\ r \in RecordSet /\ r.nC = Count(c, j) /\ r.nC < Limit
      /\ r.at = "resume" => j \in 2..N
  BY LastTryIs
<1>3. r.nC \in Int /\ r.nny \in Int /\ (r.at = "pcall" => r.errf \in Nat /\ r.ci \in Nat)
  BY <1>2, RecordFields DEF Deep
<1>4. T \in ThreadSet /\ Others(T, th[L]) /\ T.frames = g /\ T.nC = r.nC /\ T.nny = th[L].nny
  BY <1>3, Running0, RestoredFields
<1>5. c[N].at \notin {"pcall", "errormsg"}
  <2>1. Continues(c[N], g, ctl.go)
    BY GoodStep
  <2> QED
    BY <1>1, <2>1, Zenon DEF Continues
<1>6. /\ ctl.st = "yield" => th[L].status = "yield" /\ Suspended(th[L]) /\ th[L].nny = 0
      /\ ctl.st # "yield" => th[L].status = "ok"
  <2>1. Yielding(th[L], ctl)
    BY GoodStep
  <2> QED
    BY <1>1, <2>1, Zenon DEF Yielding
<1>7. g \in Seq(FrameSet) /\ Len(g) \in Nat /\ N \in Nat
  BY Running0
<1> HIDE DEF j, T
<1>8. CASE r.at = "pcall"
  <2>1. j \in 1..(N - 1)
    <3>1. j # N
      BY <1>5, <1>8
    <3> QED
      BY <1>2, <1>7, <3>1
  <2>2. \E i \in 1..N : Unyields(c, i, L)
    BY <1>2, <1>8, <2>1, PcallUnyields
  <2>3. th[L].nny # 0
    BY <1>7, <2>2, Running0, StackFacts, NoneUnyields
  <2>4. th[L].status = "ok"
    BY <1>6, <2>3
  <2> DEFINE P == PcallError(T, r)
  <2>5. r.ci \in 0..Len(g)
    <3>1. r.ci <= Len(g)
      BY <1>2, <1>8, StackFacts DEF Depths, Deep
    <3> QED
      BY <1>3, <1>7, <1>8, <3>1
  <2>6. P \in ThreadSet /\ Others(P, T) /\ P.frames = SubSeq(g, 1, r.ci) /\ P.nC = T.nC /\ P.nny = r.nny
    BY <1>3, <1>4, <1>8, <2>5, PcallErrorFields
  <2>7. Len(P.frames) = r.ci /\ \A k \in 1..Len(P.frames) : P.frames[k] = g[k]
    <3> DEFINE d == r.ci
    <3>1. d \in 0..Len(g)
      BY <2>5
    <3> HIDE DEF d
    <3>2. Len(SubSeq(g, 1, d)) = d /\ \A k \in 1..d : SubSeq(g, 1, d)[k] = g[k]
      BY <1>7, <3>1, Cut
    <3> QED
      BY <2>6, <3>2 DEF d
  <2>8. r.nny = Nny(c, L, j - 1)
    <3>1. Counts(c, th, L)
      BY GoodStep DEF State
    <3> QED
      BY <1>2, <1>8, <3>1 DEF Counts
  <2>9. P.status = "ok" /\ P.start = th[L].start /\ P.nC = Count(c, j) /\ P.nny = Nny(c, L, j - 1)
    BY <1>2, <1>4, <2>4, <2>6, <2>8 DEF Others
  <2>10. AfterPcall(P, SubSeq(c, 1, j - 1))
    BY <1>1, <1>8 DEF Caught
  <2> HIDE DEF P
  <2> QED
    BY <1>2, <1>8, <2>4, <2>6, <2>7, <2>9, <2>10, AfterPcallGood
<1>9. CASE r.at = "resume"
  <2>1. j \in 2..N /\ Ypcalls(T.frames)
    BY <1>2, <1>4, <1>9, StackFacts
  <2>2. CASE ctl.st = "yield"
    <3>1. T.status = "yield" /\ Suspended(T)
      BY <1>4, <1>6, <2>2 DEF Others, Suspended
    <3>2. T.status # "ok" /\ FALSE \in BOOLEAN
      BY <3>1
    <3>3. Leave(T, c[j], SubSeq(c, 1, j - 1), FALSE)
      BY <1>1, <1>9, <2>2 DEF Caught
    <3>4. Good(c', th', L', ctl')
      BY <1>2, <1>4, <1>9, <2>1, <3>1, <3>2, <3>3, LeaveGood
    <3> QED
      BY <3>4
  <2>3. CASE ctl.st # "yield" /\ RecoverPoint(T) # 0
    <3>1. Recover(T, Append(SubSeq(c, 1, j - 1), c[j]))
      BY <1>1, <1>9, <2>3 DEF Caught
    <3>2. T.status = "ok" /\ ~T.start
      BY <1>4, <1>6, <2>3, GoodStep DEF Others
    <3>3. T.nC = Count(c, j) /\ T.nC < Limit
      BY <1>2, <1>4
    <3>4. Good(c', th', L', ctl')
      BY <1>2, <1>4, <1>9, <2>1, <2>3, <3>1, <3>2, <3>3, RecoverGood
    <3> QED
      BY <3>4
  <2>4. CASE ctl.st # "yield" /\ RecoverPoint(T) = 0
    <3> DEFINE E == [T EXCEPT !.status = "err"]
    <3>1. E \in ThreadSet /\ E.status = "err" /\ E.frames = T.frames
      BY <1>4 DEF ThreadSet
    <3>2. Leave(E, c[j], SubSeq(c, 1, j - 1), TRUE)
      BY <1>1, <1>9, <2>4 DEF Caught
    <3> HIDE DEF E
    <3>3. E.status # "ok" /\ E.status # "yield" /\ Ypcalls(E.frames) /\ TRUE \in BOOLEAN
      BY <2>1, <3>1
    <3>4. Good(c', th', L', ctl')
      BY <1>2, <1>9, <2>1, <3>1, <3>2, <3>3, LeaveGood
    <3> QED
      BY <3>4
  <2> QED
    BY <2>2, <2>3, <2>4
<1> QED
  BY <1>2, <1>8, <1>9

\* A thread that is resumed is on the C stack above its resumer.
LEMMA ResumedState ==
  ASSUME Good(c, th, L, ctl), ctl.go = "body", Top.kind \in {"resume", "wrap"}, NEW co \in Threads, Resumable(th[co]),
         th[L].nC + 1 < MaxCCalls, NEW T \in ThreadSet, ~T.start, T.nC = th[L].nC + 1, T.nny = 0,
         Ypcalls(T.frames), Shape(T.frames, Len(T.frames) - 1)
  PROVE  /\ ResumeRec(co) \in RecordSet /\ ResumeRec(co).at = "resume" /\ ResumeRec(co).l = co /\ T.nC < Limit
         /\ State(Append(c, ResumeRec(co)), [th EXCEPT ![co] = T], co)
<1> DEFINE r == ResumeRec(co)
<1>1. /\ c[Len(c)].at \notin {"pcall", "errormsg"} /\ th[L].status = "ok"
      /\ Within(c[Len(c)], th[L].frames, Len(th[L].frames), {"resume", "wrap"})
  <2>1. c[Len(c)].at \in {"call", "resume", "unroll"} /\ th[L].status = "ok"
    BY InBody
  <2>2. Within(c[Len(c)], th[L].frames, Len(th[L].frames), {"resume", "wrap"})
    BY InBody
  <2> QED
    BY <2>1, <2>2
<1>2. T.nC < Limit
  BY Running0, Limits
<1>3. ~On(c, co)
  <2>1. On(c, co) => ~th[co].start /\ (co # L => th[co].status = "ok")
    BY GoodStep DEF State, Statuses
  <2> QED
    BY <1>1, <2>1 DEF Resumable
<1>4. th[co] \in ThreadSet /\ th[co].nny \in Int /\ th[L].nC + 1 \in Int
  <2>1. th[co] \in ThreadSet /\ th[L].nC \in Int
    BY Running0
  <2>2. th[co].nny \in Int
    BY <2>1, ThreadFields
  <2> QED
    BY <2>1, <2>2
<1>5. r \in RecordSet /\ r.at = "resume" /\ r.l = co /\ r.from = L /\ r.nC = th[L].nC + 1
  BY <1>4, Running0 DEF ResumeRec, RecordSet
<1> HIDE DEF r
<1>6. State(Append(c, r), [th EXCEPT ![co] = T], co)
  <2>1. T.nC = r.nC /\ r.nC < Limit
    BY <1>2, <1>5
  <2> QED
    BY <1>1, <1>3, <1>5, <2>1, GoodStep, StateResume
<1> QED
  BY <1>2, <1>5, <1>6 DEF r

LEMMA ResumeFails ==
  ASSUME Good(c, th, L, ctl), ctl.go = "body", Top.kind \in {"resume", "wrap"}, Resumer(L, th, c, TRUE)
  PROVE  Good(c', th', L', ctl')
<1> DEFINE g == th[L].frames
           n == Len(g)
           U == Finished(th[L])
           m == n - 1
<1>1. /\ n > 0 /\ Within(c[Len(c)], g, n, {"resume", "wrap"}) /\ RunsAbove(c[Len(c)], g, m)
      /\ th[L].nC < Limit /\ th[L].status = "ok"
  BY InBody
<1>2. U \in ThreadSet /\ Keeps(U, th[L]) /\ U.frames = Pop(g)
  BY <1>1, Running0, FinishedFields
<1>3. n \in Nat /\ m \in Nat /\ Len(Pop(g)) = m /\ m <= n /\ \A k \in 1..Len(Pop(g)) : Pop(g)[k] = g[k]
  BY <1>1, Running0, Popped
<1> HIDE DEF U, m
<1>4. State(c, [th EXCEPT ![L] = U], L)
  <2>1. \A i \in 1..Len(c) : Deep(c[i]) /\ c[i].l = L => c[i].ci < m
    BY <1>1, <1>3, Running0, StackFacts, RunsDeep
  <2>2. \A i \in 1..Len(c) : Deep(c[i]) /\ c[i].l = L => c[i].ci <= Len(U.frames)
    BY <1>2, <1>3, <2>1, StackFacts
  <2>3. Len(U.frames) <= Len(th[L].frames) /\ \A k \in 1..Len(U.frames) : U.frames[k] = th[L].frames[k]
    BY <1>2, <1>3
  <2> QED
    BY <1>2, <2>2, <2>3, GoodStep, StatePop
<1> QED
  BY <1>1, <1>4, Running0, ResumerGood DEF U

LEMMA StartGood ==
  ASSUME Good(c, th, L, ctl), ctl.go = "body", Top.kind \in {"resume", "wrap"}, NEW co \in Threads, Resumable(th[co]),
         th[L].nC + 1 < MaxCCalls, th[co].status # "yield", Start(co, Running(th[co], th[L].nC + 1))
  PROVE  Good(c', th', L', ctl')
<1> DEFINE V == Running(th[co], th[L].nC + 1)
           f == Frame("lua", TRUE)
           T == Push(V, f)
           r == ResumeRec(co)
<1>1. th' = [th EXCEPT ![co] = T] /\ L' = co /\ c' = Append(c, r) /\ ctl' = Run
  <2>1. Run.go # "unroll"
    BY Controls
  <2> QED
    BY <2>1 DEF Start, Switch
<1>2. th[co] \in ThreadSet /\ th[co].frames = <<>> /\ th[L].nC + 1 \in Int
  BY Running0 DEF Resumable
<1>3. /\ V \in ThreadSet /\ V.frames = <<>> /\ V.nC = th[L].nC + 1 /\ V.nny = 0 /\ V.status = "ok" /\ V.start = FALSE
  BY <1>2, RunningFields
<1>4. f \in FrameSet /\ f.kind = "lua" /\ f.fresh = TRUE /\ f.ypcall = FALSE
  BY FrameFields DEF Kinds
<1> HIDE DEF V, f
<1>5. T \in ThreadSet /\ Keeps(T, V) /\ T.frames = Append(V.frames, f)
  <2>1. 0 \in Int
    OBVIOUS
  <2> QED
    BY <1>3, <1>4, <2>1, PushFields
<1> HIDE DEF T
<1>6. T.frames \in Seq(FrameSet) /\ Len(T.frames) = 1 /\ T.frames[1] = f
  <2>1. Len(V.frames) = 0 /\ V.frames \in Seq(FrameSet)
    BY <1>3
  <2> QED
    BY <1>4, <1>5, <2>1, Pushed
<1>7. Ypcalls(T.frames) /\ Shape(T.frames, Len(T.frames) - 1)
  BY <1>4, <1>6 DEF Ypcalls, Shape
<1>8. ~T.start /\ T.status = "ok" /\ T.nC = th[L].nC + 1 /\ T.nny = 0
  BY <1>3, <1>5 DEF Keeps, Others
<1>9. r \in RecordSet /\ r.at = "resume" /\ T.nC < Limit /\ State(Append(c, r), [th EXCEPT ![co] = T], co)
  BY <1>5, <1>7, <1>8, ResumedState
<1> HIDE DEF r
<1>10. Append(c, r)[Len(Append(c, r))] = r
  BY <1>9, Running0, Grown
<1>11. RunsAbove(r, T.frames, Len(T.frames))
  <2> DEFINE z == 0
  <2>1. z \in Nat /\ z + 1 = 1 /\ z = 0
    OBVIOUS
  <2> HIDE DEF z
  <2>2. /\ Len(T.frames) = z + 1 /\ T.frames[z + 1].kind = "lua" /\ T.frames[z + 1].fresh
        /\ r.at \in {"call", "resume", "unroll"} /\ (r.at = "call" => r.ci = z) /\ (r.at = "resume" => z = 0)
    BY <1>4, <1>6, <1>9, <2>1
  <2>3. RunsAbove(r, T.frames, z + 1)
    BY <1>6, <2>1, <2>2, RunsOne
  <2> QED
    BY <2>2, <2>3
<1>12. Run \in CtlSet /\ Continues(r, T.frames, Run.go)
  BY <1>11, Controls DEF Continues
<1>13. Bounded(T.nC, Run.go) /\ Yielding(T, Run)
  BY <1>8, <1>9, Controls DEF Bounded, Yielding
<1>14. th'[co] = T
  BY <1>1, Running0
<1> QED
  BY <1>1, <1>9, <1>10, <1>12, <1>13, <1>14 DEF Good

LEMMA ContinueGood ==
  ASSUME Good(c, th, L, ctl), ctl.go = "body", Top.kind \in {"resume", "wrap"}, NEW co \in Threads, Resumable(th[co]),
         th[L].nC + 1 < MaxCCalls, th[co].status = "yield", Continue(co, Running(th[co], th[L].nC + 1))
  PROVE  Good(c', th', L', ctl')
<1> DEFINE V == Running(th[co], th[L].nC + 1)
           T == [V EXCEPT !.frames = Pop(@)]
           r == ResumeRec(co)
           u == UnrollRec(co)
           s == Append(c, r)
           k == Ctl("unroll", "ok", "")
           g == th[co].frames
<1>1. k \in CtlSet /\ k.go = "unroll" /\ k.st = "ok"
  BY Controls
<1>2. th' = [th EXCEPT ![co] = T] /\ L' = co /\ c' = Append(s, u) /\ ctl' = k
  BY <1>1 DEF Continue, Switch
<1> HIDE DEF k
<1>3. th[co] \in ThreadSet /\ g \in Seq(FrameSet) /\ Len(g) \in Nat /\ th[L].nC + 1 \in Int
  <2>1. th[co] \in ThreadSet /\ th[L].nC + 1 \in Int
    BY Running0
  <2> QED
    BY <2>1, ThreadFields
<1>4. Suspended(th[co])
  <2>1. On(c, co) => (co # L => th[co].status = "ok")
    BY GoodStep DEF State, Statuses
  <2>2. ~On(c, co) => Suspended(th[co])
    BY GoodStep DEF State, Statuses
  <2>3. th[L].status = "ok"
    BY InBody
  <2> QED
    BY <2>1, <2>2, <2>3
<1>5. /\ V \in ThreadSet /\ V.frames = g /\ V.nC = th[L].nC + 1 /\ V.nny = 0 /\ V.status = "ok" /\ V.start = FALSE
  BY <1>3, RunningFields
<1> HIDE DEF V
<1>6. Len(g) > 0 /\ Shape(g, Len(g) - 1)
  BY <1>4 DEF Suspended
<1>7. T \in ThreadSet /\ Keeps(T, V) /\ T.frames = Pop(g)
  BY <1>5, <1>6, PopFields
<1> HIDE DEF T
<1>8. T.frames \in Seq(FrameSet) /\ Len(T.frames) = Len(g) - 1 /\ Len(T.frames) \in Nat /\ \A i \in 1..Len(T.frames) : T.frames[i] = g[i]
  BY <1>3, <1>6, <1>7, Popped
<1>9. Shape(T.frames, Len(T.frames)) /\ Shape(T.frames, Len(T.frames) - 1)
  <2>1. Shape(T.frames, Len(T.frames))
    BY <1>6, <1>8 DEF Shape
  <2>2. \A i \in 1..(Len(T.frames) - 1) : i \in 1..Len(T.frames)
    BY <1>8
  <2> QED
    BY <2>1, <2>2 DEF Shape
<1>10. Ypcalls(T.frames)
  <2>1. Ypcalls(g)
    BY GoodStep DEF State, Stacks
  <2>2. Len(T.frames) <= Len(g)
    BY <1>3, <1>8
  <2> QED
    BY <1>3, <1>8, <2>1, <2>2, FramesCut
<1>11. ~T.start /\ T.status = "ok" /\ T.nC = th[L].nC + 1 /\ T.nny = 0
  BY <1>5, <1>7 DEF Keeps, Others
<1>12. r \in RecordSet /\ r.at = "resume" /\ r.l = co /\ T.nC < Limit /\ State(s, [th EXCEPT ![co] = T], co)
  BY <1>7, <1>9, <1>10, <1>11, ResumedState
<1> HIDE DEF r
<1>13. s[Len(s)] = r /\ s \in Seq(RecordSet)
  BY <1>12, Running0, Grown
<1>14. u \in RecordSet /\ u.at = "unroll" /\ u.l = co
  BY DEF UnrollRec, RecordSet
<1> HIDE DEF s, u
<1>15. State(Append(s, u), [th EXCEPT ![co] = T], co)
  <2> DEFINE ths == [th EXCEPT ![co] = T]
  <2>1. ths[co] = T /\ [ths EXCEPT ![co] = T] = ths
    BY <1>7, Running0
  <2>2. State(s, ths, co)
    BY <1>12
  <2> HIDE DEF ths
  <2>3. FollowsAt(s[Len(s)], u) /\ WaitsAt(s[Len(s)], u, ths) /\ ~Deep(u)
    BY <1>12, <1>13, <1>14 DEF FollowsAt, WaitsAt, Deep
  <2>4. T.nC \in Int /\ T.nny \in Int
    BY <1>7, ThreadFields
  <2>5. T.nC = ths[co].nC + (IF u.at = "call" THEN 1 ELSE 0) /\ T.nny = ths[co].nny + (IF u.at = "call" /\ u.noyield THEN 1 ELSE 0)
    BY <1>14, <2>1, <2>4
  <2>6. u.at # "resume" /\ u.at # "pcall" /\ T.frames = ths[co].frames
    BY <1>14, <2>1
  <2>7. State(Append(s, u), [ths EXCEPT ![co] = T], co)
    BY <1>7, <1>11, <1>14, <2>2, <2>3, <2>5, <2>6, StateGrow
  <2> QED
    BY <2>1, <2>7 DEF ths
<1>16. Append(s, u)[Len(Append(s, u))] = u
  BY <1>13, <1>14, Grown
<1>17. Continues(u, T.frames, k.go)
  BY <1>1, <1>9, <1>14 DEF Continues
<1>18. Bounded(T.nC, k.go) /\ Yielding(T, k)
  BY <1>1, <1>11, <1>12 DEF Bounded, Yielding
<1>19. th'[co] = T
  BY <1>2, Running0
<1> QED
  BY <1>1, <1>2, <1>15, <1>16, <1>17, <1>18, <1>19 DEF Good

LEMMA ResumeStep == ASSUME Good(c, th, L, ctl), NEW co \in Threads, Resume(co) PROVE Good(c', th', L', ctl')
<1>1. ctl.go = "body" /\ Top.kind \in {"resume", "wrap"}
  BY DEF Resume
<1>2. CASE ~Resumable(th[co]) \/ th[L].nC + 1 >= MaxCCalls
  BY <1>1, <1>2, ResumeFails DEF Resume
<1>3. CASE ~(~Resumable(th[co]) \/ th[L].nC + 1 >= MaxCCalls)
  <2>1. Resumable(th[co]) /\ th[L].nC + 1 < MaxCCalls
    <3>1. ~(th[L].nC + 1 >= MaxCCalls) => th[L].nC + 1 < MaxCCalls
      BY Running0, Limits
    <3> QED
      BY <1>3, <3>1
  <2>2. CASE th[co].status = "yield"
    <3>1. Continue(co, Running(th[co], th[L].nC + 1))
      BY <1>3, <2>2 DEF Resume
    <3> QED
      BY <1>1, <2>1, <2>2, <3>1, ContinueGood
  <2>3. CASE th[co].status # "yield"
    <3>1. Start(co, Running(th[co], th[L].nC + 1))
      BY <1>3, <2>3 DEF Resume
    <3> QED
      BY <1>1, <2>1, <2>3, <3>1, StartGood
  <2> QED
    BY <2>2, <2>3
<1> QED
  BY <1>2, <1>3

\* The host calls the first function in a protected call.
LEMMA InitGood == ASSUME ThreadsInit PROVE Good(c, th, L, ctl)
<1> DEFINE W == NewThread(1)
           M == [W EXCEPT !.start = FALSE]
           r == PcallRec(th["main"])
<1>1. /\ "main" \in Threads /\ L = "main" /\ c = <<r>> /\ ctl = Call(TRUE)
      /\ th = [t \in Threads |-> IF t = "main" THEN M ELSE W]
  BY DEF ThreadsInit, Threads
<1>2. W \in ThreadSet /\ W.frames = <<>> /\ W.status = "ok" /\ W.nny = 1 /\ W.nC = 0 /\ W.start = TRUE
  <2> DEFINE e == <<>>
  <2>1. e \in Seq(FrameSet) /\ BasicStack \in Int
    BY ThreadsAssumption
  <2>2. W = [status |-> "ok", frames |-> e, start |-> TRUE, nny |-> 1, nC |-> 0, errf |-> 0, size |-> BasicStack]
    BY DEF NewThread
  <2> HIDE DEF e, W
  <2>3. W \in ThreadSet /\ W.frames = e /\ W.status = "ok" /\ W.nny = 1 /\ W.nC = 0 /\ W.start = TRUE
    BY <2>1, <2>2 DEF ThreadSet
  <2> QED
    BY <2>3 DEF e
<1> HIDE DEF W
<1>3. M \in ThreadSet /\ M.frames = <<>> /\ M.status = "ok" /\ M.nny = 1 /\ M.nC = 0 /\ M.start = FALSE
  BY <1>2 DEF ThreadSet
<1> HIDE DEF M
<1>4. th \in [Threads -> ThreadSet] /\ th["main"] = M
  BY <1>1, <1>2, <1>3
<1>5. \A t \in Threads : th[t].frames = <<>> /\ th[t].status = "ok" /\ (th[t].start <=> t # "main")
  BY <1>1, <1>2, <1>3
<1>6. r \in RecordSet /\ r.at = "pcall" /\ r.l = "main" /\ r.ci = 0 /\ r.nC = 0 /\ r.nny = 1
  <2>1. th["main"].errf \in Nat /\ Len(th["main"].frames) = 0
    BY <1>1, <1>4, <1>5, ThreadFields
  <2> QED
    BY <1>1, <1>3, <1>4, <2>1 DEF PcallRec, RecordSet
<1> HIDE DEF r
<1>7. c \in Seq(RecordSet) /\ Len(c) = 1 /\ c[1] = r /\ \A i \in 1..Len(c) : i = 1
  BY <1>1, <1>6
<1>8. Len(th["main"].frames) = 0 /\ \A t \in Threads : Len(th[t].frames) = 0
  BY <1>1, <1>5
<1>9. Segments(c, L)
  BY <1>1, <1>6, <1>7 DEF Segments
<1>10. Linked(c, th)
  BY <1>7 DEF Linked
<1>11. Depths(c, th) /\ NoYpcalls(c, th)
  <2>1. Depths(c, th)
    BY <1>6, <1>7, <1>8 DEF Depths
  <2>2. NoYpcalls(c, th)
    BY <1>6, <1>7, <1>8 DEF NoYpcalls
  <2> QED
    BY <2>1, <2>2
<1>12. \A t \in Threads : Ypcalls(th[t].frames) /\ Covers(c, Len(c), th[t].frames, t)
  BY <1>8 DEF Ypcalls, Covers
<1>13. Stacks(c, th, L)
  BY <1>9, <1>10, <1>11, <1>12 DEF Stacks
<1>14. \A i \in 0..1 : Count(c, i) = 0 /\ Nny(c, "main", i) = 1
  <2> SUFFICES ASSUME NEW i \in 0..1 PROVE Count(c, i) = 0 /\ Nny(c, "main", i) = 1
    OBVIOUS
  <2>1. {k \in 1..i : c[k].at \in {"call", "resume"}} = {} /\ {k \in 1..i : Unyields(c, k, "main")} = {}
    BY <1>6, <1>7 DEF Unyields
  <2> DEFINE n == Cardinality({k \in 1..i : Unyields(c, k, "main")})
  <2>2. Count(c, i) = 0 /\ n = 0
    BY <2>1, FS_EmptySet DEF Count
  <2>3. Nny(c, "main", i) = n + 1
    BY DEF Nny
  <2> HIDE DEF n
  <2> QED
    BY <2>2, <2>3
<1>15. Counts(c, th, L)
  <2>1. 0 \in 0..1 /\ 1 \in 0..1 /\ 1 - 1 = 0
    OBVIOUS
  <2>2. c[1].nC = Count(c, 1) /\ c[1].nny = Nny(c, "main", 1 - 1)
    BY <1>6, <1>7, <1>14, <2>1
  <2>3. th[L].nC = Count(c, 1) /\ th[L].nny = Nny(c, "main", 1)
    BY <1>1, <1>3, <1>4, <1>14, <2>1
  <2>4. 0 < Limit
    BY Limits
  <2> QED
    BY <1>1, <1>6, <1>7, <2>2, <2>3, <2>4 DEF Counts
<1>16. Statuses(c, th, L)
  <2>1. \A t : On(c, t) <=> t = "main"
    BY <1>6, <1>7 DEF On
  <2> QED
    BY <1>1, <1>5, <2>1 DEF Statuses
<1>17. State(c, th, L)
  BY <1>1, <1>4, <1>7, <1>13, <1>15, <1>16 DEF State
<1>18. ctl \in CtlSet /\ ctl.go = "callnoyield" /\ ctl.st = "ok"
  <2>1. TRUE \in BOOLEAN
    OBVIOUS
  <2> QED
    BY <1>1, <2>1, Controls
<1>19. c[Len(c)] = r /\ th[L] = M
  BY <1>1, <1>4, <1>7
<1>20. Continues(r, M.frames, ctl.go)
  BY <1>4, <1>6, <1>8, <1>18 DEF Continues
<1>21. Bounded(M.nC, ctl.go) /\ Yielding(M, ctl)
  BY <1>3, <1>18, Limits DEF Bounded, Yielding
<1> QED
  BY <1>17, <1>18, <1>19, <1>20, <1>21 DEF Good

LEMMA StepGood == ASSUME Good(c, th, L, ctl), Going, [ThreadsNext]_threadVars PROVE Good(c', th', L', ctl') \/ ctl'.go = "stop"
<1>1. CASE ThreadsNext
  BY <1>1, DoCallStep, ErrorMsgStep, ReturnedStep, PcallStep, YieldStep, UnrollStep, TryEndsStep, JumpStep,
     CallFunctionStep, ErrorStep, CallBackStep, ReturnStep, ResumeStep, Zenon DEF ThreadsNext
<1>2. CASE UNCHANGED threadVars
  BY <1>2 DEF threadVars
<1> QED
  BY <1>1, <1>2

\* After the end, nothing happens.
LEMMA StopsForGood == ASSUME ~Going, [ThreadsNext]_threadVars PROVE ~Going'
<1>1. ctl.go = "stop"
  BY DEF Going
<1>2. ~ThreadsNext
  BY <1>1 DEF ThreadsNext, DoCall, ErrorMsg, Returned, Pcall, Yield, Unroll, TryEnds, Jump, CallFunction, Error, CallBack, Return, Resume
<1> QED
  BY <1>1, <1>2 DEF threadVars, Going

LEMMA GoodCounters == ASSUME Good(c, th, L, ctl) PROVE CountersMatch
<1> DEFINE N == Len(c)
           a == Cardinality(Unyieldable(L))
           b == Cardinality({k \in 1..N : Unyields(c, k, L)})
<1>1. DOMAIN c = 1..N
  BY Running0
<1>2. Pending({"call", "resume"}) = {k \in 1..N : c[k].at \in {"call", "resume"}}
  BY <1>1 DEF Pending
<1>3. Unyieldable(L) = {k \in 1..N : Unyields(c, k, L)}
  BY <1>1, Zenon DEF Unyieldable, Pending, Unyields
<1>4. th[L].nC = Cardinality(Pending({"call", "resume"}))
  BY <1>2, StackFacts DEF Count
<1>5. th[L].nC <= MaxCCalls + CCallsExtra
  <2>1. Bounded(th[L].nC, ctl.go) /\ th[L].nC \in Int /\ Limit \in Nat
    BY GoodStep, Running0, Limits
  <2>2. th[L].nC <= Limit
    BY <2>1 DEF Bounded
  <2> QED
    BY <2>2 DEF Limit
<1>6. th[L].nny = a + (IF L = "main" THEN 1 ELSE 0)
  <2>1. th[L].nny = b + (IF L = "main" THEN 1 ELSE 0)
    BY StackFacts DEF Nny
  <2>2. a = b
    BY <1>3
  <2> HIDE DEF a, b
  <2> QED
    BY <2>1, <2>2
<1> QED
  BY <1>4, <1>5, <1>6 DEF CountersMatch

\* A thread is "normal" if it waits for one it resumed.
LEMMA NormalResumed ==
  ASSUME Good(c, th, L, ctl), NEW t \in Threads, t # L
  PROVE  t \in Resumers <=> th[t].status = "ok" /\ th[t].frames # <<>>
<1>1. Statuses(c, th, L)
  BY GoodStep DEF State
<1>2. DOMAIN c = 1..Len(c) /\ Len(c) \in Nat
  BY Running0
<1>3. ASSUME t \in Resumers PROVE th[t].status = "ok" /\ th[t].frames # <<>>
  <2>1. PICK i \in 1..Len(c) : c[i].at = "resume" /\ c[i].from = t
    BY <1>2, <1>3 DEF Resumers, Pending
  <2>2. c[1].at = "pcall"
    BY StackFacts DEF Segments
  <2>3. i \in 2..Len(c) /\ i - 1 \in 1..Len(c)
    <3>1. i # 1
      BY <2>1, <2>2
    <3> QED
      BY <1>2, <3>1
  <2>4. c[i - 1].l = t
    BY <2>1, <2>3, StackFacts DEF Segments
  <2>5. On(c, t)
    BY <2>3, <2>4 DEF On
  <2>6. Within(c[i - 1], th[t].frames, Len(th[t].frames), {"resume", "wrap"})
    BY <2>1, <2>3, StackFacts DEF Linked, WaitsAt
  <2>7. Len(th[t].frames) # 0
    BY <2>6 DEF Within
  <2>8. th[t].frames # <<>>
    BY <2>7
  <2> QED
    BY <1>1, <2>5, <2>8 DEF Statuses
<1>4. ASSUME th[t].status = "ok", th[t].frames # <<>> PROVE t \in Resumers
  <2>1. On(c, t)
    BY <1>1, <1>4 DEF Statuses
  <2>2. PICK i \in 1..Len(c) : c[i].l = t
    BY <2>1 DEF On
  <2>3. PICK j \in 2..Len(c) : c[j].at = "resume" /\ c[j].from = t
    BY <2>2, StackFacts DEF Segments
  <2>4. j \in DOMAIN c
    BY <1>2, <2>3
  <2> QED
    BY <2>3, <2>4 DEF Resumers, Pending
<1> QED
  BY <1>3, <1>4

LEMMA GoodSuspended == ASSUME Good(c, th, L, ctl) PROVE SuspendedCanGoOn
<1> SUFFICES ASSUME NEW t \in Threads
             PROVE  LET F == th[t].frames n == Len(th[t].frames) IN
                    /\ th[t].status = "yield" =>
                         /\ n > 0 /\ F[n].kind = "yield"
                         /\ \A i \in 1..(n - 1) : F[i].kind = "lua" \/ (F[i].kind \in Protecting /\ F[i].ypcall)
                    /\ t # L => (CoStatus(t) = "suspended") = Resumable(th[t]) /\ (CoStatus(t) = "normal") = (t \in Resumers)
  BY DEF SuspendedCanGoOn
<1> DEFINE F == th[t].frames
           n == Len(F)
<1>1. Statuses(c, th, L) /\ Ypcalls(F) /\ th[t] \in ThreadSet /\ n \in Nat
  <2>1. Statuses(c, th, L) /\ Ypcalls(F) /\ th[t] \in ThreadSet
    BY GoodStep, Running0 DEF State, Stacks
  <2> QED
    BY <2>1, ThreadFields
<1>2. ASSUME th[t].status = "yield" PROVE Suspended(th[t])
  <2>1. On(c, t) => t = L
    BY <1>1, <1>2 DEF Statuses
  <2>2. ~On(c, t) => Suspended(th[t])
    BY <1>1, <1>2 DEF Statuses
  <2>3. t = L => Suspended(th[t])
    <3>1. Yielding(th[L], ctl)
      BY GoodStep
    <3> QED
      BY <1>2, <3>1 DEF Yielding
  <2> QED
    BY <2>1, <2>2, <2>3
<1>3. ASSUME th[t].status = "yield"
      PROVE  /\ n > 0 /\ F[n].kind = "yield"
             /\ \A i \in 1..(n - 1) : F[i].kind = "lua" \/ (F[i].kind \in Protecting /\ F[i].ypcall)
  <2>1. n > 0 /\ F[n].kind = "yield" /\ \A i \in 1..(n - 1) : F[i].kind = "lua" \/ F[i].ypcall
    BY <1>2, <1>3 DEF Suspended, Shape, Plain
  <2>2. \A i \in 1..(n - 1) : i \in 1..n
    BY <1>1
  <2>3. \A i \in 1..n : F[i].ypcall => F[i].kind \in Protecting
    BY <1>1 DEF Ypcalls
  <2> HIDE DEF n, F
  <2> QED
    BY <2>1, <2>2, <2>3, Zenon
<1>4. ASSUME t # L PROVE CoStatus(t) = "suspended" <=> Resumable(th[t])
  BY <1>4 DEF CoStatus, Resumable
<1>5. ASSUME t # L PROVE CoStatus(t) = "normal" <=> t \in Resumers
  <2>1. CoStatus(t) = "normal" <=> th[t].status = "ok" /\ th[t].frames # <<>>
    BY <1>5 DEF CoStatus
  <2> QED
    BY <1>5, <2>1, NormalResumed
<1>6. t # L => (CoStatus(t) = "suspended") = Resumable(th[t])
  BY <1>4 DEF Resumable
<1>7. t # L => (CoStatus(t) = "normal") = (t \in Resumers)
  BY <1>5
<1> QED
  BY <1>3, <1>6, <1>7, Zenon

(***************************************************************************)
(* Whatever functions of a Lua state and its coroutines do, in any number  *)
(* and to any depth: nCcalls is the number of calls on the C stack and     *)
(* keeps its limit, nny the number of those that cannot be left by a       *)
(* yield, and each suspended thread can be continued.                      *)
(***************************************************************************)
THEOREM CallsStayBalanced == ThreadsSpec => []CallsBalanced
<1>1. ThreadsInit => IInv
  BY InitGood DEF IInv
<1>2. IInv /\ [ThreadsNext]_threadVars => IInv'
  <2>1. CASE Going
    BY <2>1, StepGood DEF IInv, Going
  <2>2. CASE ~Going
    BY <2>2, StopsForGood DEF IInv
  <2> QED
    BY <2>1, <2>2
<1>3. IInv => CallsBalanced
  <2>1. CASE Going
    BY <2>1, GoodCounters, GoodSuspended DEF IInv, CallsBalanced
  <2>2. CASE ~Going
    BY <2>2 DEF CallsBalanced, CountersMatch, SuspendedCanGoOn
  <2> QED
    BY <2>1, <2>2
<1> QED
  BY <1>1, <1>2, <1>3, PTL DEF ThreadsSpec
-----------------------------------------------------------------------------
(* Errors get to the innermost pcall: each pcall or xpcall of a thread is  *)
(* protected by luaD_pcall or by the resume of the thread, and the handler *)
(* is that of the innermost one, or the one kept for after it.             *)

HandlerAt(g, n) ==
  LET m == Highest({k \in 1..n : g[k].kind \in Protecting}) IN IF m # 0 /\ g[m].kind = "xpcall" THEN m ELSE 0
Pcalls(s) == {s[i] : i \in {j \in 1..Len(s) : s[j].at = "pcall"}}
Protects(P, t, k) == \E r \in P : r.l = t /\ r.ci = k

\* The frames of the thread t up to n, with the calls of luaD_pcall in P.
Settled(P, T, t, n) ==
  /\ T.errf = HandlerAt(T.frames, n)
  /\ \A k \in 1..n : T.frames[k].kind \in Protecting => T.frames[k].ypcall \/ Protects(P, t, k)
  /\ \A k \in 1..n : T.frames[k].ypcall => T.frames[k].old = HandlerAt(T.frames, k - 1)
Upto(T, w) == IF w THEN Len(T.frames) - 1 ELSE Len(T.frames)
Handled(P, ths, l, w) ==
  /\ \A t \in Threads : ths[t].status # "err" => Settled(P, ths[t], t, Upto(ths[t], t = l /\ w))
  /\ \A r \in P : r.errf = HandlerAt(ths[r.l].frames, r.ci - 1)
Handles == Handled(Pcalls(c), th, L, Waiting)

LEMMA HighestAt ==
  ASSUME NEW n \in Nat, NEW S, S \subseteq 1..n, NEW i \in S, \A j \in S : j <= i
  PROVE  Highest(S) = i
<1>1. Highest(S) \in S /\ \A j \in S : j <= Highest(S)
  BY HighestIs
<1> DEFINE m == Highest(S)
<1> HIDE DEF m
<1>2. m \in S /\ \A j \in S : j <= m
  BY <1>1 DEF m
<1>3. m <= i /\ i <= m /\ m \in Nat /\ i \in Nat
  BY <1>2
<1>4. m = i
  BY <1>3
<1> QED
  BY <1>4 DEF m

LEMMA HandlerSame ==
  ASSUME NEW g, NEW f, NEW n \in Int, \A k \in 1..n : f[k].kind = g[k].kind
  PROVE  HandlerAt(f, n) = HandlerAt(g, n)
<1> DEFINE S(h) == {k \in 1..n : h[k].kind \in Protecting}
<1>1. S(f) = S(g)
  OBVIOUS
<1>2. CASE S(g) = {}
  <2>1. Highest(S(g)) = 0 /\ Highest(S(f)) = 0
    BY <1>1, <1>2 DEF Highest
  <2> QED
    BY <2>1 DEF HandlerAt
<1>3. CASE S(g) # {}
  <2> DEFINE m == Highest(S(g))
  <2>1. n \in Nat
    BY <1>3
  <2>2. m \in S(g)
    <3>1. S(g) \subseteq 1..n
      OBVIOUS
    <3> HIDE DEF S
    <3> QED
      BY <1>3, <2>1, <3>1, HighestIs
  <2>3. m \in 1..n
    BY <2>2
  <2>4. HandlerAt(g, n) = (IF m # 0 /\ g[m].kind = "xpcall" THEN m ELSE 0)
    BY DEF HandlerAt
  <2>5. HandlerAt(f, n) = (IF m # 0 /\ f[m].kind = "xpcall" THEN m ELSE 0)
    <3>1. HandlerAt(f, n) = (IF Highest(S(f)) # 0 /\ f[Highest(S(f))].kind = "xpcall" THEN Highest(S(f)) ELSE 0)
      BY DEF HandlerAt
    <3> HIDE DEF S
    <3> QED
      BY <1>1, <3>1
  <2> HIDE DEF m
  <2> QED
    BY <2>3, <2>4, <2>5
<1> QED
  BY <1>2, <1>3

LEMMA HandlerNone == ASSUME NEW g, NEW n \in Int, n <= 0 PROVE HandlerAt(g, n) = 0
<1>1. {k \in 1..n : g[k].kind \in Protecting} = {}
  OBVIOUS
<1> QED
  BY <1>1 DEF HandlerAt, Highest

LEMMA HandlerNext ==
  ASSUME NEW g, NEW n \in Nat
  PROVE  HandlerAt(g, n + 1) = IF g[n + 1].kind \in Protecting THEN IF g[n + 1].kind = "xpcall" THEN n + 1 ELSE 0
                               ELSE HandlerAt(g, n)
<1> DEFINE S(i) == {k \in 1..i : g[k].kind \in Protecting}
<1>1. CASE g[n + 1].kind \in Protecting
  <2> DEFINE m == n + 1
  <2>1. m \in Nat /\ m # 0 /\ S(m) \subseteq 1..m /\ m \in S(m) /\ \A j \in S(m) : j <= m
    BY <1>1
  <2>2. HandlerAt(g, m) = (IF Highest(S(m)) # 0 /\ g[Highest(S(m))].kind = "xpcall" THEN Highest(S(m)) ELSE 0)
    BY DEF HandlerAt
  <2> HIDE DEF m, S
  <2>3. Highest(S(m)) = m
    BY <2>1, HighestAt
  <2>4. HandlerAt(g, m) = (IF g[m].kind = "xpcall" THEN m ELSE 0)
    BY <2>1, <2>2, <2>3
  <2> QED
    BY <1>1, <2>4 DEF m
<1>2. CASE g[n + 1].kind \notin Protecting
  <2>1. S(n + 1) = S(n)
    BY <1>2
  <2> QED
    BY <1>2, <2>1 DEF HandlerAt
<1> QED
  BY <1>1, <1>2

\* Two frames that differ in their fresh flag at most.
Alike(f, g) == f.kind = g.kind /\ f.ypcall = g.ypcall /\ f.old = g.old

\* A thread loses frames above h, with their protected calls.
LEMMA SettledBelow ==
  ASSUME NEW P, NEW Q, NEW T, NEW U, NEW t, NEW n \in Nat, NEW h \in Nat, h <= n, Settled(P, T, t, n),
         \A k \in 1..h : Alike(U.frames[k], T.frames[k]), \A k \in 1..h : Protects(P, t, k) => Protects(Q, t, k),
         U.errf = HandlerAt(T.frames, h)
  PROVE  Settled(Q, U, t, h)
<1> DEFINE f == U.frames
           g == T.frames
<1>1. \A k \in 1..h : k \in 1..n /\ f[k].kind = g[k].kind /\ f[k].ypcall = g[k].ypcall /\ f[k].old = g[k].old
  <2>1. \A k \in 1..h : k \in 1..n
    OBVIOUS
  <2> QED
    BY <2>1, Zenon DEF Alike
<1>2. U.errf = HandlerAt(f, h)
  <2>1. \A k \in 1..h : f[k].kind = g[k].kind
    BY <1>1
  <2> HIDE DEF f, g
  <2>2. HandlerAt(f, h) = HandlerAt(g, h)
    BY <2>1, HandlerSame
  <2> QED
    BY <2>2 DEF f, g
<1>3. \A k \in 1..h : f[k].kind \in Protecting => f[k].ypcall \/ Protects(Q, t, k)
  BY <1>1, Zenon DEF Settled
<1>4. ASSUME NEW k \in 1..h, f[k].ypcall PROVE f[k].old = HandlerAt(f, k - 1)
  <2>1. f[k].old = HandlerAt(g, k - 1)
    BY <1>1, <1>4, Zenon DEF Settled
  <2>2. \A j \in 1..(k - 1) : j \in 1..h
    OBVIOUS
  <2>3. k - 1 \in Int /\ \A j \in 1..(k - 1) : f[j].kind = g[j].kind
    BY <1>1, <2>2
  <2> HIDE DEF f, g
  <2>4. HandlerAt(f, k - 1) = HandlerAt(g, k - 1)
    BY <2>3, HandlerSame
  <2> QED
    BY <2>1, <2>4
<1> QED
  BY <1>2, <1>3, <1>4, Zenon DEF Settled

\* A thread gets a frame, or the protected call of its last one.
LEMMA SettledNext ==
  ASSUME NEW P, NEW Q, NEW T, NEW U, NEW t, NEW n \in Nat, Settled(P, T, t, n),
         \A k \in 1..n : Alike(U.frames[k], T.frames[k]), \A k \in 1..n : Protects(P, t, k) => Protects(Q, t, k),
         NEW f, f = U.frames[n + 1], f.kind \in Protecting => f.ypcall \/ Protects(Q, t, n + 1),
         f.ypcall => f.old = HandlerAt(T.frames, n),
         U.errf = IF f.kind \in Protecting THEN IF f.kind = "xpcall" THEN n + 1 ELSE 0 ELSE HandlerAt(T.frames, n)
  PROVE  Settled(Q, U, t, n + 1)
<1> DEFINE W == [frames |-> U.frames, errf |-> HandlerAt(T.frames, n)]
<1>1. W.frames = U.frames /\ W.errf = HandlerAt(T.frames, n)
  OBVIOUS
<1> HIDE DEF W
<1>2. Settled(Q, W, t, n)
  BY <1>1, SettledBelow
<1>3. HandlerAt(U.frames, n) = HandlerAt(T.frames, n)
  BY HandlerSame DEF Alike
<1>4. U.errf = HandlerAt(U.frames, n + 1)
  BY <1>3, HandlerNext
<1>5. \A k \in 1..(n + 1) : k \in 1..n \/ k = n + 1
  OBVIOUS
<1>6. n + 1 - 1 = n
  OBVIOUS
<1>7. \A k \in 1..(n + 1) : U.frames[k].kind \in Protecting => U.frames[k].ypcall \/ Protects(Q, t, k)
  BY <1>1, <1>2, <1>5, Zenon DEF Settled
<1>8. ASSUME NEW k \in 1..(n + 1), U.frames[k].ypcall PROVE U.frames[k].old = HandlerAt(U.frames, k - 1)
  <2>1. CASE k \in 1..n
    BY <1>1, <1>2, <1>8, <2>1, Zenon DEF Settled
  <2>2. CASE k = n + 1
    <3>1. k - 1 = n
      BY <2>2
    <3> QED
      BY <1>3, <1>8, <2>2, <3>1
  <2> QED
    BY <1>5, <2>1, <2>2
<1> QED
  BY <1>4, <1>7, <1>8, Zenon DEF Settled

\* The handler of a thread after the steps that change no more than its counts.
LEMMA SameErrf ==
  ASSUME NEW T \in ThreadSet, NEW noyield \in BOOLEAN, NEW r, r.noyield \in BOOLEAN, NEW n \in Int
  PROVE  /\ Counted(T, noyield).errf = T.errf /\ UnCounted(T, r).errf = T.errf
         /\ Running(T, n).errf = T.errf /\ [T EXCEPT !.size = n].errf = T.errf
<1>1. Counted(T, noyield).errf = T.errf
  BY DEF Counted, ThreadSet
<1>2. UnCounted(T, r).errf = T.errf
  BY DEF UnCounted, ThreadSet
<1>3. Running(T, n).errf = T.errf
  BY DEF Running, ThreadSet
<1>4. [T EXCEPT !.size = n].errf = T.errf
  BY DEF ThreadSet
<1> QED
  BY <1>1, <1>2, <1>3, <1>4

LEMMA RestoredErrf == ASSUME NEW T \in ThreadSet, NEW r, r.nC \in Int PROVE Restored(T, r).errf = T.errf
BY DEF Restored, ThreadSet

LEMMA PushErrf ==
  ASSUME NEW T \in ThreadSet, NEW f \in FrameSet, NEW n \in Int
  PROVE  Push(T, f).errf = T.errf /\ Push([T EXCEPT !.size = n], f).errf = T.errf
<1> DEFINE g == Append(T.frames, f)
           U == [T EXCEPT !.size = n]
<1>1. Push(T, f) = [T EXCEPT !.frames = g] /\ Push(U, f) = [U EXCEPT !.frames = g]
  BY DEF Push, ThreadSet
<1> HIDE DEF g
<1> QED
  BY <1>1 DEF ThreadSet

LEMMA FinishedErrf ==
  ASSUME NEW T \in ThreadSet
  PROVE  Finished(T).errf = IF Last(T.frames).ypcall THEN Last(T.frames).old ELSE T.errf
<1> DEFINE g == Pop(T.frames)
           e == IF Last(T.frames).ypcall THEN Last(T.frames).old ELSE T.errf
<1>1. Finished(T) = [T EXCEPT !.frames = g, !.errf = e]
  BY DEF Finished, ThreadSet
<1> HIDE DEF g, e
<1>2. Finished(T).errf = e
  BY <1>1 DEF ThreadSet
<1> QED
  BY <1>2 DEF e

LEMMA ShrinkErrf == ASSUME NEW T \in ThreadSet PROVE ShrinkStack(T).errf = T.errf
<1> HIDE DEF GoodSize
<1> QED
  BY DEF ShrinkStack, ThreadSet

LEMMA PcallErrorErrf ==
  ASSUME NEW T \in ThreadSet, NEW r, r.ci \in 0..Len(T.frames), r.nny \in Int, r.errf \in Nat
  PROVE  PcallError(T, r).errf = r.errf
<1> DEFINE g == SubSeq(T.frames, 1, r.ci)
           U == [T EXCEPT !.frames = g, !.nny = r.nny, !.errf = r.errf]
<1>1. g \in Seq(FrameSet)
  BY ThreadFields, Cut
<1>2. PcallError(T, r) = ShrinkStack(U)
  BY DEF PcallError, ThreadSet
<1> HIDE DEF g
<1>3. U \in ThreadSet /\ U.errf = r.errf
  BY <1>1 DEF ThreadSet
<1> HIDE DEF U
<1> QED
  BY <1>2, <1>3, ShrinkErrf

LEMMA RecoveredErrf ==
  ASSUME NEW T \in ThreadSet, NEW i \in 1..Len(T.frames)
  PROVE  Recovered(T, i).errf = T.frames[i].old
<1> DEFINE g == SubSeq(T.frames, 1, i)
           e == T.frames[i].old
           z == 0
           U == [T EXCEPT !.frames = g, !.nny = z, !.errf = e]
<1>1. g \in Seq(FrameSet) /\ e \in Nat /\ z \in Int
  <2>1. i \in 0..Len(T.frames) /\ T.frames[i] \in FrameSet
    BY ThreadFields
  <2> QED
    BY <2>1, ThreadFields, Cut DEF FrameSet
<1>2. Recovered(T, i) = ShrinkStack(U)
  BY DEF Recovered, ThreadSet
<1> HIDE DEF g, e, z
<1>3. U \in ThreadSet /\ U.errf = e
  BY <1>1 DEF ThreadSet
<1> HIDE DEF U
<1>4. Recovered(T, i).errf = e
  BY <1>2, <1>3, ShrinkErrf
<1> QED
  BY <1>4 DEF e

\* The calls of luaD_pcall on the C stack, when it grows and when it is cut.
LEMMA PcallsGrown ==
  ASSUME NEW s \in Seq(RecordSet), NEW r \in RecordSet
  PROVE  Pcalls(Append(s, r)) = Pcalls(s) \cup (IF r.at = "pcall" THEN {r} ELSE {})
<1> DEFINE t == Append(s, r)
<1>1. /\ Len(s) \in Nat /\ Len(t) = Len(s) + 1 /\ t[Len(s) + 1] = r /\ (\A i \in 1..Len(s) : t[i] = s[i])
      /\ \A i \in 1..Len(t) : i \in 1..Len(s) \/ i = Len(s) + 1
  BY Grown
<1> HIDE DEF t
<1>2. Len(s) + 1 \in 1..Len(t) /\ \A i \in 1..Len(s) : i \in 1..Len(t)
  BY <1>1
<1>3. \A x : x \in Pcalls(t) <=> \E i \in 1..Len(t) : t[i].at = "pcall" /\ x = t[i]
  BY Zenon DEF Pcalls
<1>4. \A x : x \in Pcalls(s) <=> \E i \in 1..Len(s) : s[i].at = "pcall" /\ x = s[i]
  BY Zenon DEF Pcalls
<1>5. ASSUME NEW x \in Pcalls(t) PROVE x \in Pcalls(s) \cup (IF r.at = "pcall" THEN {r} ELSE {})
  <2>1. PICK i \in 1..Len(t) : t[i].at = "pcall" /\ x = t[i]
    BY <1>3, <1>5
  <2> QED
    BY <1>1, <1>4, <2>1
<1>6. ASSUME NEW x \in Pcalls(s) PROVE x \in Pcalls(t)
  <2>1. PICK i \in 1..Len(s) : s[i].at = "pcall" /\ x = s[i]
    BY <1>4, <1>6
  <2> QED
    BY <1>1, <1>2, <1>3, <2>1
<1>7. r.at = "pcall" => r \in Pcalls(t)
  BY <1>1, <1>2, <1>3
<1>8. Pcalls(t) = Pcalls(s) \cup (IF r.at = "pcall" THEN {r} ELSE {})
  BY <1>5, <1>6, <1>7
<1> QED
  BY <1>8 DEF t

LEMMA PcallsCut ==
  ASSUME NEW s \in Seq(RecordSet), NEW n \in 0..Len(s)
  PROVE  /\ Pcalls(SubSeq(s, 1, n)) \subseteq Pcalls(s)
         /\ \A r \in Pcalls(s) : r \in Pcalls(SubSeq(s, 1, n)) \/ \E i \in (n + 1)..Len(s) : s[i].at = "pcall" /\ r = s[i]
<1> DEFINE t == SubSeq(s, 1, n)
<1>1. Len(s) \in Nat /\ Len(t) = n /\ n \in Nat /\ \A i \in 1..n : t[i] = s[i] /\ i \in 1..Len(s)
  BY Cut
<1> HIDE DEF t
<1>2. \A x : x \in Pcalls(t) <=> \E i \in 1..n : t[i].at = "pcall" /\ x = t[i]
  BY <1>1, Zenon DEF Pcalls
<1>3. \A x : x \in Pcalls(s) <=> \E i \in 1..Len(s) : s[i].at = "pcall" /\ x = s[i]
  BY Zenon DEF Pcalls
<1>4. ASSUME NEW x \in Pcalls(t) PROVE x \in Pcalls(s)
  BY <1>1, <1>2, <1>3
<1>5. ASSUME NEW x \in Pcalls(s), ~ \E i \in (n + 1)..Len(s) : s[i].at = "pcall" /\ x = s[i] PROVE x \in Pcalls(t)
  <2>1. PICK i \in 1..Len(s) : s[i].at = "pcall" /\ x = s[i]
    BY <1>3, <1>5
  <2>2. i \in 1..n
    BY <1>1, <1>5, <2>1
  <2> QED
    BY <1>1, <1>2, <2>1, <2>2
<1>6. Pcalls(t) \subseteq Pcalls(s)
  BY <1>4
<1> QED
  BY <1>5, <1>6 DEF t

\* The records above one of the running thread are its own.
LEMMA OwnTop ==
  ASSUME NEW s \in Seq(RecordSet), NEW l, Segments(s, l), NEW j \in 1..Len(s), s[j].l = l
  PROVE  \A i \in j..Len(s) : i \in 1..Len(s) /\ s[i].l = l
<1> SUFFICES ASSUME NEW i \in j..Len(s), i # j PROVE i \in 1..Len(s) /\ s[i].l = l
  OBVIOUS
<1>1. Len(s) \in Nat /\ j \in Nat /\ i \in Nat /\ i \in 1..Len(s) /\ j < i /\ Len(s) \in 1..Len(s) /\ j < Len(s)
      /\ \A k \in (j + 1)..i : k \in (j + 1)..Len(s)
  BY LenProperties
<1>2. s[Len(s)].l = s[j].l
  BY DEF Segments
<1>3. \A k \in (j + 1)..Len(s) : s[k].at # "resume"
  BY <1>1, <1>2, Zenon DEF Segments
<1>4. s[j].l = s[i].l
  <2>1. \A k \in (j + 1)..i : s[k].at # "resume"
    BY <1>1, <1>3, Zenon
  <2>2. s[j].l = s[i].l <=> \A k \in (j + 1)..i : s[k].at # "resume"
    BY <1>1, Zenon DEF Segments
  <2> QED
    BY <2>1, <2>2, Zenon
<1> QED
  BY <1>1, <1>4

LEMMA PcallsBack ==
  ASSUME Good(c, th, L, ctl), NEW j \in 1..Len(c), c[j].l = L, NEW Q, Q = Pcalls(SubSeq(c, 1, j - 1))
  PROVE  /\ Q \subseteq Pcalls(c)
         /\ \A t, k : t # L /\ Protects(Pcalls(c), t, k) => Protects(Q, t, k)
         /\ Deep(c[j]) => \A k \in Int : k < c[j].ci /\ Protects(Pcalls(c), L, k) => Protects(Q, L, k)
<1>1. c \in Seq(RecordSet) /\ Len(c) \in Nat /\ j \in Nat /\ j - 1 \in 0..Len(c) /\ j - 1 + 1 = j
  BY Running0
<1>2. Q \subseteq Pcalls(c) /\ \A r \in Pcalls(c) : r \in Q \/ \E i \in j..Len(c) : c[i].at = "pcall" /\ r = c[i]
  <2>1. /\ Q \subseteq Pcalls(c)
        /\ \A r \in Pcalls(c) : r \in Q \/ \E i \in ((j - 1) + 1)..Len(c) : c[i].at = "pcall" /\ r = c[i]
    BY <1>1, PcallsCut
  <2> QED
    BY <1>1, <2>1
<1>3. \A i \in j..Len(c) : i \in 1..Len(c) /\ c[i].l = L
  BY <1>1, StackFacts, OwnTop
<1>4. ASSUME NEW t, NEW k, t # L, Protects(Pcalls(c), t, k) PROVE Protects(Q, t, k)
  <2>1. PICK r \in Pcalls(c) : r.l = t /\ r.ci = k
    BY <1>4 DEF Protects
  <2>2. r \in Q
    BY <1>2, <1>3, <1>4, <2>1
  <2> QED
    BY <2>1, <2>2 DEF Protects
<1>5. ASSUME Deep(c[j]), NEW k \in Int, k < c[j].ci, Protects(Pcalls(c), L, k) PROVE Protects(Q, L, k)
  <2>1. PICK r \in Pcalls(c) : r.l = L /\ r.ci = k
    BY <1>5 DEF Protects
  <2>2. r \in Q
    <3> SUFFICES ASSUME NEW i \in j..Len(c), c[i].at = "pcall", r = c[i] PROVE FALSE
      BY <1>2
    <3>1. i \in 1..Len(c) /\ c[i].l = c[j].l /\ Deep(c[i])
      BY <1>3 DEF Deep
    <3>2. i # j
      BY <1>5, <2>1
    <3>3. j < i
      BY <1>1, <3>2
    <3>4. c[j].ci <= c[i].ci
      BY <1>5, <3>1, <3>3, StackFacts, Zenon DEF Depths
    <3>5. c[j].ci \in Nat /\ c[i].ci = k
      BY <1>5, <2>1, StackFacts
    <3> QED
      BY <1>5, <3>4, <3>5
  <2> QED
    BY <2>1, <2>2 DEF Protects
<1> QED
  BY <1>2, <1>4, <1>5, Zenon

\* Each call of luaD_pcall kept the handler of the frames below it.
LEMMA PcallFacts ==
  ASSUME Good(c, th, L, ctl)
  PROVE  \A r \in Pcalls(c) : r \in RecordSet /\ r.at = "pcall" /\ r.l \in Threads /\ r.ci \in Nat /\ r.ci <= Len(th[r.l].frames)
<1> SUFFICES ASSUME NEW i \in 1..Len(c), c[i].at = "pcall"
             PROVE  c[i] \in RecordSet /\ c[i].l \in Threads /\ c[i].ci \in Nat /\ c[i].ci <= Len(th[c[i].l].frames)
  BY Zenon DEF Pcalls
<1>1. Deep(c[i])
  BY DEF Deep
<1>2. c[i].ci <= Len(th[c[i].l].frames)
  BY <1>1, StackFacts, Zenon DEF Depths
<1> QED
  BY <1>1, <1>2, StackFacts, Zenon

LEMMA HandlesFacts ==
  ASSUME Good(c, th, L, ctl), Handles
  PROVE  /\ Settled(Pcalls(c), th[L], L, Upto(th[L], Waiting))
         /\ \A r \in Pcalls(c) : r.errf = HandlerAt(th[r.l].frames, r.ci - 1)
         /\ th[L].status # "err"
<1>1. th[L].status # "err"
  <2>1. Yielding(th[L], ctl)
    BY GoodStep
  <2> QED
    BY <2>1 DEF Yielding
<1>2. L \in Threads
  BY Running0
<1> QED
  BY <1>1, <1>2, Zenon DEF Handles, Handled, Upto

LEMMA WaitingNext ==
  ASSUME L \in Threads, th \in [Threads -> ThreadSet], NEW T, NEW stack, NEW k, Goes(T, stack, k)
  PROVE  (Waiting <=> ctl.go = "body" /\ Last(th[L].frames).kind \in Protecting)
         /\ (Waiting' <=> k.go = "body" /\ Last(T.frames).kind \in Protecting)
<1>1. th'[L'] = T /\ ctl' = k
  BY DEF Goes
<1> QED
  BY <1>1 DEF Waiting, Top

\* The thread m becomes T, and k runs, with the calls of luaD_pcall in Q.
LEMMA HandledOne ==
  ASSUME NEW ths \in [Threads -> ThreadSet], NEW P, NEW l, NEW w, Handled(P, ths, l, w), NEW m \in Threads, w => l = m,
         NEW T, NEW Q, NEW k, NEW x, x => k = m, T.status # "err" => Settled(Q, T, m, Upto(T, x)),
         \A t, i : t # m /\ Protects(P, t, i) => Protects(Q, t, i),
         \A r \in Q : r.l \in Threads /\ (r.l # m => r \in P),
         \A r \in Q : r.l = m => r.errf = HandlerAt(T.frames, r.ci - 1)
  PROVE  Handled(Q, [ths EXCEPT ![m] = T], k, x)
<1> DEFINE new == [ths EXCEPT ![m] = T]
<1>1. new[m] = T /\ \A t \in Threads : t # m => new[t] = ths[t]
  OBVIOUS
<1> HIDE DEF new
<1>2. ASSUME NEW t \in Threads, new[t].status # "err" PROVE Settled(Q, new[t], t, Upto(new[t], t = k /\ x))
  <2>1. CASE t = m
    <3>1. Upto(T, t = k /\ x) = Upto(T, x)
      BY <2>1, Zenon DEF Upto
    <3>2. Settled(Q, T, m, Upto(T, x))
      BY <1>1, <1>2, <2>1
    <3> QED
      BY <1>1, <2>1, <3>1, <3>2
  <2>2. CASE t # m
    <3>1. new[t] = ths[t]
      BY <1>1, <2>2
    <3> DEFINE n == Len(ths[t].frames)
    <3>2. Upto(ths[t], t = k /\ x) = n /\ Upto(ths[t], t = l /\ w) = n
      BY <2>2, Zenon DEF Upto
    <3> HIDE DEF n
    <3>3. Settled(P, ths[t], t, n)
      BY <1>2, <3>1, <3>2, Zenon DEF Handled
    <3>4. Settled(Q, ths[t], t, n)
      BY <2>2, <3>3, Zenon DEF Settled
    <3> QED
      BY <3>1, <3>2, <3>4
  <2> QED
    BY <2>1, <2>2
<1>3. ASSUME NEW r \in Q PROVE r.errf = HandlerAt(new[r.l].frames, r.ci - 1)
  <2>1. CASE r.l = m
    BY <1>1, <2>1
  <2>2. CASE r.l # m
    <3>1. new[r.l] = ths[r.l] /\ r \in P
      BY <1>1, <2>2
    <3> QED
      BY <3>1, Zenon DEF Handled
  <2> QED
    BY <2>1, <2>2
<1>4. Handled(Q, new, k, x)
  BY <1>2, <1>3, Zenon DEF Handled
<1> QED
  BY <1>4 DEF new

\* The running thread takes a step.
LEMMA GoesHandled ==
  ASSUME L \in Threads, th \in [Threads -> ThreadSet], NEW P, NEW w, Handled(P, th, L, w),
         NEW T, NEW stack, NEW k, Goes(T, stack, k), NEW Q, NEW x, Settled(Q, T, L, Upto(T, x)),
         \A t, i : t # L /\ Protects(P, t, i) => Protects(Q, t, i),
         \A r \in Q : r.l \in Threads /\ (r.l # L => r \in P),
         \A r \in Q : r.l = L => r.errf = HandlerAt(T.frames, r.ci - 1)
  PROVE  Handled(Q, th', L', x)
<1>1. th' = [th EXCEPT ![L] = T] /\ L' = L
  BY DEF Goes
<1>2. Handled(Q, [th EXCEPT ![L] = T], L, x)
  BY HandledOne
<1> QED
  BY <1>1, <1>2

\* A step that leaves the calls of luaD_pcall alone, and the frames up to h.
LEMMA KeepsHandled ==
  ASSUME Good(c, th, L, ctl), Handles, NEW T, NEW stack, NEW k, Goes(T, stack, k), Pcalls(stack) = Pcalls(c),
         Settled(Pcalls(c), T, L, Upto(T, Waiting')),
         NEW h \in Nat, \A i \in 1..h : T.frames[i].kind = th[L].frames[i].kind,
         \A r \in Pcalls(c) : r.l = L => r.ci - 1 <= h
  PROVE  Handles'
<1>1. L \in Threads /\ th \in [Threads -> ThreadSet]
  BY Running0
<1>2. \A r \in Pcalls(c) : r.l \in Threads /\ r.ci \in Nat
  BY PcallFacts
<1>3. ASSUME NEW r \in Pcalls(c), r.l = L PROVE r.errf = HandlerAt(T.frames, r.ci - 1)
  <2> DEFINE n == r.ci - 1
             f == T.frames
             g == th[L].frames
  <2>1. n \in Int /\ \A i \in 1..n : i \in 1..h
    BY <1>2, <1>3
  <2>2. r.errf = HandlerAt(g, n)
    BY <1>3, HandlesFacts
  <2> HIDE DEF n, f, g
  <2>3. \A i \in 1..n : f[i].kind = g[i].kind
    BY <2>1 DEF f, g
  <2>4. HandlerAt(f, n) = HandlerAt(g, n)
    BY <2>1, <2>3, HandlerSame
  <2> QED
    BY <2>2, <2>4 DEF f, n
<1>4. Handled(Pcalls(c), th', L', Waiting')
  BY <1>1, <1>2, <1>3, GoesHandled DEF Handles
<1>5. c' = stack
  BY DEF Goes
<1> QED
  BY <1>4, <1>5 DEF Handles, Pcalls

LEMMA SameHandled ==
  ASSUME Good(c, th, L, ctl), Handles, ~Waiting, NEW T, NEW stack, NEW k, Goes(T, stack, k), Pcalls(stack) = Pcalls(c),
         k.go # "body", T.errf = th[L].errf, Len(T.frames) = Len(th[L].frames),
         \A i \in 1..Len(T.frames) : Alike(T.frames[i], th[L].frames[i])
  PROVE  Handles'
<1> DEFINE n == Len(th[L].frames)
           P == Pcalls(c)
<1>1. L \in Threads /\ th \in [Threads -> ThreadSet] /\ n \in Nat
  BY Running0
<1>2. ~Waiting'
  BY <1>1, WaitingNext
<1>3. Upto(th[L], Waiting) = n /\ Upto(T, Waiting') = n
  BY <1>2 DEF Upto
<1>4. Settled(P, th[L], L, n)
  BY <1>3, HandlesFacts
<1>5. T.errf = HandlerAt(th[L].frames, n)
  BY <1>4 DEF Settled
<1>6. Settled(P, T, L, n)
  <2> HIDE DEF P
  <2>1. \A i \in 1..n : Alike(T.frames[i], th[L].frames[i])
    OBVIOUS
  <2> HIDE DEF n
  <2> QED
    BY <1>1, <1>4, <1>5, <2>1, SettledBelow
<1>7. \A r \in P : r.l = L => r.ci - 1 <= n
  BY PcallFacts, <1>1
<1>8. \A i \in 1..n : T.frames[i].kind = th[L].frames[i].kind
  BY DEF Alike
<1> QED
  BY <1>1, <1>3, <1>6, <1>7, <1>8, KeepsHandled

\* A function is called, or there is no room for it.
LEMMA EnterHandled ==
  ASSUME Good(c, th, L, ctl), Handles, ~Waiting, NEW T \in ThreadSet, T.frames = th[L].frames, T.errf = th[L].errf,
         NEW f \in FrameSet, ~f.ypcall, NEW stack, NEW k, Enter(T, f, stack, k), Pcalls(stack) = Pcalls(c),
         f.kind \in Protecting => k.go = "body"
  PROVE  Handles'
<1> DEFINE g == th[L].frames
           n == Len(g)
           P == Pcalls(c)
<1>1. L \in Threads /\ th \in [Threads -> ThreadSet] /\ n \in Nat /\ g \in Seq(FrameSet)
  BY Running0
<1>2. ASSUME NEW U, U.frames = Append(g, f), U.errf = T.errf, Goes(U, stack, k) PROVE Handles'
  <2>1. /\ Len(U.frames) = n + 1 /\ U.frames[n + 1] = f /\ Last(U.frames) = f
        /\ \A i \in 1..n : U.frames[i] = g[i]
    BY <1>1, <1>2, Pushed DEF Last
  <2>2. Waiting' <=> f.kind \in Protecting
    BY <1>1, <1>2, <2>1, WaitingNext
  <2>3. Settled(P, th[L], L, n)
    BY HandlesFacts DEF Upto
  <2>4. U.errf = HandlerAt(g, n)
    BY <1>2, <2>3 DEF Settled
  <2>5. \A i \in 1..n : Alike(U.frames[i], g[i])
    BY <2>1 DEF Alike
  <2>6. Settled(P, U, L, Upto(U, Waiting'))
    <3>1. CASE f.kind \in Protecting
      <4>1. Upto(U, Waiting') = n
        BY <1>1, <2>1, <2>2, <3>1 DEF Upto
      <4> HIDE DEF n, P
      <4>2. Settled(P, U, L, n)
        BY <1>1, <2>3, <2>4, <2>5, SettledBelow DEF g
      <4> QED
        BY <4>1, <4>2
    <3>2. CASE f.kind \notin Protecting
      <4>1. Upto(U, Waiting') = n + 1
        BY <1>1, <2>1, <2>2, <3>2 DEF Upto
      <4> HIDE DEF n, P
      <4>2. Settled(P, U, L, n + 1)
        BY <1>1, <2>1, <2>3, <2>4, <2>5, <3>2, SettledNext DEF g
      <4> QED
        BY <4>1, <4>2
    <3> QED
      BY <3>1, <3>2
  <2>7. \A r \in P : r.l = L => r.ci - 1 <= n
    BY <1>1, PcallFacts
  <2>8. \A i \in 1..n : U.frames[i].kind = th[L].frames[i].kind
    BY <2>1
  <2> QED
    BY <1>1, <1>2, <2>6, <2>7, <2>8, KeepsHandled
<1>3. ASSUME NEW U, U.frames = g, U.errf = T.errf, NEW k2, Goes(U, stack, k2), k2.go # "body" PROVE Handles'
  <2>1. \A i \in 1..Len(U.frames) : Alike(U.frames[i], th[L].frames[i])
    BY <1>3 DEF Alike
  <2> QED
    BY <1>3, <2>1, SameHandled
<1>4. T.size \in Int /\ GrownSize(T) \in Int /\ ErrorStack \in Int
  BY Sizes
<1>5. Raise.go # "body" /\ Throw("err", "unhandled").go # "body"
  BY DEF Raise, Throw, Ctl
<1>6. /\ Push(T, f).frames = Append(g, f) /\ Push(T, f).errf = T.errf
      /\ Push([T EXCEPT !.size = GrownSize(T)], f).frames = Append(g, f)
      /\ Push([T EXCEPT !.size = GrownSize(T)], f).errf = T.errf
      /\ [T EXCEPT !.size = ErrorStack].frames = g /\ [T EXCEPT !.size = ErrorStack].errf = T.errf
  <2> DEFINE m == GrownSize(T)
  <2>1. m \in Int
    BY <1>4
  <2>2. [T EXCEPT !.size = ErrorStack].frames = g /\ [T EXCEPT !.size = ErrorStack].errf = T.errf
    BY DEF ThreadSet
  <2> HIDE DEF m
  <2>3. Push(T, f).frames = Append(g, f) /\ Push([T EXCEPT !.size = m], f).frames = Append(g, f)
    BY <2>1, PushFields, Zenon
  <2>4. Push(T, f).errf = T.errf /\ Push([T EXCEPT !.size = m], f).errf = T.errf
    BY <2>1, PushErrf, Zenon
  <2> QED
    BY <2>2, <2>3, <2>4, Zenon DEF m
<1>7. \/ Goes(Push(T, f), stack, k)
      \/ Goes(Push([T EXCEPT !.size = GrownSize(T)], f), stack, k)
      \/ Goes([T EXCEPT !.size = ErrorStack], stack, Raise)
      \/ Goes(T, stack, Throw("err", "unhandled"))
  BY Zenon DEF Enter
<1> QED
  BY <1>2, <1>3, <1>5, <1>6, <1>7, Zenon

SameFrames(T, V, n) == \A i \in 1..n : T.frames[i] = V.frames[i]
StillProtects(P, Q, t, n) == \A i \in 1..n : Protects(P, t, i) => Protects(Q, t, i)

\* A function is done: the handler is the one that was kept, or the one of below.
LEMMA FinishSettled ==
  ASSUME NEW P, NEW Q, NEW t, NEW V, NEW n \in Nat, NEW m \in Nat, n + 1 <= m, Settled(P, V, t, m),
         NEW T \in ThreadSet, Len(T.frames) = n + 1, SameFrames(T, V, n + 1),
         T.frames[n + 1].ypcall \/ T.errf = HandlerAt(V.frames, n), StillProtects(P, Q, t, n)
  PROVE  Settled(Q, Finished(T), t, n) /\ Len(Finished(T).frames) = n /\ SameFrames(Finished(T), V, n)
<1> DEFINE U == Finished(T)
<1>1. n + 1 \in 1..m /\ n + 1 \in 1..(n + 1) /\ n + 1 > 0 /\ (n + 1) - 1 = n /\ n <= m
  OBVIOUS
<1>2. U.frames = Pop(T.frames) /\ T.frames \in Seq(FrameSet)
  BY <1>1, FinishedFields, ThreadFields
<1>3. /\ Len(U.frames) = n /\ Last(T.frames) = T.frames[n + 1]
      /\ \A i \in 1..n : U.frames[i] = T.frames[i] /\ i \in 1..(n + 1)
  <2> DEFINE g == T.frames
  <2>1. g \in Seq(FrameSet) /\ Len(g) = n + 1 /\ Len(g) > 0 /\ U.frames = Pop(g)
    BY <1>1, <1>2
  <2> HIDE DEF g, U
  <2>2. Len(Pop(g)) = Len(g) - 1 /\ Last(g) = g[Len(g)] /\ \A i \in 1..Len(Pop(g)) : Pop(g)[i] = g[i]
    BY <2>1, Popped
  <2>3. Len(Pop(g)) = n /\ \A i \in 1..n : i \in 1..(n + 1)
    BY <2>1, <2>2
  <2> QED
    BY <2>1, <2>2, <2>3 DEF g
<1>4. U.errf = HandlerAt(V.frames, n)
  <2>1. U.errf = IF T.frames[n + 1].ypcall THEN T.frames[n + 1].old ELSE T.errf
    BY <1>3, FinishedErrf
  <2>2. T.frames[n + 1] = V.frames[n + 1]
    BY <1>1, Zenon DEF SameFrames
  <2>3. V.frames[n + 1].ypcall => V.frames[n + 1].old = HandlerAt(V.frames, n)
    BY <1>1, Zenon DEF Settled
  <2> HIDE DEF U
  <2> QED
    BY <2>1, <2>2, <2>3
<1> HIDE DEF U
<1>5. \A i \in 1..n : U.frames[i] = V.frames[i]
  BY <1>3, Zenon DEF SameFrames
<1>6. Settled(Q, U, t, n)
  <2>1. \A i \in 1..n : Alike(U.frames[i], V.frames[i])
    BY <1>5, Zenon DEF Alike
  <2> QED
    BY <1>1, <1>4, <2>1, SettledBelow DEF StillProtects
<1> QED
  BY <1>3, <1>5, <1>6, Zenon DEF U, SameFrames

\* No handler is that of a function that does not protect.
LEMMA NotProtecting ==
  ASSUME NEW P, NEW V, NEW t, NEW n \in Nat, Settled(P, V, t, n + 1), V.frames[n + 1].kind \notin Protecting
  PROVE  V.errf = HandlerAt(V.frames, n)
BY HandlerNext, Zenon DEF Settled

LEMMA PcallsPop ==
  ASSUME NEW s \in Seq(RecordSet), Len(s) > 0, s[Len(s)].at # "pcall"
  PROVE  Pcalls(Pop(s)) = Pcalls(s)
<1>1. Len(s) \in Nat /\ Len(s) - 1 \in 0..Len(s) /\ \A i \in ((Len(s) - 1) + 1)..Len(s) : i = Len(s)
  BY LenProperties
<1>2. /\ Pcalls(Pop(s)) \subseteq Pcalls(s)
      /\ \A r \in Pcalls(s) : r \in Pcalls(Pop(s)) \/ \E i \in ((Len(s) - 1) + 1)..Len(s) : s[i].at = "pcall" /\ r = s[i]
  BY <1>1, PcallsCut DEF Pop
<1>3. \A r \in Pcalls(s) : r \in Pcalls(Pop(s))
  BY <1>1, <1>2
<1> QED
  BY <1>2, <1>3

LEMMA PcallsGrow ==
  ASSUME NEW s \in Seq(RecordSet), NEW r \in RecordSet, r.at # "pcall"
  PROVE  Pcalls(Append(s, r)) = Pcalls(s)
BY PcallsGrown

\* The steps one by one.
LEMMA AliveHandled ==
  ASSUME Good(c, th, L, ctl), Handles, ~Waiting, NEW T, T.frames = th[L].frames, T.errf = th[L].errf,
         NEW stack, NEW k, Goes(T, stack, k), Pcalls(stack) = Pcalls(c), k.go # "body"
  PROVE  Handles'
<1>1. \A i \in 1..Len(T.frames) : Alike(T.frames[i], th[L].frames[i])
  BY Zenon DEF Alike
<1> QED
  BY <1>1, SameHandled

LEMMA NotBody ==
  /\ Raise.go # "body" /\ Run.go # "body" /\ \A st, msg : Throw(st, msg).go # "body"
  /\ \A noyield : Call(noyield).go # "body"
  /\ \A go, st, msg : Ctl(go, st, msg).go = go
BY DEF Raise, Run, Throw, Call, Ctl

LEMMA ErrorHandled == ASSUME Good(c, th, L, ctl), Handles, Error PROVE Handles'
<1>1. Top.kind = "error" /\ Goes(th[L], c, Raise)
  BY DEF Error
<1>2. ~Waiting
  BY <1>1 DEF Waiting, Protecting
<1> QED
  BY <1>1, <1>2, NotBody, AliveHandled

LEMMA CallBackHandled == ASSUME Good(c, th, L, ctl), Handles, CallBack PROVE Handles'
<1>1. Top.kind = "sort" /\ Goes(th[L], c, Call(TRUE))
  BY DEF CallBack
<1>2. ~Waiting
  BY <1>1 DEF Waiting, Protecting
<1> QED
  BY <1>1, <1>2, NotBody, AliveHandled

LEMMA YieldHandled == ASSUME Good(c, th, L, ctl), Handles, Yield PROVE Handles'
<1> DEFINE T == [th[L] EXCEPT !.status = "yield"]
<1>1. Top.kind = "yield" /\ (Goes(th[L], c, Raise) \/ Goes(T, c, Throw("yield", "")))
  BY Zenon DEF Yield
<1>2. ~Waiting
  BY <1>1 DEF Waiting, Protecting
<1>3. T.frames = th[L].frames /\ T.errf = th[L].errf
  BY Running0 DEF ThreadSet
<1> HIDE DEF T
<1> QED
  BY <1>1, <1>2, <1>3, NotBody, AliveHandled, Zenon

LEMMA ErrorMsgHandled == ASSUME Good(c, th, L, ctl), Handles, ErrorMsg PROVE Handles'
<1> DEFINE r == [at |-> "errormsg", l |-> L]
<1>1. ctl.go = "raise" /\ (Goes(th[L], Append(c, r), Call(TRUE)) \/ Goes(th[L], c, Throw("err", ctl.msg)))
  BY Zenon DEF ErrorMsg
<1>2. ~Waiting
  BY <1>1 DEF Waiting
<1>3. r \in RecordSet /\ r.at # "pcall"
  BY Running0 DEF RecordSet
<1> HIDE DEF r
<1>4. Pcalls(Append(c, r)) = Pcalls(c)
  BY <1>3, Running0, PcallsGrow
<1>5. Call(TRUE).go # "body" /\ Throw("err", ctl.msg).go # "body"
  BY NotBody, Zenon
<1> QED
  BY <1>1, <1>2, <1>4, <1>5, AliveHandled, Zenon

LEMMA CallFunctionHandled == ASSUME Good(c, th, L, ctl), Handles, CallFunction PROVE Handles'
<1>1. PICK kind \in {"lua"} \cup CFunctions : Enter(th[L], Frame(kind, FALSE), c, Body(kind))
  BY DEF CallFunction
<1>2. ~Waiting
  BY DEF CallFunction, Waiting
<1>3. kind \in Kinds
  BY DEF Kinds
<1> DEFINE f == Frame(kind, FALSE)
           k == Body(kind)
<1>4. f \in FrameSet /\ f.kind = kind /\ ~f.ypcall
  BY <1>3, FrameFields
<1>5. kind \in Protecting => k.go = "body"
  BY DEF Body, Ctl, Protecting
<1>6. Enter(th[L], f, c, k)
  BY <1>1
<1> HIDE DEF f, k
<1> QED
  BY <1>2, <1>4, <1>5, <1>6, Running0, EnterHandled

LEMMA DoCallHandled == ASSUME Good(c, th, L, ctl), Handles, DoCall PROVE Handles'
<1> DEFINE noyield == ctl.go = "callnoyield"
           r == CallRec(th[L], noyield)
           T == Counted(th[L], noyield)
           s == Append(c, r)
           f == Frame("lua", TRUE)
<1>1. ctl.go \in {"call", "callnoyield"} /\ CallFrom(T, s)
  BY DEF DoCall
<1>2. ~Waiting
  BY <1>1 DEF Waiting
<1>3. noyield \in BOOLEAN
  OBVIOUS
<1> HIDE DEF noyield
<1>4. r \in RecordSet /\ r.at # "pcall"
  BY <1>3, Running0 DEF CallRec, RecordSet
<1>5. T \in ThreadSet /\ T.frames = th[L].frames
  BY <1>3, Running0, CountedFields
<1>6. T.errf = th[L].errf
  BY Running0 DEF Counted, ThreadSet
<1>7. f \in FrameSet /\ f.kind = "lua" /\ ~f.ypcall
  <2>1. "lua" \in Kinds /\ TRUE \in BOOLEAN
    BY DEF Kinds
  <2> QED
    BY <2>1, FrameFields
<1>8. Goes(T, s, Raise) \/ Goes(T, s, Throw("err", "unhandled")) \/ Enter(T, f, s, Run)
  BY <1>1 DEF CallFrom
<1> HIDE DEF r, T, f
<1>9. Pcalls(s) = Pcalls(c)
  BY <1>4, Running0, PcallsGrow
<1> HIDE DEF s
<1>10. f.kind \notin Protecting
  BY <1>7 DEF Protecting
<1>11. CASE Enter(T, f, s, Run)
  BY <1>2, <1>5, <1>6, <1>7, <1>9, <1>10, <1>11, EnterHandled
<1>12. Raise.go # "body" /\ Throw("err", "unhandled").go # "body"
  BY NotBody, Zenon
<1>13. ASSUME NEW k, k.go # "body", Goes(T, s, k) PROVE Handles'
  BY <1>2, <1>5, <1>6, <1>9, <1>13, AliveHandled
<1> QED
  BY <1>8, <1>11, <1>12, <1>13, Zenon

LEMMA ReturnHandled == ASSUME Good(c, th, L, ctl), Handles, Return PROVE Handles'
<1> DEFINE g == th[L].frames
           T == [th[L] EXCEPT !.frames = Pop(@)]
           P == Pcalls(c)
           n == Len(g) - 1
           k == IF Top.fresh THEN Ctl("return", "ok", "") ELSE Run
<1>1. ctl.go = "run" /\ Goes(T, c, k)
  BY DEF Return
<1>2. ~Waiting
  BY <1>1 DEF Waiting
<1>3. RunsAbove(c[Len(c)], g, Len(g))
  <2>1. Continues(c[Len(c)], g, ctl.go)
    BY GoodStep
  <2> QED
    BY <1>1, <2>1, Zenon DEF Continues
<1>4. Len(g) > 0 /\ Last(g).kind = "lua"
  BY <1>3, Running0, RunsLess
<1>5. T.frames = Pop(g) /\ T.errf = th[L].errf
  <2>1. T.errf = th[L].errf
    BY Running0 DEF ThreadSet
  <2> QED
    BY <1>4, <2>1, Running0, PopFields
<1>6. /\ n \in Nat /\ n + 1 = Len(g) /\ g[n + 1].kind = "lua" /\ Len(T.frames) = n /\ \A i \in 1..n : T.frames[i] = g[i]
  BY <1>4, <1>5, Running0, Popped
<1>7. k.go # "body"
  BY NotBody
<1> HIDE DEF T, n, k
<1>8. Settled(P, th[L], L, n + 1)
  BY <1>2, <1>6, HandlesFacts DEF Upto
<1>9. T.errf = HandlerAt(g, n)
  <2>1. g[n + 1].kind \notin Protecting
    BY <1>6 DEF Protecting
  <2> QED
    BY <1>5, <1>6, <1>8, <2>1, NotProtecting
<1>10. Settled(P, T, L, n)
  <2>1. n + 1 \in Nat /\ n <= n + 1
    BY <1>6
  <2>2. \A i \in 1..n : Alike(T.frames[i], th[L].frames[i])
    BY <1>6, Zenon DEF Alike
  <2> HIDE DEF P
  <2> QED
    BY <1>6, <1>8, <1>9, <2>1, <2>2, SettledBelow
<1>11. Upto(T, Waiting') = n
  <2>1. ~Waiting'
    BY <1>1, <1>7, Running0, WaitingNext
  <2> QED
    BY <1>6, <2>1 DEF Upto
<1>12. \A r \in P : r.l = L => r.ci - 1 <= n
  <2>1. \A r \in P : r.l = L => r.ci \in Nat /\ r.ci <= Len(g)
    BY PcallFacts
  <2> QED
    BY <1>6, <2>1
<1>13. \A i \in 1..n : T.frames[i].kind = th[L].frames[i].kind
  BY <1>6, Zenon
<1> QED
  BY <1>1, <1>6, <1>10, <1>11, <1>12, <1>13, KeepsHandled

LEMMA FinishHandled ==
  ASSUME Good(c, th, L, ctl), Handles, ~Waiting, NEW T \in ThreadSet, T.frames = th[L].frames, T.errf = th[L].errf,
         Len(T.frames) > 0, Last(T.frames).ypcall \/ Last(T.frames).kind \notin Protecting,
         NEW stack, NEW k, Goes(Finished(T), stack, k), Pcalls(stack) = Pcalls(c), k.go # "body"
  PROVE  Handles'
<1> DEFINE g == th[L].frames
           P == Pcalls(c)
           n == Len(g) - 1
           U == Finished(T)
<1>1. /\ n \in Nat /\ n + 1 = Len(g) /\ n + 1 \in Nat /\ n <= n + 1 /\ n + 1 <= n + 1 /\ g \in Seq(FrameSet)
  BY Running0
<1>2. Last(T.frames) = g[n + 1] /\ Len(T.frames) = n + 1
  BY <1>1 DEF Last
<1> HIDE DEF n, U
<1>3. Settled(P, th[L], L, n + 1)
  BY <1>1, HandlesFacts DEF Upto
<1>4. T.frames[n + 1].ypcall \/ T.errf = HandlerAt(th[L].frames, n)
  <2>1. CASE g[n + 1].kind \notin Protecting
    BY <1>1, <1>3, <2>1, NotProtecting
  <2> QED
    BY <1>2, <2>1
<1>5. Settled(P, U, L, n) /\ Len(U.frames) = n /\ \A i \in 1..n : U.frames[i] = th[L].frames[i]
  <2> DEFINE V == th[L]
             m == n + 1
  <2>1. SameFrames(T, V, n + 1) /\ StillProtects(P, P, L, n)
    BY Zenon DEF SameFrames, StillProtects
  <2>2. /\ n \in Nat /\ m \in Nat /\ n + 1 <= m /\ Settled(P, V, L, m) /\ Len(T.frames) = n + 1
        /\ T.frames[n + 1].ypcall \/ T.errf = HandlerAt(V.frames, n)
    BY <1>1, <1>2, <1>3, <1>4
  <2> HIDE DEF P, g, V, m
  <2>3. Settled(P, Finished(T), L, n) /\ Len(Finished(T).frames) = n /\ SameFrames(Finished(T), V, n)
    BY <2>1, <2>2, FinishSettled
  <2> QED
    BY <2>3, Zenon DEF U, V, SameFrames
<1>6. Goes(U, stack, k)
  BY DEF U
<1>7. Upto(U, Waiting') = n
  <2>1. ~Waiting'
    BY <1>6, Running0, WaitingNext
  <2> QED
    BY <1>5, <2>1 DEF Upto
<1>8. \A r \in P : r.l = L => r.ci - 1 <= n
  <2>1. \A r \in P : r.l = L => r.ci \in Nat /\ r.ci <= Len(g)
    BY PcallFacts
  <2> QED
    BY <1>1, <2>1
<1>9. \A i \in 1..n : U.frames[i].kind = th[L].frames[i].kind
  BY <1>5, Zenon
<1> QED
  BY <1>1, <1>5, <1>6, <1>7, <1>8, <1>9, KeepsHandled

LEMMA UnrollHandled == ASSUME Good(c, th, L, ctl), Handles, Unroll PROVE Handles'
<1> DEFINE g == th[L].frames
           n == Len(g)
           r == c[Len(c)]
<1>1. r.at = "unroll" /\ Shape(g, n)
  <2>1. Continues(r, g, ctl.go) /\ (ctl.go = "unroll" \/ (ctl.go = "return" /\ r.at = "unroll"))
    BY GoodStep DEF Unroll, Last
  <2> QED
    BY <2>1, Zenon DEF Continues
<1>2. ~Waiting
  BY DEF Unroll, Waiting
<1>3. CASE n = 0 /\ Goes(th[L], Pop(c), Ctl("return", "ok", ""))
  <2>1. Pcalls(Pop(c)) = Pcalls(c)
    <3>1. Len(c) > 0 /\ c[Len(c)].at # "pcall"
      BY <1>1, Running0
    <3> QED
      BY <3>1, Running0, PcallsPop
  <2>2. Ctl("return", "ok", "").go # "body"
    BY NotBody
  <2> QED
    BY <1>2, <1>3, <2>1, <2>2, AliveHandled
<1> DEFINE T == [th[L] EXCEPT !.frames[n].fresh = TRUE]
<1>4. CASE n # 0 /\ Goes(T, c, Run)
  <2> DEFINE f == [g[n] EXCEPT !.fresh = TRUE]
             h == [g EXCEPT ![n] = f]
  <2>1. n \in 1..n /\ g[n] \in FrameSet /\ g \in Seq(FrameSet)
    BY <1>4, Running0, ThreadFields
  <2>2. f \in FrameSet /\ f.kind = g[n].kind /\ f.ypcall = g[n].ypcall /\ f.old = g[n].old
    BY <2>1 DEF FrameSet
  <2> HIDE DEF f
  <2>3. h \in Seq(FrameSet) /\ Len(h) = n /\ h[n] = f /\ \A i \in 1..n : i # n => h[i] = g[i]
    BY <2>1, <2>2, ExceptSeq
  <2>4. T = [th[L] EXCEPT !.frames = h]
    BY Running0 DEF ThreadSet, f
  <2> HIDE DEF h
  <2>5. T.frames = h /\ T.errf = th[L].errf
    BY <2>3, <2>4, Running0 DEF ThreadSet
  <2> HIDE DEF T
  <2>6. Len(T.frames) = Len(th[L].frames) /\ \A i \in 1..Len(T.frames) : Alike(T.frames[i], th[L].frames[i])
    <3>1. \A i \in 1..n : Alike(h[i], g[i])
      BY <2>2, <2>3, Zenon DEF Alike
    <3> QED
      BY <2>3, <2>5, <3>1
  <2> QED
    BY <1>2, <1>4, <2>5, <2>6, NotBody, SameHandled
<1>5. CASE n # 0 /\ Top.kind # "lua" /\ Goes(Finished(th[L]), c, Ctl("unroll", "ok", ""))
  <2>1. n > 0 /\ n \in 1..n
    <3>1. n \in Nat /\ n # 0
      BY <1>5, Running0
    <3> HIDE DEF n
    <3> QED
      BY <3>1
  <2>2. Last(g).ypcall
    <3>1. Plain(g[n])
      BY <1>1, <2>1, Zenon DEF Shape
    <3> QED
      BY <1>5, <3>1 DEF Plain, Last, Top
  <2>3. Ctl("unroll", "ok", "").go # "body"
    BY NotBody
  <2> QED
    BY <1>2, <1>5, <2>1, <2>2, <2>3, Running0, FinishHandled
<1> QED
  BY <1>3, <1>4, <1>5 DEF Unroll

\* luaD_pcall keeps the handler of below, and sets that of the call.
LEMMA ConventionalHandled ==
  ASSUME Good(c, th, L, ctl), Handles, ctl.go = "body", Top.kind \in Protecting, Conventional(th[L])
  PROVE  Handles'
<1> DEFINE g == th[L].frames
           n == Len(g) - 1
           r == PcallRec(th[L])
           e == Handler(th[L])
           T == [th[L] EXCEPT !.errf = e]
           k == Call(TRUE)
           s == Append(c, r)
           P == Pcalls(c)
           Q == P \cup {r}
<1>1. Len(g) > 0 /\ Top = g[Len(g)] /\ ~Top.ypcall
  BY InBody
<1>2. n \in Nat /\ n + 1 = Len(g) /\ n + 1 - 1 = n
  BY <1>1, Running0
<1>3. r \in RecordSet /\ r.at = "pcall" /\ r.l = L /\ r.ci = n + 1 /\ r.errf = th[L].errf
  BY <1>2, Running0 DEF PcallRec, RecordSet
<1>4. e = IF g[n + 1].kind = "xpcall" THEN n + 1 ELSE 0
  BY <1>2 DEF Handler, Last
<1>5. Goes(T, s, k) /\ k.go # "body"
  BY NotBody DEF Conventional
<1> HIDE DEF e
<1>6. T.frames = g /\ T.errf = e
  BY Running0 DEF ThreadSet
<1> HIDE DEF r, T, k
<1>7. Pcalls(s) = Q
  BY <1>3, Running0, PcallsGrown
<1>8. Waiting /\ ~Waiting'
  <2>1. Waiting
    BY DEF Waiting
  <2>2. ~Waiting'
    BY <1>5, Running0, WaitingNext
  <2> QED
    BY <2>1, <2>2
<1>9. Settled(P, th[L], L, n)
  BY <1>8, HandlesFacts DEF Upto
<1>10. Settled(Q, T, L, Upto(T, Waiting'))
  <2>1. Upto(T, Waiting') = n + 1
    BY <1>2, <1>6, <1>8 DEF Upto
  <2> DEFINE f == g[n + 1]
  <2>2. f.kind \in Protecting /\ ~f.ypcall /\ f = T.frames[n + 1] /\ Protects(Q, L, n + 1)
    <3>1. Protects(Q, L, n + 1)
      BY <1>3, Zenon DEF Protects
    <3> QED
      BY <1>1, <1>2, <1>6, <3>1
  <2>3. \A i \in 1..n : Alike(T.frames[i], th[L].frames[i])
    BY <1>6, Zenon DEF Alike
  <2>4. \A i \in 1..n : Protects(P, L, i) => Protects(Q, L, i)
    BY Zenon DEF Protects
  <2>5. T.errf = IF f.kind \in Protecting THEN IF f.kind = "xpcall" THEN n + 1 ELSE 0 ELSE HandlerAt(th[L].frames, n)
    BY <1>4, <1>6, <2>2
  <2> HIDE DEF f, n, P, Q
  <2>6. Settled(Q, T, L, n + 1)
    BY <1>2, <1>9, <2>2, <2>3, <2>4, <2>5, SettledNext
  <2> QED
    BY <2>1, <2>6
<1>11. \A x \in Q : x.l \in Threads /\ (x.l # L => x \in P)
  BY <1>3, PcallFacts, Running0
<1>12. ASSUME NEW x \in Q, x.l = L PROVE x.errf = HandlerAt(T.frames, x.ci - 1)
  <2>1. CASE x \in P
    BY <1>6, <1>12, <2>1, HandlesFacts
  <2>2. CASE x = r
    <3>1. th[L].errf = HandlerAt(g, n)
      BY <1>9 DEF Settled
    <3> HIDE DEF n
    <3> QED
      BY <1>2, <1>3, <1>6, <2>2, <3>1
  <2> QED
    BY <2>1, <2>2
<1>13. \A t, i : t # L /\ Protects(P, t, i) => Protects(Q, t, i)
  BY Zenon DEF Protects
<1>14. Handled(Q, th', L', Waiting')
  <2> HIDE DEF P, Q
  <2>1. Handled(P, th, L, Waiting)
    BY DEF Handles, P
  <2> QED
    BY <1>5, <1>10, <1>11, <1>12, <1>13, <2>1, Running0, GoesHandled
<1>15. c' = s
  BY <1>5 DEF Goes
<1> QED
  BY <1>7, <1>14, <1>15 DEF Handles, Pcalls

\* With a continuation, the frame keeps the handler of below.
LEMMA YieldableHandled ==
  ASSUME Good(c, th, L, ctl), Handles, ctl.go = "body", Top.kind \in Protecting, Yieldable(th[L])
  PROVE  Handles'
<1> DEFINE g == th[L].frames
           n == Len(g) - 1
           m == Len(g)
           f == [g[m] EXCEPT !.ypcall = TRUE, !.old = th[L].errf]
           h == [g EXCEPT ![m] = f]
           e == Handler(th[L])
           T == [th[L] EXCEPT !.errf = e, !.frames = h]
           k == Call(FALSE)
           P == Pcalls(c)
<1>1. m > 0 /\ Top = g[m]
  BY InBody
<1>2. /\ n \in Nat /\ m = n + 1 /\ m \in 1..m /\ g[m] \in FrameSet /\ g \in Seq(FrameSet) /\ e \in Nat
      /\ \A i \in 1..n : i \in 1..m /\ i # m
  BY <1>1, Running0, ThreadFields DEF Handler
<1>3. f \in FrameSet /\ f.kind = g[m].kind /\ f.ypcall = TRUE /\ f.old = th[L].errf
  <2>1. th[L].errf \in Nat
    BY Running0
  <2> QED
    BY <1>2, <2>1 DEF FrameSet
<1>4. Goes(T, c, k) /\ k.go # "body"
  <2> DEFINE U == [th[L] EXCEPT !.errf = Handler(th[L]), !.frames[m] = [@ EXCEPT !.ypcall = TRUE, !.old = th[L].errf]]
  <2>1. Goes(U, c, k)
    BY DEF Yieldable
  <2>2. U = T
    BY <1>2, Running0 DEF ThreadSet
  <2> QED
    BY <2>1, <2>2, NotBody
<1>5. e = IF f.kind = "xpcall" THEN n + 1 ELSE 0
  BY <1>2, <1>3 DEF Handler, Last
<1>6. f.kind \in Protecting
  BY <1>1, <1>3
<1> HIDE DEF f, e
<1>7. h \in Seq(FrameSet) /\ Len(h) = m /\ h[m] = f /\ \A i \in 1..m : i # m => h[i] = g[i]
  <2>1. /\ h \in Seq(FrameSet) /\ Len(h) = Len(g)
        /\ \A i \in 1..Len(g) : h[i] = IF i = m THEN f ELSE g[i]
    <3>1. m \in 1..Len(g)
      BY <1>2
    <3> HIDE DEF m, g
    <3> QED
      BY <1>2, <1>3, <3>1, ExceptSeq
  <2> QED
    BY <1>2, <2>1
<1> HIDE DEF h
<1>8. T.frames = h /\ T.errf = e
  BY Running0 DEF ThreadSet
<1> HIDE DEF T, k, n, m
<1>9. Waiting /\ ~Waiting'
  <2>1. Waiting
    BY DEF Waiting
  <2>2. ~Waiting'
    BY <1>4, Running0, WaitingNext
  <2> QED
    BY <2>1, <2>2
<1>10. Settled(P, th[L], L, n)
  BY <1>9, HandlesFacts DEF Upto, n
<1>11. Settled(P, T, L, Upto(T, Waiting'))
  <2>1. Upto(T, Waiting') = n + 1
    BY <1>2, <1>7, <1>8, <1>9 DEF Upto
  <2>2. f = T.frames[n + 1] /\ f.ypcall /\ \A i \in 1..n : T.frames[i] = g[i]
    BY <1>2, <1>3, <1>7, <1>8
  <2>3. \A i \in 1..n : Alike(T.frames[i], th[L].frames[i])
    BY <2>2, Zenon DEF Alike
  <2>4. f.old = HandlerAt(th[L].frames, n)
    BY <1>3, <1>10 DEF Settled
  <2>5. T.errf = IF f.kind \in Protecting THEN IF f.kind = "xpcall" THEN n + 1 ELSE 0 ELSE HandlerAt(th[L].frames, n)
    BY <1>5, <1>6, <1>8
  <2> HIDE DEF P
  <2>6. Settled(P, T, L, n + 1)
    BY <1>2, <1>10, <2>2, <2>3, <2>4, <2>5, SettledNext
  <2> QED
    BY <2>1, <2>6
<1>12. m \in Nat /\ \A r \in P : r.l = L => r.ci - 1 <= m
  <2>1. m \in Nat /\ \A r \in P : r.l = L => r.ci \in Nat /\ r.ci <= Len(g)
    BY PcallFacts, Running0 DEF m
  <2> QED
    BY <2>1 DEF m
<1>13. \A i \in 1..m : T.frames[i].kind = th[L].frames[i].kind
  BY <1>3, <1>7, <1>8, Zenon
<1> QED
  BY <1>4, <1>11, <1>12, <1>13, KeepsHandled

LEMMA PcallHandled == ASSUME Good(c, th, L, ctl), Handles, Pcall PROVE Handles'
BY ConventionalHandled, YieldableHandled DEF Pcall

LEMMA ReturnedHandled == ASSUME Good(c, th, L, ctl), Handles, Returned PROVE Handles'
<1> DEFINE N == Len(c)
           g == th[L].frames
           r == c[N]
           T == UnCounted(th[L], r)
           b == c[N - 1]
<1>1. ctl.go = "return" /\ r.at = "call" /\ Last(c) = r
  BY DEF Returned, Last
<1>2. ~Waiting
  BY <1>1 DEF Waiting
<1>3. r.ci = Len(g)
  <2>1. Continues(r, g, ctl.go)
    BY GoodStep
  <2> QED
    BY <1>1, <2>1, Zenon DEF Continues, Deep
<1>4. N \in 2..N /\ N \in Nat /\ N > 0 /\ N \in 1..N /\ N - 1 \in 1..N /\ N - 1 \in 0..N /\ N - 1 > 0 /\ N - 1 \in 1..(N - 1)
  <2>1. N \in Nat /\ N \in 1..N /\ c[1].at = "pcall"
    BY Running0, StackFacts DEF Segments
  <2>2. N # 1
    BY <1>1, <2>1
  <2> HIDE DEF N
  <2> QED
    BY <2>1, <2>2
<1>5. b.l = L /\ r.l = L /\ r \in RecordSet /\ r.noyield \in BOOLEAN /\ WaitsAt(b, r, th)
  <2>1. WaitsAt(b, r, th)
    BY <1>4, StackFacts DEF Linked
  <2>2. r.l = L /\ r \in RecordSet /\ r.noyield \in BOOLEAN
    BY <1>1, Running0, RecordFields
  <2>3. b.l = r.l
    BY <1>1, <1>4, StackFacts DEF Segments
  <2> QED
    BY <2>1, <2>2, <2>3
<1>6. T \in ThreadSet /\ T.frames = g
  BY <1>5, Running0, UnCountedFields
<1>7. T.errf = th[L].errf
  BY Running0 DEF UnCounted, ThreadSet
<1>8. Len(Pop(c)) = N - 1 /\ Last(Pop(c)) = b /\ Pop(c)[Len(Pop(c))] = b /\ Pop(c) \in Seq(RecordSet)
  BY <1>4, Running0, Cut DEF Pop, Last
<1>9. Pcalls(Pop(c)) = Pcalls(c)
  BY <1>1, <1>4, Running0, PcallsPop
<1> HIDE DEF T
<1>10. CASE b.at = "errormsg"
  <2>1. Goes(T, Pop(Pop(c)), Throw("err", "handled"))
    BY <1>1, <1>8, <1>10 DEF Returned, T
  <2>2. Pcalls(Pop(Pop(c))) = Pcalls(c)
    <3> DEFINE s == Pop(c)
    <3>1. s \in Seq(RecordSet) /\ Len(s) > 0 /\ s[Len(s)].at # "pcall" /\ Pcalls(s) = Pcalls(c)
      BY <1>4, <1>8, <1>9, <1>10
    <3> HIDE DEF s
    <3>2. Pcalls(Pop(s)) = Pcalls(s)
      BY <3>1, PcallsPop
    <3> QED
      BY <3>1, <3>2 DEF s
  <2> QED
    BY <1>2, <1>6, <1>7, <2>1, <2>2, NotBody, AliveHandled
<1>11. CASE b.at = "pcall"
  <2>1. Goes(T, Pop(c), ctl)
    BY <1>1, <1>8, <1>11 DEF Returned, T
  <2>2. ctl.go # "body"
    BY <1>1
  <2> QED
    BY <1>2, <1>6, <1>7, <1>9, <2>1, <2>2, AliveHandled
<1>12. CASE b.at \notin {"errormsg", "pcall"}
  <2>1. Goes(Finished(T), Pop(c), Run)
    BY <1>1, <1>8, <1>12 DEF Returned, T
  <2>2. Within(b, g, Len(g), CFunctions)
    BY <1>1, <1>3, <1>5, <1>12 DEF WaitsAt
  <2>3. Len(g) > 0 /\ Len(g) \in 1..Len(g) /\ Len(g) \in Nat
    BY <2>2, Running0 DEF Within
  <2>4. Last(g).ypcall \/ Last(g).kind \notin Protecting
    <3> SUFFICES ASSUME ~Last(g).ypcall, Last(g).kind \in Protecting PROVE FALSE
      OBVIOUS
    <3> DEFINE n == Len(g)
    <3>1. Settled(Pcalls(c), th[L], L, n)
      BY <1>2, HandlesFacts DEF Upto
    <3>2. n \in 1..n /\ ~g[n].ypcall /\ g[n].kind \in Protecting
      BY <2>3 DEF Last
    <3> HIDE DEF n
    <3>3. Protects(Pcalls(c), L, n)
      BY <3>1, <3>2, Zenon DEF Settled
    <3>4. PICK i \in 1..N : c[i].at = "pcall" /\ c[i].l = L /\ c[i].ci = n
      BY <3>3, Zenon DEF Protects, Pcalls
    <3>5. i # N /\ Deep(c[i])
      BY <1>1, <3>4 DEF Deep
    <3>6. i \in 1..(N - 1)
      BY <1>4, <3>4, <3>5
    <3>7. RunsAbove(b, g, n - 1)
      BY <2>2 DEF Within, n
    <3>8. n - 1 \in Nat
      BY <2>3 DEF n
    <3> DEFINE m == n - 1
               M == N - 1
    <3>9. m \in Nat /\ M \in 1..Len(c) /\ RunsAbove(c[M], g, m) /\ c[M].l = L /\ i \in 1..M
      BY <1>4, <1>5, <3>6, <3>7, <3>8
    <3> HIDE DEF m, M, N, g
    <3>10. c[i].ci < m
      BY <3>4, <3>5, <3>9, Running0, StackFacts, RunsDeep
    <3> QED
      BY <3>4, <3>8, <3>10, <2>3 DEF m, n
  <2> HIDE DEF g
  <2> QED
    BY <1>2, <1>6, <1>7, <1>9, <2>1, <2>3, <2>4, NotBody, FinishHandled DEF g
<1> QED
  BY <1>10, <1>11, <1>12

\* Records of the running thread below one of its calls are at no frame above.
LEMMA PcallsUnder ==
  ASSUME Good(c, th, L, ctl), NEW j \in 1..Len(c), c[j].l = L
  PROVE  /\ Deep(c[j]) => \A r \in Pcalls(SubSeq(c, 1, j - 1)) : r.l = L => r.ci <= c[j].ci
         /\ c[j].at = "resume" => \A r \in Pcalls(SubSeq(c, 1, j - 1)) : r.l # L
<1> DEFINE s == SubSeq(c, 1, j - 1)
           n == j - 1
<1>1. c \in Seq(RecordSet) /\ j \in Nat /\ n \in 0..Len(c) /\ n \in Nat /\ \A i \in 1..n : i \in 1..Len(c) /\ i < j
  BY Running0
<1>2. Len(s) = n /\ \A i \in 1..n : s[i] = c[i]
  <2> DEFINE t == SubSeq(c, 1, n)
  <2>1. t = s
    OBVIOUS
  <2> HIDE DEF n
  <2>2. Len(t) = n /\ \A i \in 1..n : t[i] = c[i]
    BY <1>1, Cut
  <2> QED
    BY <2>1, <2>2
<1> HIDE DEF s, n
<1>3. ASSUME NEW r \in Pcalls(s) PROVE \E i \in 1..n : r = c[i] /\ c[i].at = "pcall"
  BY <1>2, Zenon DEF Pcalls
<1>4. ASSUME Deep(c[j]), NEW r \in Pcalls(s), r.l = L PROVE r.ci <= c[j].ci
  <2>1. PICK i \in 1..n : r = c[i] /\ c[i].at = "pcall"
    BY <1>3
  <2>2. i \in 1..Len(c) /\ i < j /\ Deep(c[i]) /\ c[i].l = c[j].l
    BY <1>1, <1>4, <2>1 DEF Deep
  <2> QED
    BY <1>4, <2>1, <2>2, StackFacts, Zenon DEF Depths
<1>5. ASSUME c[j].at = "resume", NEW r \in Pcalls(s) PROVE r.l # L
  <2>1. PICK i \in 1..n : r = c[i] /\ c[i].at = "pcall"
    BY <1>3
  <2>2. \A k \in 1..(j - 1) : c[k].l # c[j].l
    BY <1>1, <1>5, StackFacts, OwnAbove
  <2> QED
    BY <2>1, <2>2 DEF n
<1> QED
  BY <1>4, <1>5 DEF s

\* luaD_pcall goes back to the handler it kept.
LEMMA AfterPcallHandled ==
  ASSUME Good(c, th, L, ctl), Handles, ~Waiting, NEW j \in 1..Len(c), c[j].at = "pcall", c[j].l = L,
         NEW T \in ThreadSet, Len(T.frames) = c[j].ci, SameFrames(T, th[L], Len(T.frames)), T.errf = c[j].errf,
         AfterPcall(T, SubSeq(c, 1, j - 1))
  PROVE  Handles' \/ ctl'.go = "stop"
<1> DEFINE s == SubSeq(c, 1, j - 1)
<1>1. CASE T.frames = <<>>
  <2>1. Goes(T, s, Ctl("stop", "ok", ""))
    BY <1>1 DEF AfterPcall
  <2> QED
    BY <2>1 DEF Goes, Ctl
<1>2. CASE T.frames # <<>>
  <2> DEFINE P == Pcalls(c)
             Q == Pcalls(s)
             V == th[L]
             m == Len(V.frames)
             n == Len(T.frames) - 1
             U == Finished(T)
  <2>1. Goes(U, s, Run)
    BY <1>2 DEF AfterPcall
  <2>2. c[j] \in P /\ Deep(c[j]) /\ c[j].ci <= m /\ m \in Nat
    <3>1. c[j] \in P /\ Deep(c[j])
      BY DEF Pcalls, Deep
    <3> QED
      BY <3>1, PcallFacts, Running0
  <2>3. Len(T.frames) \in Nat /\ Len(T.frames) # 0
    BY <1>2, ThreadFields
  <2>4. n \in Nat /\ n + 1 = Len(T.frames) /\ n + 1 = c[j].ci /\ n + 1 <= m /\ c[j].ci - 1 = n
    BY <2>2, <2>3
  <2>5. T.errf = HandlerAt(V.frames, n)
    <3>1. c[j].errf = HandlerAt(V.frames, c[j].ci - 1)
      BY <2>2, HandlesFacts
    <3> QED
      BY <2>4, <3>1
  <2>6. Settled(P, V, L, m)
    BY HandlesFacts DEF Upto
  <2>7. /\ Q \subseteq P
        /\ \A t, k : t # L /\ Protects(P, t, k) => Protects(Q, t, k)
        /\ \A k \in Int : k < c[j].ci /\ Protects(P, L, k) => Protects(Q, L, k)
    BY <2>2, PcallsBack
  <2>8. StillProtects(P, Q, L, n)
    <3>1. \A k \in 1..n : k \in Int /\ k < c[j].ci
      BY <2>4
    <3> QED
      BY <2>7, <3>1, Zenon DEF StillProtects
  <2>9. \A r \in Q : r.l = L => r.ci <= n + 1
    BY <2>2, <2>4, PcallsUnder
  <2> HIDE DEF P, Q, V, m, n, s
  <2>10. SameFrames(T, V, n + 1) /\ Len(T.frames) = n + 1
    BY <2>4 DEF V
  <2>11. Settled(Q, U, L, n) /\ Len(U.frames) = n /\ SameFrames(U, V, n)
    <3> HIDE DEF U
    <3>1. Settled(Q, Finished(T), L, n) /\ Len(Finished(T).frames) = n /\ SameFrames(Finished(T), V, n)
      BY <2>2, <2>4, <2>5, <2>6, <2>8, <2>10, FinishSettled
    <3> QED
      BY <3>1 DEF U
  <2> HIDE DEF U
  <2>12. ~Waiting'
    BY <2>1, NotBody, Running0, WaitingNext
  <2>13. Settled(Q, U, L, Upto(U, Waiting'))
    BY <2>11, <2>12 DEF Upto
  <2>14. \A r \in Q : r.l \in Threads /\ (r.l # L => r \in P)
    BY <2>7, PcallFacts DEF P
  <2>15. ASSUME NEW r \in Q, r.l = L PROVE r.errf = HandlerAt(U.frames, r.ci - 1)
    <3> DEFINE k == r.ci - 1
    <3>1. r \in P /\ r.ci \in Nat /\ r.ci <= n + 1 /\ r.errf = HandlerAt(V.frames, k)
      BY <2>7, <2>9, <2>15, PcallFacts, HandlesFacts DEF P, V
    <3>2. k \in Int /\ \A i \in 1..k : i \in 1..n
      BY <2>4, <3>1
    <3> HIDE DEF k
    <3>3. \A i \in 1..k : U.frames[i].kind = V.frames[i].kind
      BY <2>11, <3>2, Zenon DEF SameFrames
    <3>4. HandlerAt(U.frames, k) = HandlerAt(V.frames, k)
      BY <3>2, <3>3, HandlerSame
    <3> QED
      BY <3>1, <3>4 DEF k
  <2>16. Handled(Q, th', L', Waiting')
    <3>1. Handled(P, th, L, Waiting)
      BY DEF Handles, P
    <3> QED
      BY <2>1, <2>7, <2>13, <2>14, <2>15, <3>1, Running0, GoesHandled
  <2>17. c' = s
    BY <2>1 DEF Goes
  <2> QED
    BY <2>16, <2>17 DEF Handles, Pcalls, Q
<1> QED
  BY <1>1, <1>2


\* The resumer goes on.
LEMMA ResumerHandled ==
  ASSUME NEW s, NEW Q, Q = Pcalls(s), NEW ths \in [Threads -> ThreadSet], NEW m \in Threads, Handled(Q, ths, m, FALSE),
         NEW failed, Resumer(m, ths, s, failed), ths[m].status # "err",
         Len(ths[m].frames) > 0, Last(ths[m].frames).kind \in {"resume", "wrap"},
         \A r \in Q : r.l \in Threads /\ r.ci \in Nat /\ (r.l = m => r.ci <= Len(ths[m].frames))
  PROVE  Handles'
<1> DEFINE V == ths[m]
           n == Len(V.frames) - 1
           wrap == failed /\ Last(V.frames).kind = "wrap"
<1>1. L' = m /\ c' = s /\ (wrap => ctl' = Raise) /\ (~wrap => ctl' = Run)
  BY DEF Resumer
<1>2. th' = [ths EXCEPT ![m] = IF wrap THEN V ELSE Finished(V)]
  BY DEF Resumer
<1>3. ~Waiting'
  <2>1. ctl'.go # "body"
    BY <1>1, NotBody
  <2> QED
    BY <2>1 DEF Waiting
<1>4. n \in Nat /\ n + 1 \in Nat /\ n + 1 <= n + 1 /\ n + 1 = Len(V.frames) /\ V \in ThreadSet /\ Last(V.frames) = V.frames[n + 1]
  <2>1. V \in ThreadSet
    OBVIOUS
  <2>2. Len(V.frames) \in Nat /\ Len(V.frames) > 0
    BY <2>1, ThreadFields
  <2> HIDE DEF V
  <2>3. n \in Nat /\ n + 1 = Len(V.frames)
    BY <2>2
  <2> QED
    BY <2>1, <2>3 DEF Last
<1> HIDE DEF n, wrap
<1>5. Settled(Q, V, m, n + 1)
  <2>1. Settled(Q, ths[m], m, Upto(ths[m], m = m /\ FALSE))
    BY Zenon DEF Handled
  <2> QED
    BY <1>4, <2>1, Zenon DEF Upto
<1>6. V.errf = HandlerAt(V.frames, n)
  <2>1. V.frames[n + 1].kind \notin Protecting
    BY <1>4 DEF Protecting
  <2> HIDE DEF V
  <2> QED
    BY <1>4, <1>5, <2>1, NotProtecting
<1>7. ASSUME NEW T, Settled(Q, T, m, Len(T.frames)), SameFrames(T, V, n), th' = [ths EXCEPT ![m] = T] PROVE Handles'
  <2>1. ASSUME NEW r \in Q, r.l = m PROVE r.errf = HandlerAt(T.frames, r.ci - 1)
    <3> DEFINE k == r.ci - 1
    <3>1. r.errf = HandlerAt(V.frames, k)
      BY <2>1, Zenon DEF Handled
    <3>2. k \in Int /\ \A i \in 1..k : i \in 1..n
      BY <1>4, <2>1
    <3> HIDE DEF k, V
    <3>3. \A i \in 1..k : T.frames[i].kind = V.frames[i].kind
      BY <1>7, <3>2, Zenon DEF SameFrames
    <3>4. HandlerAt(T.frames, k) = HandlerAt(V.frames, k)
      BY <3>2, <3>3, HandlerSame
    <3> QED
      BY <3>1, <3>4 DEF k
  <2>2. Settled(Q, T, m, Upto(T, Waiting'))
    BY <1>3, <1>7, Zenon DEF Upto
  <2> DEFINE w == FALSE
             x == Waiting'
  <2>3. (w => m = m) /\ (x => m = m) /\ Handled(Q, ths, m, w) /\ Settled(Q, T, m, Upto(T, x))
    BY <2>2
  <2> HIDE DEF w, x
  <2>4. Handled(Q, [ths EXCEPT ![m] = T], m, x)
    BY <2>1, <2>3, HandledOne
  <2>5. Handled(Pcalls(c'), th', L', Waiting')
    BY <1>1, <1>7, <2>4 DEF x
  <2> QED
    BY <2>5 DEF Handles, Pcalls
<1>8. CASE wrap
  <2>1. th' = [ths EXCEPT ![m] = V]
    BY <1>2, <1>8
  <2>2. SameFrames(V, V, n) /\ Settled(Q, V, m, Len(V.frames))
    BY <1>4, <1>5 DEF SameFrames
  <2> QED
    BY <1>7, <2>1, <2>2
<1>9. CASE ~wrap
  <2> DEFINE U == Finished(V)
  <2>1. th' = [ths EXCEPT ![m] = U]
    BY <1>2, <1>9
  <2>2. Settled(Q, U, m, n) /\ Len(U.frames) = n /\ SameFrames(U, V, n)
    <3> DEFINE h == n + 1
    <3>1. SameFrames(V, V, n + 1) /\ StillProtects(Q, Q, m, n)
      BY Zenon DEF SameFrames, StillProtects
    <3>2. h \in Nat /\ n + 1 <= h /\ Settled(Q, V, m, h) /\ Len(V.frames) = n + 1
      BY <1>4, <1>5
    <3> HIDE DEF h, V
    <3> QED
      BY <1>4, <1>6, <3>1, <3>2, FinishSettled
  <2> HIDE DEF U
  <2>3. Settled(Q, U, m, Len(U.frames)) /\ SameFrames(U, V, n)
    BY <2>2
  <2> QED
    BY <1>7, <2>1, <2>3
<1> QED
  BY <1>8, <1>9

LEMMA ResumerFacts ==
  ASSUME Good(c, th, L, ctl), NEW j \in 2..Len(c), c[j].at = "resume", c[j].l = L, NEW m, m = c[j].from
  PROVE  /\ m \in Threads /\ m # L /\ th[m].status = "ok"
         /\ Len(th[m].frames) > 0 /\ Last(th[m].frames).kind \in {"resume", "wrap"}
<1>1. j \in 1..Len(c) /\ j - 1 \in 1..Len(c) /\ j \in j..Len(c)
  BY Running0
<1>2. m \in Threads
  BY <1>1, StackFacts, RecordFields
<1>3. m # L /\ c[j - 1].l = m
  BY <1>1, Running0, StackFacts, Resumed
<1>4. On(c, m)
  BY <1>1, <1>3 DEF On
<1>5. th[m].status = "ok"
  BY <1>2, <1>3, <1>4, GoodStep DEF State, Statuses
<1>6. Within(c[j - 1], th[m].frames, Len(th[m].frames), {"resume", "wrap"})
  BY StackFacts DEF Linked, WaitsAt
<1>7. Len(th[m].frames) \in Nat
  BY <1>2, Running0, ThreadFields
<1> QED
  BY <1>2, <1>3, <1>5, <1>6, <1>7 DEF Within, Last

\* lua_resume leaves, with no call of luaD_pcall of the thread.
LEMMA LeaveHandled ==
  ASSUME Good(c, th, L, ctl), Handles, ~Waiting, NEW j \in 2..Len(c), c[j].at = "resume", c[j].l = L,
         NEW T \in ThreadSet, T.status # "err" => Settled({}, T, L, Len(T.frames)),
         NEW failed, Leave(T, c[j], SubSeq(c, 1, j - 1), failed)
  PROVE  Handles'
<1> DEFINE m == c[j].from
           V == [T EXCEPT !.nny = c[j].nny, !.nC = @ - 1]
           ths == [th EXCEPT ![L] = V]
           s == SubSeq(c, 1, j - 1)
           P == Pcalls(c)
           Q == Pcalls(s)
<1>1. j \in 1..Len(c) /\ c[j].nny \in Int
  <2>1. j \in 1..Len(c)
    BY Running0
  <2> QED
    BY <2>1, StackFacts, RecordFields
<1>2. V \in ThreadSet /\ V.status = T.status /\ V.frames = T.frames /\ V.errf = T.errf
  <2> DEFINE a == c[j].nny
             z == T.nC - 1
  <2>1. a \in Int /\ z \in Int
    BY <1>1, ThreadFields
  <2>2. V = [T EXCEPT !.nny = a, !.nC = z]
    BY DEF ThreadSet
  <2> HIDE DEF a, z, V
  <2> QED
    BY <2>1, <2>2 DEF ThreadSet
<1>3. Resumer(m, ths, s, failed)
  BY DEF Leave
<1>4. /\ m \in Threads /\ m # L /\ th[m].status = "ok" /\ Len(th[m].frames) > 0
      /\ Last(th[m].frames).kind \in {"resume", "wrap"}
  BY ResumerFacts
<1>5. Q \subseteq P /\ \A t, k : t # L /\ Protects(P, t, k) => Protects(Q, t, k)
  BY <1>1, PcallsBack
<1>6. \A r \in Q : r.l # L
  BY <1>1, PcallsUnder
<1>7. \A r \in Q : r.l \in Threads /\ r.ci \in Nat /\ r.ci <= Len(th[r.l].frames) /\ r \in P
  BY <1>5, PcallFacts
<1> HIDE DEF V, m, P
<1>8. ths \in [Threads -> ThreadSet] /\ ths[m] = th[m]
  BY <1>2, <1>4, Running0
<1>9. Handled(Q, ths, m, FALSE)
  <2>1. V.status # "err" => Settled(Q, V, L, Upto(V, FALSE))
    <3> SUFFICES ASSUME V.status # "err" PROVE Settled(Q, V, L, Len(V.frames))
      BY DEF Upto
    <3>1. Settled({}, T, L, Len(T.frames))
      BY <1>2
    <3>2. \A k : ~Protects({}, L, k)
      BY Zenon DEF Protects
    <3> QED
      BY <1>2, <3>1, <3>2, Zenon DEF Settled
  <2>2. Handled(P, th, L, Waiting)
    BY DEF Handles, P
  <2> DEFINE w == Waiting
             x == FALSE
  <2>3. (w => L = L) /\ (x => m = L) /\ Handled(P, th, L, w) /\ (V.status # "err" => Settled(Q, V, L, Upto(V, x)))
    BY <2>1, <2>2
  <2> HIDE DEF w, x, Q
  <2>4. /\ \A r \in Q : r.l \in Threads /\ (r.l # L => r \in P)
        /\ \A r \in Q : r.l = L => r.errf = HandlerAt(V.frames, r.ci - 1)
    BY <1>6, <1>7
  <2>5. L \in Threads /\ th \in [Threads -> ThreadSet]
    BY Running0
  <2>6. Handled(Q, [th EXCEPT ![L] = V], m, x)
    BY <1>5, <2>3, <2>4, <2>5, HandledOne
  <2> QED
    BY <2>6 DEF x
<1>10. \A r \in Q : r.l \in Threads /\ r.ci \in Nat /\ (r.l = m => r.ci <= Len(ths[m].frames))
  BY <1>7, <1>8
<1>11. ths[m].status # "err" /\ Len(ths[m].frames) > 0 /\ Last(ths[m].frames).kind \in {"resume", "wrap"}
  BY <1>4, <1>8
<1> HIDE DEF ths, s
<1> QED
  BY <1>3, <1>4, <1>8, <1>9, <1>10, <1>11, ResumerHandled

LEMMA TryEndsHandled == ASSUME Good(c, th, L, ctl), Handles, TryEnds PROVE Handles' \/ ctl'.go = "stop"
<1> DEFINE g == th[L].frames
           N == Len(c)
           r == c[N]
           T == Restored(th[L], r)
<1>1. ctl.go = "return" /\ r.at \in {"pcall", "resume"} /\ Last(c) = r /\ ~Waiting
  BY DEF TryEnds, Last, Waiting
<1>2. (r.at = "pcall" => r.ci = Len(g)) /\ (r.at = "resume" => Len(g) = 0)
  <2>1. Continues(r, g, ctl.go)
    BY GoodStep
  <2> QED
    BY <1>1, <2>1, Zenon DEF Continues, Deep
<1>3. /\ N \in Nat /\ N \in 1..N /\ r \in RecordSet /\ r.l = L /\ r.nC \in Int
      /\ r.at = "pcall" => r.errf \in Nat
  <2>1. N \in Nat /\ N \in 1..N /\ r \in RecordSet /\ r.l = L
    BY Running0
  <2>2. r.nC \in Int /\ (r.at = "pcall" => r.errf \in Nat)
    BY <1>1, <2>1, RecordFields
  <2> HIDE DEF N
  <2> QED
    BY <2>1, <2>2
<1>4. T \in ThreadSet /\ Others(T, th[L]) /\ T.frames = g /\ T.errf = th[L].errf
  BY <1>3, Running0, RestoredFields, RestoredErrf
<1> HIDE DEF T
<1>5. CASE r.at = "pcall"
  <2> DEFINE U == [T EXCEPT !.errf = r.errf]
  <2>1. U \in ThreadSet /\ U.frames = g
    BY <1>3, <1>4, <1>5, HandlerFields
  <2>2. U.errf = r.errf
    BY <1>4 DEF ThreadSet
  <2>3. AfterPcall(U, SubSeq(c, 1, N - 1))
    BY <1>1, <1>5 DEF TryEnds, Pop, T
  <2> HIDE DEF U
  <2>4. Len(U.frames) = r.ci /\ SameFrames(U, th[L], Len(U.frames))
    BY <1>2, <1>5, <2>1 DEF SameFrames
  <2>5. N \in 1..Len(c) /\ c[N].at = "pcall" /\ c[N].l = L
    BY <1>3, <1>5
  <2>6. Len(U.frames) = c[N].ci /\ U.errf = c[N].errf
    BY <2>2, <2>4
  <2> HIDE DEF N
  <2> QED
    BY <1>1, <2>1, <2>3, <2>4, <2>5, <2>6, AfterPcallHandled
<1>6. CASE r.at = "resume"
  <2>1. N \in 2..N
    <3>1. c[1].at = "pcall"
      BY StackFacts DEF Segments
    <3>2. N # 1
      BY <1>6, <3>1
    <3> HIDE DEF N
    <3> QED
      BY <1>3, <3>2
  <2>2. Leave(T, c[N], SubSeq(c, 1, N - 1), FALSE)
    BY <1>1, <1>6 DEF TryEnds, Pop, T
  <2>3. Settled({}, T, L, Len(T.frames))
    <3>1. Len(T.frames) = 0 /\ 0 \in Int
      BY <1>2, <1>4, <1>6
    <3>2. Settled(Pcalls(c), th[L], L, 0)
      BY <1>1, <1>2, <1>6, HandlesFacts DEF Upto
    <3>3. \A k \in 1..0 : FALSE
      OBVIOUS
    <3> QED
      BY <1>4, <3>1, <3>2, <3>3 DEF Settled
  <2>4. N \in 2..Len(c) /\ c[N].at = "resume" /\ c[N].l = L
    BY <1>3, <1>6, <2>1
  <2> HIDE DEF N
  <2> QED
    BY <1>1, <1>4, <2>2, <2>3, <2>4, LeaveHandled
<1> QED
  BY <1>1, <1>5, <1>6

\* No call of luaD_pcall is that of a thread whose resume is the last one.
LEMMA NoPcalls ==
  ASSUME Good(c, th, L, ctl), LastTry \in 2..Len(c), c[LastTry].at = "resume"
  PROVE  \A k : ~Protects(Pcalls(c), L, k)
<1> SUFFICES ASSUME NEW i \in 1..Len(c), c[i].at = "pcall", c[i].l = L PROVE FALSE
  BY Zenon DEF Protects, Pcalls
<1> DEFINE j == LastTry
<1>1. j \in 1..Len(c) /\ c[j].l = L /\ i <= j
  BY LastTryIs
<1>2. i # j
  BY DEF j
<1>3. i \in 1..(j - 1)
  BY <1>1, <1>2, Running0
<1>4. c[j].at = "resume"
  OBVIOUS
<1> HIDE DEF j
<1>5. \A x \in 1..(j - 1) : c[x].l # c[j].l
  BY <1>1, <1>4, Running0, StackFacts, OwnAbove
<1> QED
  BY <1>1, <1>3, <1>5

LEMMA RecoveredSettled ==
  ASSUME Good(c, th, L, ctl), Handles, ~Waiting, \A k : ~Protects(Pcalls(c), L, k), NEW Q,
         NEW R \in ThreadSet, NEW n \in Nat, n + 1 <= Len(th[L].frames), Len(R.frames) = n + 1,
         SameFrames(R, th[L], n + 1), R.frames[n + 1].ypcall
  PROVE  Settled(Q, Finished(R), L, n) /\ Len(Finished(R).frames) = n
<1> DEFINE P == Pcalls(c)
           V == th[L]
           T == R
           m == Len(V.frames)
           i == n
<1>1. m \in Nat
  BY Running0
<1>2. Settled(P, V, L, m) /\ StillProtects(P, Q, L, i)
  BY HandlesFacts DEF Upto, StillProtects
<1>3. T.frames[i + 1].ypcall \/ T.errf = HandlerAt(V.frames, i)
  OBVIOUS
<1>4. T \in ThreadSet /\ i \in Nat /\ i + 1 <= m /\ SameFrames(T, V, i + 1) /\ Len(T.frames) = i + 1
  OBVIOUS
<1> HIDE DEF P, V, m, T, i
<1>5. Settled(Q, Finished(T), L, i) /\ Len(Finished(T).frames) = i
  BY <1>1, <1>2, <1>3, <1>4, FinishSettled
<1> QED
  BY <1>5 DEF T, i

\* recover: the handler is the one that lua_pcallk kept.
LEMMA RecoverHandled ==
  ASSUME Good(c, th, L, ctl), Handles, ~Waiting, NEW j, j = LastTry, j \in 2..Len(c), c[j].at = "resume", c[j].l = L,
         NEW T \in ThreadSet, T.frames = th[L].frames,
         RecoverPoint(T) # 0, Recover(T, Append(SubSeq(c, 1, j - 1), c[j]))
  PROVE  Handles'
<1> DEFINE g == th[L].frames
           i == RecoverPoint(T)
           R == Recovered(T, i)
           U == Finished(R)
           V == th[L]
           s == SubSeq(c, 1, j - 1)
           r == UnrollRec(L)
           k == Ctl("unroll", "ok", "")
           stack == Append(Append(s, c[j]), r)
           P == Pcalls(c)
           Q == Pcalls(s)
           n == i - 1
           m == Len(g)
<1>1. Goes(U, stack, k)
  BY DEF Recover
<1>2. k.go # "body"
  BY NotBody
<1> HIDE DEF k
<1>3. g \in Seq(FrameSet) /\ Len(g) \in Nat /\ i \in 1..Len(g) /\ g[i].ypcall
  <2> DEFINE S == {x \in DOMAIN g : g[x].ypcall}
  <2>1. g \in Seq(FrameSet) /\ Len(g) \in Nat /\ DOMAIN g = 1..Len(g)
    BY Running0
  <2>2. i = Highest(S) /\ S \subseteq 1..Len(g)
    BY <2>1 DEF RecoverPoint
  <2> HIDE DEF S, i
  <2>3. i \in S
    BY <2>1, <2>2, HighestIs DEF i
  <2> QED
    BY <2>1, <2>3 DEF S
<1> HIDE DEF i
<1>4. n \in Nat /\ m \in Nat /\ n + 1 = i /\ n + 1 <= m /\ i \in 0..Len(g) /\ i > 0
  BY <1>3
<1>5. R \in ThreadSet /\ R.frames = SubSeq(g, 1, i)
  BY <1>3, RecoveredFields
<1>6. Len(R.frames) = i /\ SameFrames(R, V, i)
  <2>1. Len(SubSeq(g, 1, i)) = i /\ \A x \in 1..i : SubSeq(g, 1, i)[x] = g[x]
    BY <1>3, <1>4, Cut
  <2> QED
    BY <1>5, <2>1 DEF SameFrames
<1>7. R.frames[i].ypcall
  BY <1>3, <1>6 DEF SameFrames
<1> HIDE DEF R
<1>8. \A x : ~Protects(P, L, x)
  BY NoPcalls
<1>9. Pcalls(stack) = Q
  <2>1. j \in 1..Len(c) /\ j - 1 \in 0..Len(c)
    BY Running0
  <2>2. s \in Seq(RecordSet)
    <3> DEFINE h == j - 1
    <3>1. h \in 0..Len(c)
      BY <2>1
    <3> HIDE DEF h
    <3>2. SubSeq(c, 1, h) \in Seq(RecordSet)
      BY <3>1, Running0, Cut
    <3> QED
      BY <3>2 DEF h
  <2>3. c[j] \in RecordSet
    BY <2>1, StackFacts
  <2>4. r \in RecordSet /\ r.at # "pcall"
    BY Running0 DEF UnrollRec, RecordSet
  <2> HIDE DEF s, r
  <2> DEFINE q == Append(s, c[j])
  <2>5. q \in Seq(RecordSet) /\ Pcalls(q) = Pcalls(s)
    BY <2>2, <2>3, Grown, PcallsGrow
  <2> HIDE DEF q
  <2>6. Pcalls(Append(q, r)) = Pcalls(q)
    BY <2>4, <2>5, PcallsGrow
  <2> QED
    BY <2>5, <2>6 DEF q
<1>10. Q \subseteq P /\ \A t, x : t # L /\ Protects(P, t, x) => Protects(Q, t, x)
  BY Running0, PcallsBack
<1>11. \A x \in Q : x.l # L
  BY Running0, PcallsUnder
<1>12. \A x \in Q : x.l \in Threads /\ (x.l # L => x \in P)
  BY <1>10, PcallFacts
<1> HIDE DEF P, Q, stack
<1> HIDE DEF V, m, n
<1>13. Settled(Q, U, L, n) /\ Len(U.frames) = n
  <2>1. n + 1 <= Len(th[L].frames) /\ Len(R.frames) = n + 1 /\ SameFrames(R, th[L], n + 1) /\ R.frames[n + 1].ypcall
    BY <1>4, <1>6, <1>7 DEF V, m
  <2>2. \A x : ~Protects(Pcalls(c), L, x)
    BY <1>8 DEF P
  <2> QED
    BY <1>4, <1>5, <2>1, <2>2, RecoveredSettled
<1> HIDE DEF U
<1>14. ~Waiting'
  BY <1>1, <1>2, Running0, WaitingNext
<1>15. Settled(Q, U, L, Upto(U, Waiting'))
  BY <1>13, <1>14 DEF Upto
<1>16. Handled(Q, th', L', Waiting')
  <2> DEFINE w == Waiting
             x == Waiting'
  <2>1. Handled(P, th, L, w) /\ Settled(Q, U, L, Upto(U, x))
    BY <1>15 DEF Handles, P
  <2> HIDE DEF w, x
  <2>2. \A y \in Q : y.l = L => y.errf = HandlerAt(U.frames, y.ci - 1)
    BY <1>11
  <2>3. Handled(Q, th', L', x)
    BY <1>1, <1>10, <1>12, <2>1, <2>2, Running0, GoesHandled
  <2> QED
    BY <2>3 DEF x
<1>17. c' = stack
  BY <1>1 DEF Goes
<1> QED
  BY <1>9, <1>16, <1>17 DEF Handles, Pcalls

LEMMA JumpHandled == ASSUME Good(c, th, L, ctl), Handles, Jump PROVE Handles' \/ ctl'.go = "stop"
<1> DEFINE j == LastTry
           r == c[j]
           g == th[L].frames
           N == Len(c)
           T == Restored(th[L], r)
           P == Pcalls(c)
<1>1. ctl.go = "throw" /\ Caught(T, r, SubSeq(c, 1, j - 1)) /\ ~Waiting
  BY DEF Jump, Waiting
<1>2. j \in 1..N /\ r.at \in {"pcall", "resume"} /\ r.l = L /\ r \in RecordSet /\ (r.at = "resume" => j \in 2..N)
  BY LastTryIs
<1>3. r.nC \in Int /\ r.nny \in Int /\ (r.at = "pcall" => r.errf \in Nat /\ r.ci \in Nat)
  BY <1>2, RecordFields DEF Deep
<1>4. T \in ThreadSet /\ T.frames = g /\ T.errf = th[L].errf
  BY <1>3, Running0, RestoredFields, RestoredErrf
<1>5. g \in Seq(FrameSet) /\ Len(g) \in Nat
  BY Running0
<1>6. Settled(P, th[L], L, Len(g))
  BY <1>1, HandlesFacts DEF Upto
<1> HIDE DEF T
<1>7. CASE r.at = "pcall"
  <2> DEFINE E == PcallError(T, r)
  <2>1. r.ci \in 0..Len(g)
    <3>1. r.ci <= Len(g)
      BY <1>2, <1>7, StackFacts DEF Depths, Deep
    <3> QED
      BY <1>3, <1>5, <1>7, <3>1
  <2>2. E \in ThreadSet /\ E.frames = SubSeq(g, 1, r.ci) /\ E.errf = r.errf
    BY <1>3, <1>4, <1>7, <2>1, PcallErrorFields, PcallErrorErrf
  <2>3. Len(E.frames) = r.ci /\ SameFrames(E, th[L], Len(E.frames))
    <3> DEFINE d == r.ci
    <3>1. d \in 0..Len(g)
      BY <2>1
    <3> HIDE DEF d
    <3>2. Len(SubSeq(g, 1, d)) = d /\ \A k \in 1..d : SubSeq(g, 1, d)[k] = g[k]
      BY <1>5, <3>1, Cut
    <3> QED
      BY <2>2, <3>2 DEF d, SameFrames
  <2>4. AfterPcall(E, SubSeq(c, 1, j - 1))
    BY <1>1, <1>7 DEF Caught
  <2> HIDE DEF E
  <2>5. j \in 1..Len(c) /\ c[j].at = "pcall" /\ c[j].l = L /\ Len(E.frames) = c[j].ci /\ E.errf = c[j].errf
    BY <1>2, <1>7, <2>2, <2>3
  <2> HIDE DEF j
  <2> QED
    BY <1>1, <2>2, <2>3, <2>4, <2>5, AfterPcallHandled
<1>8. CASE r.at = "resume"
  <2>1. j \in 2..Len(c) /\ c[j].at = "resume" /\ c[j].l = L
    BY <1>2, <1>8
  <2>2. CASE ctl.st = "yield"
    <3>1. Leave(T, c[j], SubSeq(c, 1, j - 1), FALSE)
      BY <1>1, <1>8, <2>2 DEF Caught
    <3>2. Settled({}, T, L, Len(T.frames))
      <4>1. \A k : ~Protects(P, L, k)
        BY <2>1, NoPcalls
      <4> HIDE DEF P, j
      <4> QED
        BY <1>4, <1>6, <4>1, Zenon DEF Settled
    <3> HIDE DEF j
    <3> QED
      BY <1>1, <1>4, <2>1, <3>1, <3>2, LeaveHandled
  <2>3. CASE ctl.st # "yield" /\ RecoverPoint(T) # 0
    <3>1. Recover(T, Append(SubSeq(c, 1, j - 1), c[j]))
      BY <1>1, <1>8, <2>3 DEF Caught
    <3>2. j = LastTry
      OBVIOUS
    <3> HIDE DEF j
    <3> QED
      BY <1>1, <1>4, <2>1, <2>3, <3>1, <3>2, RecoverHandled
  <2>4. CASE ctl.st # "yield" /\ RecoverPoint(T) = 0
    <3> DEFINE E == [T EXCEPT !.status = "err"]
    <3>1. E \in ThreadSet /\ E.status = "err"
      BY <1>4 DEF ThreadSet
    <3>2. Leave(E, c[j], SubSeq(c, 1, j - 1), TRUE)
      BY <1>1, <1>8, <2>4 DEF Caught
    <3> HIDE DEF E, j
    <3> QED
      BY <1>1, <2>1, <3>1, <3>2, LeaveHandled
  <2> QED
    BY <2>2, <2>3, <2>4
<1> QED
  BY <1>2, <1>7, <1>8

LEMMA HandledOff ==
  ASSUME Good(c, th, L, ctl), Handles, ~Waiting
  PROVE  Handled(Pcalls(c), th, L, FALSE) /\ \A t \in Threads : th[t].status # "err" => Settled(Pcalls(c), th[t], t, Len(th[t].frames))
<1>1. Handled(Pcalls(c), th, L, Waiting)
  BY DEF Handles
<1>2. \A t \in Threads : th[t].status # "err" => Settled(Pcalls(c), th[t], t, Len(th[t].frames))
  BY <1>1, Zenon DEF Handled, Upto
<1>3. \A r \in Pcalls(c) : r.errf = HandlerAt(th[r.l].frames, r.ci - 1)
  BY <1>1, Zenon DEF Handled
<1>4. \A t : Upto(th[t], t = L /\ FALSE) = Len(th[t].frames)
  BY Zenon DEF Upto
<1>5. Handled(Pcalls(c), th, L, FALSE)
  BY <1>2, <1>3, <1>4, Zenon DEF Handled
<1> QED
  BY <1>2, <1>5

\* A thread is resumed.
Switched(co, T, stack) == th' = [th EXCEPT ![co] = T] /\ L' = co /\ c' = stack /\ ctl'.go # "body"
SameKinds(T, O, h) == \A i \in 1..h : T.frames[i].kind = O.frames[i].kind
LEMMA SwitchHandled ==
  ASSUME Good(c, th, L, ctl), Handles, ~Waiting, NEW co \in Threads, NEW T, NEW stack, Pcalls(stack) = Pcalls(c),
         Switched(co, T, stack), Settled(Pcalls(c), T, co, Len(T.frames)), NEW h \in Nat, SameKinds(T, th[co], h),
         \A r \in Pcalls(c) : r.l = co => r.ci - 1 <= h
  PROVE  Handles'
<1> DEFINE P == Pcalls(c)
           x == Waiting'
           w == FALSE
<1>1. ~x /\ (x => co = co) /\ (w => L = co) /\ Handled(P, th, L, w)
  BY HandledOff DEF Waiting, Switched
<1>2. \A r \in P : r.l \in Threads /\ (r.l # co => r \in P)
  BY PcallFacts
<1>3. ASSUME NEW r \in P, r.l = co PROVE r.errf = HandlerAt(T.frames, r.ci - 1)
  <2> DEFINE n == r.ci - 1
             f == T.frames
             g == th[co].frames
  <2>1. r.ci \in Nat
    BY <1>3, PcallFacts
  <2>2. n \in Int /\ \A i \in 1..n : i \in 1..h
    BY <1>3, <2>1
  <2>3. r.errf = HandlerAt(g, n)
    BY <1>3, HandledOff, Zenon DEF Handled
  <2> HIDE DEF n, f, g
  <2>4. \A i \in 1..n : f[i].kind = g[i].kind
    BY <2>2, Zenon DEF f, g, SameKinds
  <2>5. HandlerAt(f, n) = HandlerAt(g, n)
    BY <2>2, <2>4, HandlerSame
  <2> QED
    BY <2>3, <2>5 DEF f, n
<1>4. L \in Threads /\ th \in [Threads -> ThreadSet]
  BY Running0
<1> HIDE DEF P, x, w
<1>5. Settled(P, T, co, Upto(T, x))
  BY <1>1 DEF Upto, P
<1>6. Handled(P, [th EXCEPT ![co] = T], co, x)
  BY <1>1, <1>2, <1>3, <1>4, <1>5, HandledOne
<1>7. Handled(P, th', L', Waiting')
  BY <1>6 DEF x, Switched
<1>8. Pcalls(c') = P
  BY DEF Pcalls, P, Switched
<1> QED
  BY <1>7, <1>8 DEF Handles, Pcalls

LEMMA RunningErrf == ASSUME NEW T \in ThreadSet, NEW n \in Int PROVE Running(T, n).errf = T.errf
BY DEF Running, ThreadSet

LEMMA StartHandled ==
  ASSUME Good(c, th, L, ctl), Handles, ~Waiting, NEW co \in Threads, Resumable(th[co]),
         th[co].status # "yield", Start(co, Running(th[co], th[L].nC + 1))
  PROVE  Handles'
<1> DEFINE V == Running(th[co], th[L].nC + 1)
           f == Frame("lua", TRUE)
           T == Push(V, f)
           r == ResumeRec(co)
           P == Pcalls(c)
<1>1. th' = [th EXCEPT ![co] = T] /\ L' = co /\ c' = Append(c, r) /\ ctl' = Run
  <2>1. Run.go # "unroll"
    BY Controls
  <2> QED
    BY <2>1 DEF Start, Switch
<1>2. th[co] \in ThreadSet /\ th[co].frames = <<>> /\ th[L].nC + 1 \in Int /\ th[co].status = "ok"
  BY Running0 DEF Resumable
<1>3. V \in ThreadSet /\ V.frames = <<>> /\ V.errf = th[co].errf
  BY <1>2, RunningFields, RunningErrf
<1>4. f \in FrameSet /\ f.kind = "lua" /\ f.ypcall = FALSE
  BY FrameFields DEF Kinds
<1> HIDE DEF V, f
<1>5. T.frames = Append(V.frames, f) /\ T.errf = V.errf
  <2>1. 0 \in Int
    OBVIOUS
  <2> QED
    BY <1>3, <1>4, <2>1, PushFields, PushErrf
<1> HIDE DEF T
<1>6. T.frames \in Seq(FrameSet) /\ Len(T.frames) = 1 /\ T.frames[1] = f
  <2>1. Len(V.frames) = 0 /\ V.frames \in Seq(FrameSet)
    BY <1>3
  <2> QED
    BY <1>4, <1>5, <2>1, Pushed
<1>7. Settled(P, th[co], co, 0)
  BY <1>2, HandledOff
<1>8. Settled(P, T, co, 1)
  <2> DEFINE n == 0
             O == th[co]
  <2>1. n \in Nat /\ n + 1 = 1 /\ Settled(P, O, co, n)
    BY <1>7
  <2>2. /\ \A k \in 1..n : Alike(T.frames[k], O.frames[k]) /\ (Protects(P, co, k) => Protects(P, co, k))
        /\ f = T.frames[n + 1] /\ f.kind \notin Protecting /\ ~f.ypcall /\ T.errf = O.errf
    BY <1>3, <1>4, <1>5, <1>6 DEF Protecting
  <2>3. O.errf = HandlerAt(O.frames, n)
    BY <2>1 DEF Settled
  <2> HIDE DEF n, O, P
  <2>4. Settled(P, T, co, n + 1)
    BY <2>1, <2>2, <2>3, SettledNext
  <2> QED
    BY <2>1, <2>4
<1>9. \A x \in P : x.l = co => x.ci - 1 <= 0
  <2>1. \A x \in P : x.l = co => x.ci \in Nat /\ x.ci <= 0
    BY <1>2, PcallFacts
  <2> QED
    BY <2>1
<1>10. Pcalls(Append(c, r)) = P
  <2>1. th[co].nny \in Int
    BY <1>2, ThreadFields
  <2>2. r \in RecordSet /\ r.at # "pcall"
    BY <1>2, <2>1, Running0 DEF ResumeRec, RecordSet
  <2> HIDE DEF r
  <2> QED
    BY <2>2, Running0, PcallsGrow
<1>11. ctl'.go # "body"
  BY <1>1, NotBody
<1> DEFINE h == 0
           stack == Append(c, r)
<1>12. h \in Nat /\ SameKinds(T, th[co], h) /\ Settled(P, T, co, Len(T.frames))
       /\ (\A x \in P : x.l = co => x.ci - 1 <= h) /\ c' = stack /\ Pcalls(stack) = P
  BY <1>1, <1>6, <1>8, <1>9, <1>10 DEF SameKinds
<1> HIDE DEF r, h, stack, P
<1>13. P = Pcalls(c)
  BY DEF P
<1>14. Switched(co, T, stack)
  BY <1>1, <1>11, <1>12 DEF Switched
<1> QED
  BY <1>12, <1>13, <1>14, SwitchHandled

LEMMA ContinueHandled ==
  ASSUME Good(c, th, L, ctl), Handles, ctl.go = "body", ~Waiting, NEW co \in Threads,
         th[co].status = "yield", Continue(co, Running(th[co], th[L].nC + 1))
  PROVE  Handles'
<1> DEFINE O == th[co]
           V == Running(O, th[L].nC + 1)
           T == [V EXCEPT !.frames = Pop(@)]
           r == ResumeRec(co)
           u == UnrollRec(co)
           stack == Append(Append(c, r), u)
           k == Ctl("unroll", "ok", "")
           g == O.frames
           P == Pcalls(c)
           n == Len(g) - 1
<1>a. k.go = "unroll"
  BY NotBody
<1>1. th' = [th EXCEPT ![co] = T] /\ L' = co /\ c' = stack /\ ctl' = k
  BY <1>a DEF Continue, Switch
<1> HIDE DEF k
<1>2. O \in ThreadSet /\ g \in Seq(FrameSet) /\ Len(g) \in Nat /\ th[L].nC + 1 \in Int /\ O.nny \in Int
  <2>1. O \in ThreadSet /\ th[L].nC + 1 \in Int
    BY Running0
  <2> HIDE DEF O
  <2> QED
    BY <2>1, ThreadFields
<1>3. Len(g) > 0 /\ g[Len(g)].kind = "yield"
  <2>1. SuspendedCanGoOn /\ Going
    <3>1. Going
      BY DEF Going
    <3> QED
      BY <3>1, GoodSuspended
  <2> QED
    BY <2>1 DEF SuspendedCanGoOn
<1>4. V \in ThreadSet /\ V.frames = g /\ V.errf = O.errf
  BY <1>2, RunningFields, RunningErrf
<1> HIDE DEF V
<1>5. T.frames = Pop(g) /\ T.errf = O.errf
  <2>1. T.frames = Pop(g)
    BY <1>3, <1>4, PopFields
  <2>2. T.errf = V.errf
    BY <1>4 DEF ThreadSet
  <2> QED
    BY <1>4, <2>1, <2>2
<1> HIDE DEF T
<1>6. n \in Nat /\ n + 1 = Len(g) /\ n <= n + 1 /\ n + 1 \in Nat
  BY <1>2, <1>3
<1>7. Len(T.frames) = n /\ \A i \in 1..n : T.frames[i] = g[i]
  <2> HIDE DEF g
  <2>1. Len(Pop(g)) = Len(g) - 1 /\ \A i \in 1..Len(Pop(g)) : Pop(g)[i] = g[i]
    BY <1>2, <1>3, Popped
  <2> QED
    BY <1>5, <2>1
<1> HIDE DEF n
<1>8. Settled(P, O, co, n + 1)
  BY <1>6, HandledOff
<1>9. Settled(P, T, co, n)
  <2>1. O.errf = HandlerAt(O.frames, n)
    <3>1. O.frames[n + 1].kind \notin Protecting
      BY <1>3, <1>6 DEF Protecting
    <3> HIDE DEF O, P
    <3> QED
      BY <1>6, <1>8, <3>1, NotProtecting
  <2>2. \A i \in 1..n : Alike(T.frames[i], O.frames[i])
    BY <1>7, Zenon DEF Alike
  <2> DEFINE m == n + 1
  <2>3. m \in Nat /\ n <= m /\ Settled(P, O, co, m) /\ T.errf = HandlerAt(O.frames, n)
    BY <1>5, <1>6, <1>8, <2>1
  <2> HIDE DEF O, P, m
  <2> QED
    BY <1>6, <2>2, <2>3, SettledBelow
<1>10. \A x \in P : x.l = co => x.ci - 1 <= n
  <2>1. \A x \in P : x.l = co => x.ci \in Nat /\ x.ci <= Len(g)
    BY PcallFacts
  <2> QED
    BY <1>6, <2>1
<1>11. Pcalls(stack) = P
  <2>1. r \in RecordSet /\ r.at # "pcall"
    BY <1>2, Running0 DEF ResumeRec, RecordSet
  <2>2. u \in RecordSet /\ u.at # "pcall"
    BY DEF UnrollRec, RecordSet
  <2> HIDE DEF r, u
  <2> DEFINE s == Append(c, r)
  <2>3. s \in Seq(RecordSet) /\ Pcalls(s) = P
    BY <2>1, Running0, Grown, PcallsGrow
  <2> HIDE DEF s
  <2>4. Pcalls(Append(s, u)) = Pcalls(s)
    BY <2>2, <2>3, PcallsGrow
  <2> QED
    BY <2>3, <2>4 DEF s
<1>12. ctl'.go # "body"
  BY <1>1, <1>a
<1>13. Settled(P, T, co, Len(T.frames)) /\ SameKinds(T, th[co], n)
  BY <1>7, <1>9 DEF SameKinds
<1> HIDE DEF stack, P
<1>14. P = Pcalls(c)
  BY DEF P
<1>15. Switched(co, T, stack)
  BY <1>1, <1>12 DEF Switched
<1> QED
  BY <1>6, <1>10, <1>11, <1>13, <1>14, <1>15, SwitchHandled

LEMMA ResumeHandled == ASSUME Good(c, th, L, ctl), Handles, NEW co \in Threads, Resume(co) PROVE Handles'
<1>1. ctl.go = "body" /\ Top.kind \in {"resume", "wrap"} /\ ~Waiting
  <2>1. ctl.go = "body" /\ Top.kind \in {"resume", "wrap"}
    BY DEF Resume
  <2>2. Top.kind \notin Protecting
    BY <2>1 DEF Protecting
  <2> QED
    BY <2>1, <2>2 DEF Waiting
<1>2. CASE Resumer(L, th, c, TRUE)
  <2>1. Handled(Pcalls(c), th, L, FALSE) /\ th[L].status # "err"
    BY <1>1, HandledOff, HandlesFacts
  <2>2. Len(th[L].frames) > 0 /\ Last(th[L].frames).kind \in {"resume", "wrap"}
    BY <1>1, InBody DEF Top
  <2>3. \A r \in Pcalls(c) : r.l \in Threads /\ r.ci \in Nat /\ (r.l = L => r.ci <= Len(th[L].frames))
    BY PcallFacts
  <2> QED
    BY <1>2, <2>1, <2>2, <2>3, Running0, ResumerHandled
<1>3. CASE Resumable(th[co]) /\ th[co].status = "yield" /\ Continue(co, Running(th[co], th[L].nC + 1))
  BY <1>1, <1>3, ContinueHandled
<1>4. CASE Resumable(th[co]) /\ th[co].status # "yield" /\ Start(co, Running(th[co], th[L].nC + 1))
  BY <1>1, <1>4, StartHandled
<1> QED
  BY <1>2, <1>3, <1>4 DEF Resume

LEMMA InitHandled == ASSUME ThreadsInit PROVE Handles
<1> DEFINE W == NewThread(1)
           M == [W EXCEPT !.start = FALSE]
           r == PcallRec(th["main"])
<1>1. /\ "main" \in Threads /\ L = "main" /\ c = <<r>> /\ ctl = Call(TRUE)
      /\ th = [t \in Threads |-> IF t = "main" THEN M ELSE W]
  BY DEF ThreadsInit, Threads
<1>2. /\ W.frames = <<>> /\ W.errf = 0 /\ M.frames = <<>> /\ M.errf = 0
  BY DEF NewThread
<1> HIDE DEF W, M
<1>3. \A t \in Threads : Len(th[t].frames) = 0 /\ th[t].errf = 0
  BY <1>1, <1>2
<1>4. r.l \in Threads /\ r.ci = 0 /\ r.errf = 0
  BY <1>1, <1>3 DEF PcallRec
<1> HIDE DEF r
<1>5. Pcalls(c) \subseteq {r}
  BY <1>1 DEF Pcalls
<1>6. ~Waiting
  BY <1>1, NotBody DEF Waiting
<1>7. \A g : HandlerAt(g, 0) = 0 /\ HandlerAt(g, 0 - 1) = 0
  BY HandlerNone
<1>8. ASSUME NEW t \in Threads PROVE Settled(Pcalls(c), th[t], t, Upto(th[t], t = L /\ Waiting))
  <2>1. Upto(th[t], t = L /\ Waiting) = 0
    BY <1>3, <1>6 DEF Upto
  <2>2. \A k \in 1..0 : FALSE
    OBVIOUS
  <2> QED
    BY <1>3, <1>7, <2>1, <2>2 DEF Settled
<1>9. \A x \in Pcalls(c) : x.errf = HandlerAt(th[x.l].frames, x.ci - 1)
  BY <1>4, <1>5, <1>7
<1> QED
  BY <1>8, <1>9 DEF Handles, Handled

LEMMA StepHandled ==
  ASSUME Good(c, th, L, ctl), Handles, [ThreadsNext]_threadVars
  PROVE  Handles' \/ ctl'.go = "stop"
<1>1. CASE ThreadsNext
  BY <1>1, DoCallHandled, ErrorMsgHandled, ReturnedHandled, PcallHandled, YieldHandled, UnrollHandled, TryEndsHandled,
     JumpHandled, CallFunctionHandled, ErrorHandled, CallBackHandled, ReturnHandled, ResumeHandled, Zenon DEF ThreadsNext
<1>2. CASE UNCHANGED threadVars
  BY <1>2 DEF threadVars, Handles, Handled, Pcalls, Waiting, Top
<1> QED
  BY <1>1, <1>2

\* The call of luaD_pcall that an error gets to is that of the innermost pcall.
LEMMA CaughtByPcall ==
  ASSUME Good(c, th, L, ctl), Handles, ~Waiting, c[LastTry].at = "pcall"
  PROVE  Innermost = c[LastTry].ci
<1> DEFINE g == th[L].frames
           n == Len(g)
           S == {k \in DOMAIN g : g[k].kind \in Protecting}
           j == LastTry
           d == c[j].ci
<1>1. g \in Seq(FrameSet) /\ n \in Nat /\ DOMAIN g = 1..n
  BY Running0
<1>2. j \in 1..Len(c) /\ c[j].l = L /\ d \in Nat /\ Deep(c[j])
  <2>1. j \in 1..Len(c) /\ c[j].l = L /\ Deep(c[j])
    BY LastTryIs DEF Deep
  <2> HIDE DEF j
  <2> QED
    BY <2>1, StackFacts
<1>3. Innermost = Highest(S)
  BY DEF Innermost
<1>4. Settled(Pcalls(c), th[L], L, n)
  BY HandlesFacts DEF Upto
<1>5. \A i \in 1..Len(c) : c[i].at = "pcall" => i <= j
  BY LastTryIs
<1>6. c[j].at = "pcall"
  OBVIOUS
<1> HIDE DEF j, n
<1>7. ASSUME NEW k \in S PROVE k <= d
  <2>1. k \in 1..n /\ k \in Nat /\ g[k].kind \in Protecting
    BY <1>1, <1>7
  <2>2. CASE g[k].ypcall
    <3>1. k > d => ~g[k].ypcall
      BY <1>2, <1>6, <2>1, StackFacts, Zenon DEF NoYpcalls, n
    <3> QED
      BY <1>2, <2>1, <2>2, <3>1
  <2>3. CASE Protects(Pcalls(c), L, k)
    <3>1. PICK i \in 1..Len(c) : c[i].at = "pcall" /\ c[i].l = L /\ c[i].ci = k
      BY <2>3, Zenon DEF Protects, Pcalls
    <3>2. Deep(c[i]) /\ i <= j
      BY <1>5, <3>1 DEF Deep
    <3>3. i < j => c[i].ci <= c[j].ci
      BY <1>2, <3>1, <3>2, StackFacts, Zenon DEF Depths
    <3> QED
      BY <1>2, <2>1, <3>1, <3>2, <3>3
  <2> QED
    BY <1>4, <2>1, <2>2, <2>3, Zenon DEF Settled
<1>8. d # 0 => d \in S
  <2> SUFFICES ASSUME d # 0 PROVE d \in S
    OBVIOUS
  <2>1. j # 1
    BY StackFacts DEF Segments
  <2>2. j \in 2..Len(c)
    BY <1>2, <2>1
  <2>3. Within(c[j - 1], g, d, Protecting)
    BY <1>2, <1>6, <2>2, StackFacts DEF Linked, WaitsAt
  <2> QED
    BY <1>1, <2>3 DEF Within, n
<1>9. S \subseteq 1..n
  BY <1>1
<1> HIDE DEF S, d
<1>10. Highest(S) = d
  <2>1. CASE d = 0
    <3>1. S = {}
      BY <1>1, <1>7, <1>9, <2>1
    <3> QED
      BY <2>1, <3>1 DEF Highest
  <2>2. CASE d # 0
    BY <1>1, <1>7, <1>8, <1>9, <2>2, HighestAt
  <2> QED
    BY <2>1, <2>2
<1> QED
  BY <1>3, <1>10 DEF d, j

\* The call that recover continues is that of the innermost pcall.
LEMMA CaughtByResume ==
  ASSUME Good(c, th, L, ctl), Handles, ~Waiting, c[LastTry].at = "resume"
  PROVE  Innermost = RecoverPoint(th[L])
<1> DEFINE g == th[L].frames
           n == Len(g)
<1>1. DOMAIN g = 1..n
  BY Running0
<1>2. Settled(Pcalls(c), th[L], L, n)
  BY HandlesFacts DEF Upto
<1>3. \A k : ~Protects(Pcalls(c), L, k)
  BY LastTryIs, NoPcalls
<1>4. \A k \in 1..n : g[k].kind \in Protecting => g[k].ypcall
  BY <1>2, <1>3, Zenon DEF Settled
<1>5. \A k \in 1..n : g[k].ypcall => g[k].kind \in Protecting
  BY StackFacts, Zenon DEF Ypcalls
<1> DEFINE A == {k \in DOMAIN g : g[k].kind \in Protecting}
           B == {k \in DOMAIN g : g[k].ypcall}
<1>6. A = B
  BY <1>1, <1>4, <1>5
<1>7. Innermost = Highest(A) /\ RecoverPoint(th[L]) = Highest(B)
  BY DEF Innermost, RecoverPoint
<1> HIDE DEF A, B
<1> QED
  BY <1>6, <1>7

LEMMA GoodErrors == ASSUME Good(c, th, L, ctl), Handles PROVE ErrorsReachInnermost
<1> SUFFICES ASSUME ~Waiting
             PROVE  /\ Catcher = Innermost
                    /\ th[L].errf = (IF Innermost # 0 /\ th[L].frames[Innermost].kind = "xpcall" THEN Innermost ELSE 0)
  BY DEF ErrorsReachInnermost
<1>1. Catcher = Innermost
  <2>1. c[LastTry].at \in {"pcall", "resume"}
    BY LastTryIs
  <2>2. CASE c[LastTry].at = "pcall"
    BY <2>2, CaughtByPcall DEF Catcher
  <2>3. CASE c[LastTry].at = "resume"
    BY <2>3, CaughtByResume DEF Catcher
  <2> QED
    BY <2>1, <2>2, <2>3
<1>2. th[L].errf = (IF Innermost # 0 /\ th[L].frames[Innermost].kind = "xpcall" THEN Innermost ELSE 0)
  <2> DEFINE g == th[L].frames
             n == Len(g)
             A == {k \in DOMAIN g : g[k].kind \in Protecting}
             B == {k \in 1..n : g[k].kind \in Protecting}
  <2>1. DOMAIN g = 1..n
    BY Running0
  <2>2. A = B
    BY <2>1
  <2>3. Settled(Pcalls(c), th[L], L, n)
    BY HandlesFacts DEF Upto
  <2>4. th[L].errf = IF Highest(B) # 0 /\ g[Highest(B)].kind = "xpcall" THEN Highest(B) ELSE 0
    BY <2>3 DEF Settled, HandlerAt
  <2>5. Innermost = Highest(A)
    BY DEF Innermost
  <2> HIDE DEF A, B
  <2> QED
    BY <2>2, <2>4, <2>5
<1> QED
  BY <1>1, <1>2

\* The inductive invariant.
EInv == Going => Good(c, th, L, ctl) /\ Handles

(***************************************************************************)
(* However calls of pcall and xpcall nest over coroutines that yield, are  *)
(* resumed and fail: an error gets to the innermost one of its thread      *)
(* (luaD_pcall, or recover after a yield), and without one to the resumer, *)
(* and the message handler is always that of the innermost one.            *)
(***************************************************************************)
THEOREM ErrorsGoInnermost == ThreadsSpec => []ErrorsReachInnermost
<1>1. ThreadsInit => EInv
  BY InitGood, InitHandled DEF EInv
<1>2. EInv /\ [ThreadsNext]_threadVars => EInv'
  <2>1. CASE Going
    BY <2>1, StepGood, StepHandled DEF EInv, Going
  <2>2. CASE ~Going
    BY <2>2, StopsForGood DEF EInv
  <2> QED
    BY <2>1, <2>2
<1>3. EInv => ErrorsReachInnermost
  <2>1. CASE Going
    BY <2>1, GoodErrors DEF EInv
  <2>2. CASE ~Going
    BY <2>2 DEF ErrorsReachInnermost
  <2> QED
    BY <2>1, <2>2
<1> QED
  BY <1>1, <1>2, <1>3, PTL DEF ThreadsSpec
=============================================================================
