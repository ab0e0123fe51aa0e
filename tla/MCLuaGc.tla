------------------------------ MODULE MCLuaGc ------------------------------
(***************************************************************************)
(* Small heaps for the collector.                                          *)
(***************************************************************************)
EXTENDS LuaGc, TLC

VARIABLE part
vars == <<gcVars, part>>

MCKind == <<"table", "table", "udata", "table", "table", "string">>
Pad(s, x) == [o \in Objs |-> IF o <= Len(s) THEN s[o] ELSE x]
Heap(m, k, v, r, a, f, n) ==
  [mode |-> Pad(m, ""), key |-> Pad(k, 0), val |-> Pad(v, 0), roots |-> r, allgc |-> a, finobj |-> f, ops |-> n]

\* 1 on the stack refers to 2 and 3 somehow, 2 to 3; 3 may have a finalizer.
ProgramHeaps ==
  {Heap(<<e[1], e[2]>>, <<e[3]>>, <<e[4], 3, 2>>, {1}, <<1, 2>>, <<3>>, e[5]) :
     e \in {<<"", "", 0, 2, 2>>, <<"", "kv", 0, 2, 1>>, <<"k", "", 2, 3, 2>>}}

\* Ephemerons on the stack, whose values may be keys of each other; and weak
\* tables that refer to each other, strings as keys and values.
WeakHeaps ==
  {Heap(<<"k", "k", "", "k">>, <<k, l, 0, n>>, <<v, w, 0, x>>, {1, 2, 4}, a[1], a[2], 0) :
      k \in {3, 5}, l \in {1, 5}, n \in {3, 5}, v \in {5, 6}, w \in {3, 5}, x \in {3}, a \in {<< <<1, 2, 3, 4, 5, 6>>, <<>> >>, << <<1, 2, 4, 6>>, <<3, 5>> >>}}
    \cup
  {Heap(<<m, n>>, <<k, l>>, <<v, 4, 0, x>>, {1}, a[1], a[2], 0) :
      m \in {"k", "v", "kv"}, n \in {"k", ""}, k \in {2, 4, 6}, l \in {4, 6}, v \in {2, 4, 6}, x \in {1}, a \in {<< <<1, 2, 4, 6>>, <<>> >>, << <<1, 2, 6>>, <<4>> >>}}

\* Objects with finalizers that are all lost at once.
LostHeaps == {Heap(<<>>, <<>>, <<4, 4, 4>>, {1}, <<1, 4>>, <<2, 3>>, 1)}

\* More of them than a step sweeps.
ManyHeaps == {Heap(<<>>, <<>>, <<5, 5, 5, 5>>, {1}, <<1, 5>>, <<2, 3, 4>>, 0)}

MCHeaps == ProgramHeaps \cup WeakHeaps \cup LostHeaps
MCModeChanges == {<<"", m>> : m \in {"k", "v", "kv"}} \cup {<<m, "kv">> : m \in {"k", "v"}}

MCInit == \E h \in Heaps : StartFrom(h) /\ part = IF h \in LostHeaps THEN "lost" ELSE "other"
MCNext == Next /\ part' = part
Running(A) == part = "lost" /\ part' = part /\ A
MCFairness == WF_vars(Running(Collector)) /\ WF_vars(Running(Return)) /\ WF_vars(Running(Step))
MCSpec == MCInit /\ [][MCNext]_vars /\ MCFairness

SomeGarbage == part = "lost" /\ \E o \in Objs : Garbage(o)

\* What the program has lost is freed, or comes back through a finalizer.
GarbageFreed == SomeGarbage ~> ~SomeGarbage
=============================================================================
