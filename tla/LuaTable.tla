------------------------------ MODULE LuaTable ------------------------------
(***************************************************************************)
(* Tables of the Lua interpreter (lua/ltable.c): an array part and a       *)
(* chained scatter table with Brent's variation, grown by rehash, under    *)
(* any sequence of assignments, collections of keys, and one traversal     *)
(* with next.  map is what the table stands for.  A key is a number; 0 is  *)
(* nil, and minus a key is that key dead.                                  *)
(***************************************************************************)
EXTENDS Integers, Sequences, FiniteSets

CONSTANTS
  MaxInt,     \* integer keys 1..MaxInt
  IntLimit,   \* MAX_INT, the largest index doubling may give
  Floats,     \* float keys with an integral value, and Float[k] that value
  Float,
  Others,     \* other keys, collectable
  Hash,       \* the hashes of the keys that are not integers
  Shapes      \* <<narray, nhash>> of lua_createtable

VARIABLES t, map, it, seen, op
vars == <<t, map, it, seen, op>>

Ints == 1..MaxInt
Keys == Ints \cup Others
Nil == 0

Size(h) == Cardinality(DOMAIN h.node)

\* luaV_tointeger in luaH_get and luaH_newkey.
Normal(k) == IF k \in Floats THEN Float[k] ELSE k

MainPosition(h, k) == (IF k \in DOMAIN Hash THEN Hash[k] ELSE k) % Size(h)

EmptyNode == [key |-> Nil, val |-> Nil, next |-> 0]
RECURSIVE CeilLog2(_)
CeilLog2(n) == IF n <= 1 THEN 0 ELSE 1 + CeilLog2((n + 1) \div 2)
NodeVector(size) == IF size = 0 THEN <<>> ELSE [i \in 0..(2^CeilLog2(size) - 1) |-> EmptyNode]

\* The chain of a key from node n on: where it is, -1 if nowhere.
RECURSIVE Chain(_, _, _)
Chain(h, n, keys) ==
  IF h.node[n].key \in keys THEN n
  ELSE IF h.node[n].next = 0 THEN -1 ELSE Chain(h, n + h.node[n].next, keys)

None == <<"none", 0>>
InNode(n) == IF n < 0 THEN None ELSE <<"node", n>>

\* luaH_get, luaH_getint, getgeneric: the place of a key.
Place(h, k) ==
  IF k \in 1..Len(h.arr) THEN <<"arr", k>>
  ELSE IF h.node = <<>> THEN None
  ELSE InNode(Chain(h, MainPosition(h, k), {k}))

Value(h, place) == CASE place[1] = "arr" -> h.arr[place[2]] [] place[1] = "node" -> h.node[place[2]].val [] OTHER -> Nil
Put(h, place, v) == IF place[1] = "arr" THEN [h EXCEPT !.arr[place[2]] = v] ELSE [h EXCEPT !.node[place[2]].val = v]
Get(h, k) == Value(h, Place(h, Normal(k)))

\* getfreepos: downwards to a node that never had a key; -1 if none is left.
FreePos(h) ==
  LET free == {n \in 0..(h.lastfree - 1) : h.node[n].key = Nil}
  IN  IF free = {} THEN -1 ELSE CHOOSE n \in free : \A m \in free : m <= n

RECURSIVE Previous(_, _, _)
Previous(h, n, mp) == IF n + h.node[n].next = mp THEN n ELSE Previous(h, n + h.node[n].next, mp)

\* gnext(f) += mp - f, if the node that moves has a successor.
ChainMoved(h, f, mp) == IF h.node[mp].next = 0 THEN 0 ELSE h.node[mp].next + (mp - f)

\* The colliding node is out of its main position: it moves to f.
MoveColliding(h, k, mp, f) ==
  LET prev == Previous(h, MainPosition(h, h.node[mp].key), mp)
      moved == [h EXCEPT !.node[prev].next = f - prev, !.node[f] = [h.node[mp] EXCEPT !.next = ChainMoved(h, f, mp)]]
  IN  [h |-> [moved EXCEPT !.node[mp] = [key |-> k, val |-> Nil, next |-> 0]], place |-> <<"node", mp>>]

\* The colliding node is in its main position: the new one goes to f.
ChainNew(h, k, mp, f) ==
  [h |-> [h EXCEPT !.node[f] = [key |-> k, val |-> h.node[f].val,
                                next |-> IF h.node[mp].next # 0 THEN mp + h.node[mp].next - f ELSE h.node[f].next],
                   !.node[mp].next = f - mp],
   place |-> <<"node", f>>]

Max0(S) == IF S = {} THEN 0 ELSE CHOOSE n \in S : \A m \in S : m <= n

MoreThanHalf(used, n) == used > n \div 2

(***************************************************************************)
(* computesizes: powers of two as long as the integer keys could fill more *)
(* than half; the last one of which more than half is in use.              *)
(***************************************************************************)
ComputeSizes(ints) ==
  LET Below(n) == Cardinality({k \in ints : k <= n})
      tried == {n \in {2^i : i \in 0..MaxInt} : Cardinality(ints) > n \div 2}
  IN  Max0({n \in tried : MoreThanHalf(Below(n), n)})

\* Faulty: whoever has the place keeps it.
NeverDisplaced(h, mp) == FALSE

Displaced(h, mp) == MainPosition(h, h.node[mp].key) # mp

RECURSIVE NewKey(_, _)
RECURSIVE Reinsert(_, _, _)
RECURSIVE ReinsertSlice(_, _, _)

\* luaH_set: the place of a key, made if need be.
SetPlace(h, k) == LET p == Place(h, k) IN IF p # None THEN [h |-> h, place |-> p] ELSE NewKey(h, k)

\* luaH_resize: the vanishing part of the array first, then the old nodes
\* from the last to the first.
ReinsertSlice(h, i, old) ==
  IF i > Len(old) THEN h
  ELSE IF old[i] = Nil THEN ReinsertSlice(h, i + 1, old)
  ELSE LET r == SetPlace(h, i) IN ReinsertSlice(Put(r.h, r.place, old[i]), i + 1, old)
Reinsert(h, j, old) ==
  IF j < 0 THEN h
  ELSE IF old[j].val = Nil THEN Reinsert(h, j - 1, old)
  ELSE LET r == SetPlace(h, old[j].key) IN Reinsert(Put(r.h, r.place, old[j].val), j - 1, old)
Resize(h, nasize, nhsize) ==
  LET arr == [i \in 1..nasize |-> IF i <= Len(h.arr) THEN h.arr[i] ELSE Nil]
      fresh == [arr |-> arr, node |-> NodeVector(nhsize), lastfree |-> IF nhsize = 0 THEN 0 ELSE 2^CeilLog2(nhsize)]
  IN  Reinsert(ReinsertSlice(fresh, nasize + 1, h.arr), Size(h) - 1, h.node)

\* rehash: all keys in use and the new one are counted.
Rehash(h, k) ==
  LET used == {i \in 1..Len(h.arr) : h.arr[i] # Nil} \cup {h.node[n].key : n \in {m \in DOMAIN h.node : h.node[m].val # Nil}} \cup {k}
      asize == ComputeSizes(used \cap Ints)
  IN  Resize(h, asize, Cardinality(used) - Cardinality({i \in used \cap Ints : i <= asize}))

NewKey(h, k) ==
  LET mp == IF h.node = <<>> THEN 0 ELSE MainPosition(h, k)
      f == FreePos(h)
      taken == [h EXCEPT !.lastfree = IF f < 0 THEN 0 ELSE f]
  IN  IF h.node # <<>> /\ h.node[mp].val = Nil THEN [h |-> [h EXCEPT !.node[mp].key = k], place |-> <<"node", mp>>]
      ELSE IF f < 0 THEN SetPlace(Rehash(taken, k), k)
      ELSE IF Displaced(h, mp) THEN MoveColliding(taken, k, mp, f)
      ELSE ChainNew(taken, k, mp, f)

-----------------------------------------------------------------------------
(***************************************************************************)
(* next: <<the key after k, or 0 at the end>>; -1 is the error.            *)
(***************************************************************************)
\* Faulty: a dead key is not recognised.
LiveOnly(k) == {k}

\* findindex: the key may be dead already.
SameKey(k) == {k, -k}

FindIndex(h, k) ==
  IF k = Nil THEN 0
  ELSE IF k \in 1..Len(h.arr) THEN k
  ELSE IF h.node = <<>> THEN -1
  ELSE LET n == Chain(h, MainPosition(h, k), SameKey(k)) IN IF n < 0 THEN -1 ELSE n + 1 + Len(h.arr)

NextKey(h, k) ==
  LET i == FindIndex(h, k)
      arr == {j \in (i + 1)..Len(h.arr) : h.arr[j] # Nil}
      nodes == {n \in DOMAIN h.node : n >= i - Len(h.arr) /\ h.node[n].val # Nil}
      First(S) == CHOOSE n \in S : \A m \in S : n <= m
  IN  IF i = -1 THEN -1 ELSE IF arr # {} THEN First(arr) ELSE IF nodes # {} THEN h.node[First(nodes)].key ELSE Nil

\* unbound_search: double until a nil is found, then halve; but look at one key
\* after the other when doubling would overflow.
RECURSIVE Halve(_, _, _)
Halve(h, i, j) == IF j - i <= 1 THEN i
  ELSE LET m == (i + j) \div 2 IN IF Get(h, m) = Nil THEN Halve(h, i, m) ELSE Halve(h, m, j)
Linear(h) == CHOOSE i \in 0..MaxInt : Get(h, i + 1) = Nil /\ \A k \in 1..i : Get(h, k) # Nil
RECURSIVE Double(_, _, _)
Double(h, i, j) ==
  IF Get(h, j) = Nil THEN Halve(h, i, j) ELSE IF j > IntLimit \div 2 THEN Linear(h) ELSE Double(h, j, 2 * j)
UnboundSearch(h, j) == Double(h, j, j + 1)

GetN(h) ==
  LET j == Len(h.arr)
  IN  IF j > 0 /\ h.arr[j] = Nil THEN Halve(h, 0, j)
      ELSE IF h.node = <<>> THEN j ELSE UnboundSearch(h, j)

-----------------------------------------------------------------------------
NoKey == -1     \* no traversal is going on

Init ==
  /\ \E s \in Shapes : t = Resize([arr |-> <<>>, node |-> <<>>, lastfree |-> 0], s[1], s[2])
  /\ map = [k \in Keys |-> Nil] /\ it = NoKey /\ seen = {} /\ op = <<"", Nil>>

\* t[k] = v; while a table is traversed only fields that exist are assigned.
Set == \E k \in Keys \cup Floats, v \in {Nil, 1} :
  LET r == SetPlace(t, Normal(k)) key == IF k \in Floats THEN Float[k] ELSE k
  IN  /\ it = NoKey \/ map[key] # Nil
      /\ t' = Put(r.h, r.place, v) /\ map' = [map EXCEPT ![key] = v]
      /\ op' = (IF Size(t') # Size(t) THEN <<"rehash", key>> ELSE <<"", Nil>>) /\ UNCHANGED <<it, seen>>

\* The collector marks the key of an empty entry as dead.
Collect == \E n \in DOMAIN t.node :
  /\ t.node[n].val = Nil /\ t.node[n].key \in Others
  /\ t' = [t EXCEPT !.node[n].key = -@] /\ op' = <<"", Nil>> /\ UNCHANGED <<map, it, seen>>

\* luaH_resizearray, when a constructor stores its items.
ResizeArray == \E n \in (Len(t.arr) + 1)..MaxInt :
  /\ it = NoKey
  /\ t' = Resize(t, n, Size(t)) /\ op' = <<"", Nil>> /\ UNCHANGED <<map, it, seen>>

Begin == it = NoKey /\ it' = Nil /\ seen' = {} /\ op' = <<"", Nil>> /\ UNCHANGED <<t, map>>
Traverse ==
  /\ it # NoKey
  /\ LET k == NextKey(t, it)
     IN  /\ it' = IF k = Nil THEN NoKey ELSE k
         /\ seen' = IF k = Nil THEN {} ELSE seen \cup {k}
         /\ op' = <<"next", k>>
  /\ UNCHANGED <<t, map>>

Next == Set \/ Collect \/ ResizeArray \/ Begin \/ Traverse

Spec == Init /\ [][Next]_vars
-----------------------------------------------------------------------------
(***************************************************************************)
(* A table is a map: whatever was assigned, collected and rehashed before, *)
(* every key finds its value, a float key with an integral value that of   *)
(* the integer.                                                            *)
(***************************************************************************)
IsMap == /\ \A k \in Keys : Get(t, k) = map[k]
         /\ \A k \in Floats : Get(t, k) = map[Float[k]]

(***************************************************************************)
(* "A main invariant of these tables is that, if an element is not in its  *)
(* main position ..., then the colliding element is in its own main        *)
(* position" (ltable.c:20-24).                                             *)
(***************************************************************************)
MainInvariant ==
  \A n \in DOMAIN t.node : t.node[n].val # Nil =>
    LET mp == MainPosition(t, t.node[n].key) IN
    mp # n /\ t.node[mp].key > 0 => MainPosition(t, t.node[mp].key) = mp

(***************************************************************************)
(* The length is a boundary: 0 or the index of an element, with no element *)
(* behind it (luaH_getn).                                                  *)
(***************************************************************************)
Boundary == LET n == GetN(t) IN (n = 0 \/ map[n] # Nil) /\ (n + 1 \notin Ints \/ map[n + 1] = Nil)

(***************************************************************************)
(* A traversal during which fields are cleared and keys collected visits   *)
(* no key twice, never fails, and at its end has visited every element     *)
(* that is still there.                                                    *)
(***************************************************************************)
TraversalCompleteStep ==
  op'[1] = "next" =>
       /\ op'[2] # -1 /\ op'[2] \notin seen
       /\ (op'[2] = Nil => {k \in Keys : map[k] # Nil} \subseteq seen)
TraversalComplete == [][TraversalCompleteStep]_vars

(***************************************************************************)
(* "The actual size of the array is the largest n such that more than half *)
(* the slots between 1 and n are in use" (ltable.c:17-19), n a power of    *)
(* two, when a table has just been rehashed for a key.                     *)
(***************************************************************************)
ArrayHalfUsedStep ==
  op'[1] = "rehash" =>
       LET used == {k \in Ints : map[k] # Nil} \cup ({op'[2]} \cap Ints)
       IN  Len(t'.arr) = Max0({n \in {1, 2, 4, 8} : 2 * Cardinality(used \cap 1..n) > n})
ArrayHalfUsed == [][ArrayHalfUsedStep]_vars
=============================================================================
