---------------------------- MODULE LuaGcProofs ----------------------------
(***************************************************************************)
(* Theorems about LuaGc, for any objects, heaps, sizes of the sweep and    *)
(* depth of collectors inside of finalizers.  The inductive invariant is   *)
(* IInv; its parts say what is true of the lists, the references and the   *)
(* colours in each phase of the collector (Good), as long as finalizers    *)
(* have not got past the sweep.                                            *)
(***************************************************************************)
EXTENDS LuaGc, SequenceTheorems, TLAPS

Marks == {0, 1, 2, 3, 4}

(***************************************************************************)
(* The inductive invariant.                                                *)
(***************************************************************************)
Shape == \A o \in Objs : (Kind[o] # "table" => key[o] = 0 /\ mark[o] # Gray) /\ (Kind[o] = "string" => val[o] = 0)

\* The lists hold what is allocated, each object once.
Listed ==
  /\ \A l \in Lists : Distinct(list[l])
  /\ \A l, m \in Lists : l # m => Elems(list[l]) \cap Elems(list[m]) = {}
  /\ \A o \in Objs : mark[o] # Free <=> \E l \in Lists : o \in Elems(list[l])

\* What has not been lost refers to nothing that has.
Live(o) == o \in Objs /\ mark[o] \in {white, Gray, Black}
References ==
  /\ \A o \in roots : Live(o)
  /\ \A o \in Elems(list.tobefnz) : Live(o)
  /\ \A o \in Objs : Live(o) /\ val[o] # 0 => Live(val[o]) /\ (key[o] # 0 => Live(key[o]))

\* Where the collector may be.
Control ==
  /\ pc = "sweep" => gcstate \in SweepStates
  /\ gcstate = "insideatomic" => pc \in Loops \cup {"enter"}
  /\ pc \in Loops => gcstate = IF pc = "atomic" THEN "atomic" ELSE "insideatomic"
  /\ pc = "enter" => gcstate \in {"propagate", "atomic", "insideatomic"}
  /\ gcstate \notin SweepStates => sweepgc = NullPtr
  /\ pc = "separate" => count # 0
Moving == pc = "tolive" => gcstate = "swpallgc" /\ moved \in Elems(list.allgc) /\ mark[moved] = white
Phases == Control /\ Moving

\* Before the marking all is white, and while it goes on nothing is dead.
Whites ==
  /\ gcstate \in {"pause", "swpend", "callfin"} => \A o \in Objs : mark[o] \in {white, Free}
  /\ KeepInvariant \/ pc \in Loops => \A o \in Objs : mark[o] # OtherWhite

\* What the sweep has passed is white again.
Swept(l) == \A o \in Elems(list[l]) : mark[o] = white
SweptTo(l) ==
  \/ sweepgc = NullPtr /\ Swept(l)
  \/ sweepgc = HeadOf(l)
  \/ \E k \in DOMAIN list[l] : sweepgc = [at |-> list[l][k], list |-> l] /\ \A j \in 1..k : mark[list[l][j]] = white
Sweeps ==
  /\ gcstate = "swpallgc" => SweptTo("allgc")
  /\ gcstate = "swpfinobj" => Swept("allgc") /\ SweptTo("finobj")
  /\ gcstate = "swptobefnz" => Swept("allgc") /\ Swept("finobj") /\ SweptTo("tobefnz")

\* While the collector marks: a black object refers to no white one, the lists
\* of gray objects hold gray tables, and what awaits its finalizer is marked.
MarkingNow == KeepInvariant \/ pc \in Loops
NotWhite(o) == ~White(mark, o)
BlackDone == \A o \in Objs : mark[o] = Black /\ val[o] # 0 => NotWhite(val[o]) /\ NotWhite(key[o])
ListsGray ==
  /\ \A l \in GrayLists : (l = "grayagain" => pc \notin Loops \ {"atomic"}) => \A t \in linked[l] : t = Main \/ mark[t] = Gray
  /\ Main \notin linked.weak \cup linked.allweak \cup linked.ephemeron
FinMarked == pc # "separate" => \A o \in Elems(list.tobefnz) : NotWhite(o)
Colours == MarkingNow => BlackDone /\ ListsGray /\ FinMarked

\* Between the steps every gray table is in one list, which will be gone through.
GrayOnce ==
  KeepInvariant /\ pc # "atomic" =>
    /\ linked.weak = {} /\ linked.ephemeron = {} /\ Main \in linked.gray \cup linked.grayagain
    /\ \A o \in Objs : mark[o] = Gray => o \in linked.gray \cup linked.grayagain \cup linked.allweak
    /\ linked.gray \cap linked.allweak = {} /\ linked.grayagain \cap linked.allweak = {}
    /\ linked.gray \cap linked.grayagain \subseteq {Main}

\* In the atomic phase: what of a gray table may still be white.
Late == pc \in {"separate", "resurrect", "keys", "newer"} \/ (pc \in {"converge", "changed"} /\ round = 2)
Covered(t) ==
  \/ NotWhite(val[t]) /\ NotWhite(key[t])
  \/ t \in linked.gray \/ (pc = "atomic" /\ t \in linked.grayagain)
  \/ t \in linked.ephemeron \/ (pc \in {"converge", "changed"} /\ t \in rest)
  \/ t \in linked.allweak
  \/ t \in linked.weak /\ NotWhite(key[t])
StackDone == IF pc = "atomic" THEN Main \in linked.gray \cup linked.grayagain
             ELSE Main \in linked.gray \/ \A o \in roots : NotWhite(o)
TablesCovered == \A t \in Objs : mark[t] = Gray /\ val[t] # 0 => Covered(t)
LoopLists ==
  /\ pc \notin {"atomic", "again", "changed", "resurrect"} => linked.gray = {}
  /\ pc \in {"converge", "changed", "values", "keys", "newer"} => \A t \in rest : mark[t] = Gray
  /\ pc \in {"values", "newer"} => rest \subseteq linked.weak \cup linked.allweak
  /\ pc = "keys" => rest \subseteq linked.ephemeron \cup linked.allweak
  /\ pc = "changed" => again
Cleaned ==
  /\ (pc = "converge" /\ ~again) \/ pc \in {"values", "separate", "keys"} => \A t \in linked.ephemeron : val[t] # 0 => Cleared(mark, key[t])
  /\ pc = "values" => \A t \in (linked.weak \cup linked.allweak) \ rest : val[t] # 0 => NotWhite(val[t])
  /\ Late => \A t \in cleared : val[t] # 0 => NotWhite(val[t])
  /\ pc = "keys" => \A t \in (linked.ephemeron \cup linked.allweak) \ rest : val[t] # 0 => NotWhite(key[t])
  /\ pc = "newer" => /\ \A t \in linked.ephemeron \cup linked.allweak : val[t] # 0 => NotWhite(key[t])
                     /\ \A t \in linked.ephemeron : val[t] = 0
                     /\ \A t \in (linked.weak \cup linked.allweak) \ (cleared \cup rest) : val[t] # 0 => NotWhite(val[t])
Apart ==
  /\ linked.gray \cap (linked.weak \cup linked.allweak \cup linked.ephemeron) = {}
  /\ pc = "atomic" => linked.grayagain \cap (linked.weak \cup linked.allweak \cup linked.ephemeron \cup (linked.gray \ {Main})) = {}
  /\ pc \in {"converge", "changed"} => linked.gray \cap rest = {}
AtomicPhase == pc \in Loops => Apart /\ StackDone /\ TablesCovered /\ LoopLists /\ Cleaned

Good == Types /\ Shape /\ Listed /\ References /\ Phases /\ Whites /\ Sweeps /\ Colours /\ GrayOnce /\ AtomicPhase
IInv == ~overtaken => Good
-----------------------------------------------------------------------------
\* What a marking of S does to the colours.
MarksOf(S, m) ==
  /\ m \in [Objs -> Marks]
  /\ \A o \in Objs : m[o] = mark[o] \/ (mark[o] \in {0, 1} /\ m[o] = IF Kind[o] = "table" THEN Gray ELSE Black)
  /\ \A o \in S \cap Objs : m[o] \notin {0, 1}
  /\ \A o \in Objs : mark[o] \in {0, 1} /\ m[o] = Black /\ val[o] \in Objs => Kind[o] = "string" \/ m[val[o]] \notin {0, 1}

\* The objects that are marked from a set: white ones, those of the set, and with a
\* userdata its user value.
LEMMA ChainFacts ==
  ASSUME NEW S
  PROVE  /\ Chain(S) \subseteq {o \in Objs : White(mark, o)}
         /\ \A o \in S \cap Objs : White(mark, o) => o \in Chain(S)
         /\ \A o \in Chain(S) : Kind[o] = "udata" /\ val[o] \in Objs /\ White(mark, val[o]) => val[o] \in Chain(S)
<1> DEFINE whites == {o \in Objs : White(mark, o)}
           Closed(T) == (S \cap whites) \cup ({val[u] : u \in {x \in T : Kind[x] = "udata"}} \cap whites) \subseteq T
<1>1. Chain(S) = {o \in whites : \A T \in SUBSET whites : Closed(T) => o \in T}
  BY Zenon DEF Chain
<1>2. \A o \in S \cap Objs : White(mark, o) => o \in Chain(S)
  BY <1>1
<1>3. \A o \in Chain(S) : Kind[o] = "udata" /\ val[o] \in Objs /\ White(mark, val[o]) => val[o] \in Chain(S)
  <2> SUFFICES ASSUME NEW o \in Chain(S), Kind[o] = "udata", val[o] \in whites, NEW T \in SUBSET whites, Closed(T)
               PROVE  val[o] \in T
    BY <1>1
  <2>1. o \in T
    BY <1>1
  <2> QED BY <2>1
<1> QED BY <1>1, <1>2, <1>3

\* reallymarkobject darkens white objects only, and leaves no black userdata with a
\* white user value behind.
LEMMA MarkFacts ==
  ASSUME GcAssumption, mark \in [Objs -> Marks], NEW S
  PROVE  /\ MarksOf(S, ReallyMark(S))
         /\ Grayed(S) = {o \in Objs : mark[o] \in {0, 1} /\ ReallyMark(S)[o] = Gray}
<1>0. Objs \subseteq Nat \ {0} /\ Kind \in [Objs -> Kinds]
  BY DEF GcAssumption
<1> DEFINE m == ReallyMark(S)
<1>1. m = [o \in Objs |-> IF o \in Chain(S) THEN IF Kind[o] = "table" THEN Gray ELSE Black ELSE mark[o]]
  BY DEF ReallyMark
<1>2. Chain(S) \subseteq {o \in Objs : mark[o] \in {0, 1}}
  BY ChainFacts, <1>0 DEF White
<1>3. \A o \in S \cap Objs : m[o] \notin {0, 1}
  BY ChainFacts, <1>0, <1>1 DEF White, Gray, Black
<1>4. \A o \in Objs : mark[o] \in {0, 1} /\ m[o] = Black /\ val[o] \in Objs => Kind[o] = "string" \/ m[val[o]] \notin {0, 1}
  <2> SUFFICES ASSUME NEW o \in Objs, mark[o] \in {0, 1}, m[o] = Black, val[o] \in Objs, Kind[o] # "string", m[val[o]] \in {0, 1}
               PROVE  FALSE
    OBVIOUS
  <2>1. o \in Chain(S) /\ Kind[o] = "udata"
    BY <1>0, <1>1 DEF Gray, Black, Kinds
  <2>2. White(mark, val[o]) /\ val[o] \notin Chain(S)
    BY <1>0, <1>1, <1>2 DEF Gray, Black, White
  <2> QED BY <2>1, <2>2, ChainFacts
<1>5. Grayed(S) = {o \in Objs : mark[o] \in {0, 1} /\ m[o] = Gray}
  BY <1>1, <1>2 DEF Grayed, Gray, Black
<1>6. m \in [Objs -> Marks]
  BY <1>1 DEF Marks, Gray, Black
<1>7. \A o \in Objs : m[o] = mark[o] \/ (mark[o] \in {0, 1} /\ m[o] = IF Kind[o] = "table" THEN Gray ELSE Black)
  BY <1>1, <1>2
<1> QED BY <1>3, <1>4, <1>5, <1>6, <1>7 DEF MarksOf

-----------------------------------------------------------------------------
\* An object in front of a list.
LEMMA ConsFacts ==
  ASSUME NEW s \in Seq(Objs), NEW o \in Objs
  PROVE  /\ <<o>> \o s \in Seq(Objs) /\ Len(<<o>> \o s) = Len(s) + 1
         /\ \A k \in 1..(Len(s) + 1) : (<<o>> \o s)[k] = IF k = 1 THEN o ELSE s[k - 1]
         /\ Elems(<<o>> \o s) = Elems(s) \cup {o}
         /\ Distinct(s) /\ o \notin Elems(s) => Distinct(<<o>> \o s)
<1> DEFINE c == <<o>> \o s
<1>1. c \in Seq(Objs) /\ Len(c) = Len(s) + 1 /\ DOMAIN c = 1..(Len(s) + 1) /\ Len(s) \in Nat /\ DOMAIN s = 1..Len(s)
  OBVIOUS
<1>2. \A k \in 1..(Len(s) + 1) : c[k] = IF k = 1 THEN o ELSE s[k - 1]
  OBVIOUS
<1> HIDE DEF c
<1>3. Elems(c) = Elems(s) \cup {o}
  <2>1. \A x \in Elems(c) : x \in Elems(s) \cup {o}
    BY <1>1, <1>2, SMTT(30) DEF Elems
  <2>2. \A k \in DOMAIN s : c[k + 1] = s[k] /\ k + 1 \in DOMAIN c
    BY <1>1, <1>2
  <2>3. c[1] = o /\ 1 \in DOMAIN c
    BY <1>1, <1>2
  <2> QED BY <2>1, <2>2, <2>3, SMTT(30) DEF Elems
<1>4. ASSUME Distinct(s), o \notin Elems(s), NEW j \in DOMAIN c, NEW k \in DOMAIN c, c[j] = c[k] PROVE j = k
  <2>1. \A i \in DOMAIN c : i = 1 \/ (i # 1 /\ c[i] = s[i - 1] /\ i - 1 \in DOMAIN s /\ c[i] \in Elems(s))
    BY <1>1, <1>2 DEF Elems
  <2>2. c[1] = o
    BY <1>1, <1>2
  <2>3. CASE j = 1 \/ k = 1
    BY <2>1, <2>2, <2>3, <1>4
  <2>4. CASE j # 1 /\ k # 1
    <3>1. j - 1 = k - 1
      BY <2>1, <2>4, <1>4 DEF Distinct
    <3> QED BY <3>1, <1>1
  <2> QED BY <2>3, <2>4
<1> QED BY <1>1, <1>2, <1>3, <1>4 DEF c, Distinct

\* A list without one of its places.
LEMMA RemoveFacts ==
  ASSUME NEW s \in Seq(Objs), NEW k \in 1..Len(s)
  PROVE  /\ Remove(s, k) \in Seq(Objs) /\ Len(Remove(s, k)) = Len(s) - 1
         /\ \A j \in 1..(Len(s) - 1) : Remove(s, k)[j] = IF j < k THEN s[j] ELSE s[j + 1]
         /\ Distinct(s) => Elems(Remove(s, k)) = Elems(s) \ {s[k]}
         /\ Distinct(s) => Distinct(Remove(s, k))
<1> DEFINE r == Remove(s, k)
<1>0. Len(s) \in Nat /\ DOMAIN s = 1..Len(s) /\ k \in Nat
  OBVIOUS
<1>1. /\ SubSeq(s, 1, k - 1) \in Seq(Objs) /\ Len(SubSeq(s, 1, k - 1)) = k - 1
      /\ \A j \in 1..(k - 1) : SubSeq(s, 1, k - 1)[j] = s[j]
  OBVIOUS
<1>2. /\ SubSeq(s, k + 1, Len(s)) \in Seq(Objs) /\ Len(SubSeq(s, k + 1, Len(s))) = Len(s) - k
      /\ \A j \in 1..(Len(s) - k) : SubSeq(s, k + 1, Len(s))[j] = s[k + j]
  OBVIOUS
<1> DEFINE a == SubSeq(s, 1, k - 1)
           b == SubSeq(s, k + 1, Len(s))
<1>x. r = a \o b
  BY DEF Remove
<1>a. a \in Seq(Objs) /\ Len(a) = k - 1 /\ b \in Seq(Objs) /\ Len(b) = Len(s) - k
  BY <1>1, <1>2
<1>b. \A j \in 1..(k - 1) : a[j] = s[j]
  BY <1>1
<1>c. \A j \in 1..(Len(s) - k) : b[j] = s[k + j]
  BY <1>2
<1> HIDE DEF a, b, r
<1>d. a \o b \in Seq(Objs) /\ Len(a \o b) = Len(a) + Len(b)
      /\ \A i \in 1..(Len(a) + Len(b)) : (a \o b)[i] = IF i <= Len(a) THEN a[i] ELSE b[i - Len(a)]
  BY <1>a, ConcatProperties
<1>e. r \in Seq(Objs) /\ Len(r) = Len(a) + Len(b)
  BY <1>d, <1>x
<1>3. r \in Seq(Objs) /\ Len(r) = Len(s) - 1 /\ DOMAIN r = 1..(Len(s) - 1)
  BY <1>0, <1>a, <1>e
<1>4. \A j \in 1..(Len(s) - 1) : r[j] = IF j < k THEN s[j] ELSE s[j + 1]
  <2> TAKE j \in 1..(Len(s) - 1)
  <2>1. CASE j < k
    BY <1>0, <1>a, <1>b, <1>d, <1>x, <2>1
  <2>2. CASE ~(j < k)
    <3>1. j - (k - 1) \in 1..(Len(s) - k) /\ r[j] = b[j - (k - 1)]
      BY <1>0, <1>a, <1>d, <1>x, <2>2
    <3>2. k + (j - (k - 1)) = j + 1
      BY <1>0
    <3> QED BY <1>c, <2>2, <3>1, <3>2
  <2> QED BY <2>1, <2>2
<1>5. ASSUME Distinct(s) PROVE Elems(r) = Elems(s) \ {s[k]} /\ Distinct(r)
  <2>1. \A x \in Elems(r) : x \in Elems(s) \ {s[k]}
    BY <1>0, <1>3, <1>4, <1>5, SMTT(30) DEF Elems, Distinct
  <2>2. ASSUME NEW j \in DOMAIN s, j # k PROVE s[j] \in Elems(r)
    <3>1. CASE j < k
      BY <1>0, <1>3, <1>4, <3>1 DEF Elems
    <3>2. CASE j > k
      <4>1. j - 1 \in DOMAIN r /\ r[j - 1] = s[j]
        BY <1>0, <1>3, <1>4, <3>2
      <4> QED BY <4>1 DEF Elems
    <3> QED BY <1>0, <3>1, <3>2, <2>2
  <2>3. Distinct(r)
    BY <1>0, <1>3, <1>4, <1>5 DEF Distinct
  <2> QED BY <2>1, <2>2, <2>3 DEF Elems
<1> QED BY <1>3, <1>4, <1>5 DEF r
-----------------------------------------------------------------------------
\* The marks, by number.
LEMMA MarkTypes == Marks = {0, 1} \cup Marked \cup {Free} /\ Gray \in Marks /\ Black \in Marks /\ Free \in Marks
  BY DEF Marks, Marked, Gray, Black, Free

\* Marking only darkens: what was marked or freed stays as it was.
LEMMA MarkFrame ==
  ASSUME GcAssumption, Types, NEW S
  PROVE  /\ ReallyMark(S) \in [Objs -> Marks]
         /\ Grayed(S) \subseteq Objs
<1>1. mark \in [Objs -> Marks]
  BY MarkTypes DEF Types
<1> QED BY <1>1, MarkFacts DEF MarksOf

\* The lists of gray objects after a link, and the types of a traversal.
LEMMA LinkTypes ==
  ASSUME NEW lists \in [GrayLists -> SUBSET (Objs \cup {Main})], NEW t \in Objs, NEW l \in GrayLists \cup {"none"}
  PROVE  Link(lists, l, t) \in [GrayLists -> SUBSET (Objs \cup {Main})]
<1>1. "none" \notin GrayLists
  BY DEF GrayLists
<1> QED BY <1>1 DEF Link

\* A table goes to a list of gray objects or to none.
LEMMA PlaceTypes ==
  ASSUME NEW t, NEW as \in Modes, NEW m
  PROVE  Place(t, as, m) \in {"grayagain", "weak", "allweak", "ephemeron", "none"}
BY DEF Place, Modes

\* Types after the traversal of a table.
LEMMA TraverseTypes ==
  ASSUME GcAssumption, Types, NEW t \in Objs, NEW as \in Modes, NEW lists \in [GrayLists -> SUBSET (Objs \cup {Main})],
         Traverse(t, as, lists)
  PROVE  /\ mark' \in [Objs -> Marks] /\ linked' \in [GrayLists -> SUBSET (Objs \cup {Main})]
         /\ key' \in [Objs -> Objs \cup {0}]
<1>1. mark' \in [Objs -> Marks]
  BY MarkFrame, MarkTypes DEF Traverse
<1>2. [lists EXCEPT !.gray = @ \cup Grayed(Children(t, as))] \in [GrayLists -> SUBSET (Objs \cup {Main})]
  BY MarkFrame DEF GrayLists
<1>3. Place(t, as, mark') \in GrayLists \cup {"none"}
  BY PlaceTypes DEF GrayLists
<1>4. linked' \in [GrayLists -> SUBSET (Objs \cup {Main})]
  BY <1>2, <1>3, LinkTypes DEF Traverse
<1>5. key' \in [Objs -> Objs \cup {0}]
  BY DEF Traverse, RemoveEntry, Types
<1> QED BY <1>1, <1>4, <1>5

\* Types after propagatemark.
LEMMA PropagateTypes ==
  ASSUME GcAssumption, Types, PropagateMark
  PROVE  /\ mark' \in [Objs -> Marks] /\ linked' \in [GrayLists -> SUBSET (Objs \cup {Main})]
         /\ key' \in [Objs -> Objs \cup {0}]
<1>0. PICK o \in linked.gray : IF o = Main THEN TraverseThread ELSE Traverse(o, mode[o], [linked EXCEPT !.gray = @ \ {o}])
  BY DEF PropagateMark
<1>1. CASE o = Main
  <2>1. TraverseThread
    BY <1>0, <1>1
  <2>2. Grayed(roots) \subseteq Objs /\ Main \in Objs \cup {Main} /\ "gray" \in GrayLists /\ "grayagain" \in GrayLists
    BY MarkFrame DEF GrayLists
  <2>3. linked' \in [GrayLists -> SUBSET (Objs \cup {Main})]
    BY <2>1, <2>2 DEF TraverseThread, Types
  <2> QED BY <2>1, <2>3, MarkFrame DEF TraverseThread, Types
<1>2. CASE o # Main
  <2>1. o \in Objs /\ mode[o] \in Modes
    BY <1>2, ZenonT(30) DEF Types, GrayLists
  <2>2. [linked EXCEPT !.gray = @ \ {o}] \in [GrayLists -> SUBSET (Objs \cup {Main})]
    BY DEF Types, GrayLists
  <2> QED BY <1>0, <1>2, <2>1, <2>2, TraverseTypes
<1> QED BY <1>1, <1>2

\* The list that sweepgc points into, and what a turn of sweeplist does there.
LEMMA SweepTypes ==
  ASSUME GcAssumption, Types, NEW p \in Pointers, NEW l \in Lists, NEW k \in Nat \ {0}, SweepAt(p, l, k)
  PROVE  mark' \in [Objs -> Marks] /\ list' \in [Lists -> Seq(Objs)] /\ sweepgc' \in Pointers
<1>1. list[l] \in Seq(Objs) /\ mark \in [Objs -> Marks] /\ white \in Marks /\ list \in [Lists -> Seq(Objs)]
  BY MarkTypes DEF Types, Marks
<1>2. NullPtr \in Pointers
  BY DEF NullPtr, Pointers
<1>3. CASE k > Len(list[l])
  BY <1>1, <1>2, <1>3 DEF SweepAt
<1>4. CASE ~(k > Len(list[l]))
  <2>1. k \in 1..Len(list[l]) /\ list[l][k] \in Objs
    BY <1>1, <1>4
  <2>2. Remove(list[l], k) \in Seq(Objs)
    BY <1>1, <2>1, RemoveFacts
  <2>3. [at |-> list[l][k], list |-> l] \in Pointers
    BY <2>1 DEF Pointers
  <2> QED BY <1>1, <1>2, <1>4, <2>1, <2>2, <2>3, MarkTypes DEF SweepAt
<1> QED BY <1>3, <1>4
-----------------------------------------------------------------------------
\* Where an element of a list is.
LEMMA IndexFacts ==
  ASSUME NEW s \in Seq(Objs), Distinct(s), NEW k \in DOMAIN s
  PROVE  Index(s, s[k]) = k
<1>1. Index(s, s[k]) \in DOMAIN s /\ s[Index(s, s[k])] = s[k]
  BY DEF Index
<1> QED BY <1>1 DEF Distinct

\* The list that sweepgc points into.
LEMMA ListAtFacts ==
  ASSUME Listed, NEW l \in Lists, NEW o \in Elems(list[l])
  PROVE  (CHOOSE m \in Lists : o \in Elems(list[m])) = l
BY DEF Listed

\* The list that the sweep goes through.
SweptList == CASE gcstate = "swpallgc" -> "allgc" [] gcstate = "swpfinobj" -> "finobj" [] gcstate = "swptobefnz" -> "tobefnz"

\* The place that is swept next is in the list or just behind it.
LEMMA SweepPlace ==
  ASSUME GcAssumption, Types, Listed, Sweeps, gcstate \in SweepStates, sweepgc # NullPtr
  PROVE  /\ SweptList \in Lists /\ ListAt(sweepgc) = SweptList
         /\ Position(sweepgc) \in 1..(Len(list[SweptList]) + 1)
         /\ \A j \in 1..(Position(sweepgc) - 1) : mark[list[SweptList][j]] = white
         /\ Position(sweepgc) = 1 => sweepgc = HeadOf(SweptList)
         /\ Position(sweepgc) > 1 => sweepgc = [at |-> list[SweptList][Position(sweepgc) - 1], list |-> SweptList]
<1> DEFINE l == SweptList
<1>0. l \in Lists /\ SweptTo(l)
  BY DEF SweptList, SweepStates, Lists, Sweeps
<1>1. list[l] \in Seq(Objs) /\ Distinct(list[l]) /\ Len(list[l]) \in Nat /\ DOMAIN list[l] = 1..Len(list[l])
  BY <1>0 DEF Types, Listed
<1> HIDE DEF l
<1>2. CASE sweepgc = HeadOf(l)
  <2>1. ListAt(sweepgc) = l /\ Position(sweepgc) = 1
    BY <1>2 DEF HeadOf, ListAt, Position
  <2> QED BY <1>0, <1>1, <1>2, <2>1 DEF l
<1>3. ASSUME NEW k \in DOMAIN list[l], sweepgc = [at |-> list[l][k], list |-> l], \A j \in 1..k : mark[list[l][j]] = white
      PROVE  /\ ListAt(sweepgc) = l /\ Position(sweepgc) = k + 1
  <2>1. list[l][k] \in Objs /\ list[l][k] \in Elems(list[l]) /\ list[l][k] # 0
    BY <1>1, <1>3 DEF Elems, GcAssumption
  <2>2. sweepgc.at = list[l][k]
    BY <1>3
  <2>3. ListAt(sweepgc) = l
    BY <1>0, <2>1, <2>2, ListAtFacts DEF ListAt
  <2>4. Position(sweepgc) = k + 1
    BY <1>1, <1>3, <2>1, <2>2, <2>3, IndexFacts DEF Position
  <2> QED BY <2>3, <2>4
<1>4. CASE \E k \in DOMAIN list[l] : sweepgc = [at |-> list[l][k], list |-> l] /\ \A j \in 1..k : mark[list[l][j]] = white
  <2>1. PICK k \in DOMAIN list[l] : sweepgc = [at |-> list[l][k], list |-> l] /\ \A j \in 1..k : mark[list[l][j]] = white
    BY <1>4
  <2>2. ListAt(sweepgc) = l /\ Position(sweepgc) = k + 1
    BY <1>3, <2>1
  <2>3. k \in Nat /\ (k + 1) - 1 = k /\ k >= 1 /\ k <= Len(list[l])
    BY <1>1
  <2> QED BY <1>0, <1>1, <2>1, <2>2, <2>3 DEF l
<1> QED BY <1>0, <1>2, <1>4 DEF SweptTo
-----------------------------------------------------------------------------
HeapTypes ==
  /\ mark \in [Objs -> Marks] /\ mode \in [Objs -> Modes]
  /\ key \in [Objs -> Objs \cup {0}] /\ val \in [Objs -> Objs \cup {0}] /\ roots \subseteq Objs
  /\ list \in [Lists -> Seq(Objs)] /\ linked \in [GrayLists -> SUBSET (Objs \cup {Main})] /\ sweepgc \in Pointers
FrameTypes ==
  frames \in Seq(Calls) /\ (pc \notin {"program", "tolive"} => frames # <<>>)
LoopTypes ==
  /\ gcstate \in States /\ white \in {0, 1} /\ finnum \in Nat /\ emergency \in BOOLEAN
  /\ pc \in Loops \cup {"program", "check", "single", "enter", "sweep", "finalize", "tolive"}
  /\ rest \subseteq Objs /\ again \in BOOLEAN /\ round \in {1, 2} /\ cleared \subseteq Objs /\ count \in Nat
  /\ moved \in Objs \cup {0} /\ ops \in Nat

\* The types in parts: the heap, the frames, the loops.
LEMMA TypesParts == Types <=> HeapTypes /\ FrameTypes /\ LoopTypes
BY MarkTypes DEF Types, HeapTypes, FrameTypes, LoopTypes

\* What is the same in the next state has its type there.
Quiet == UNCHANGED <<mark, mode, key, val, roots, list, linked, sweepgc>>

\* Steps that change neither marks nor lists.
LEMMA QuietSteps ==
  ASSUME Step \/ FullGc \/ StepGoesOn \/ FullGoesOn \/ Paused \/ EnterAtomic \/ NextEphemeron \/ ClearGone \/ ClearKeys \/ ClearNewer
         \/ Separate \/ Flip \/ SweepStep \/ SweepEnd \/ CallRemaining \/ FinalizersDone
  PROVE  Quiet
BY DEF Quiet, Step, FullGc, StepGoesOn, FullGoesOn, Paused, EnterAtomic, NextEphemeron, ClearGone, ClearKeys, ClearNewer, Clear, heapVars,
       Separate, Flip, SweepStep, SweepEnd, CallRemaining, FinalizersDone

\* Types after a turn of sweeplist.
LEMMA SweepOneTypes ==
  ASSUME GcAssumption, Types, Listed, Sweeps, gcstate \in SweepStates, sweepgc # NullPtr, SweepOne(sweepgc)
  PROVE  mark' \in [Objs -> Marks] /\ list' \in [Lists -> Seq(Objs)] /\ sweepgc' \in Pointers
<1>1. SweptList \in Lists /\ ListAt(sweepgc) = SweptList /\ Position(sweepgc) \in Nat \ {0} /\ sweepgc \in Pointers
  BY SweepPlace DEF Types
<1> QED BY <1>1, SweepTypes DEF SweepOne

\* entersweep begins at the head of allgc.
LEMMA EnterTypes ==
  ASSUME GcAssumption, Types, SweepOne(HeadOf("allgc"))
  PROVE  /\ SweepAt(HeadOf("allgc"), "allgc", 1)
         /\ mark' \in [Objs -> Marks] /\ list' \in [Lists -> Seq(Objs)] /\ sweepgc' \in Pointers
<1>1. HeadOf("allgc") \in Pointers /\ "allgc" \in Lists
  BY DEF HeadOf, Pointers, Lists
<1>2. ListAt(HeadOf("allgc")) = "allgc" /\ Position(HeadOf("allgc")) = 1
  BY DEF HeadOf, ListAt, Position
<1>3. SweepAt(HeadOf("allgc"), "allgc", 1)
  BY <1>2 DEF SweepOne
<1> QED BY <1>1, <1>3, SweepTypes

\* luaC_checkfinalizer moves an object from allgc to the head of finobj.
LEMMA ToFinobjFacts ==
  ASSUME GcAssumption, Types, Listed, NEW o \in Elems(list.allgc), ToFinobj(o)
  PROVE  \E k \in 1..Len(list.allgc) :
           /\ list.allgc[k] = o
           /\ list' = [list EXCEPT !.allgc = Remove(@, k), !.finobj = <<o>> \o @]
           /\ list'.allgc \in Seq(Objs) /\ list'.finobj \in Seq(Objs) /\ list'.tobefnz = list.tobefnz
           /\ list' \in [Lists -> Seq(Objs)] /\ o \in Objs
<1>1. list.allgc \in Seq(Objs) /\ list.finobj \in Seq(Objs) /\ Distinct(list.allgc) /\ DOMAIN list.allgc = 1..Len(list.allgc)
  BY DEF Types, Lists, Listed
<1>2. PICK k \in 1..Len(list.allgc) : list.allgc[k] = o
  BY <1>1 DEF Elems
<1>3. Index(list.allgc, o) = k /\ o \in Objs
  BY <1>1, <1>2, IndexFacts
<1>4. list' = [list EXCEPT !.allgc = Remove(@, k), !.finobj = <<o>> \o @]
  BY <1>3 DEF ToFinobj
<1>5. Remove(list.allgc, k) \in Seq(Objs) /\ <<o>> \o list.finobj \in Seq(Objs)
  BY <1>1, <1>3, RemoveFacts, ConsFacts
<1>6. list \in [Lists -> Seq(Objs)] /\ Lists = {"allgc", "finobj", "tobefnz"}
  BY DEF Types, Lists
<1> QED BY <1>2, <1>3, <1>4, <1>5, <1>6

\* The types of the heap are kept.
LEMMA HeapTypesStep ==
  ASSUME GcAssumption, Types, Listed, Phases, Sweeps, Next
  PROVE  HeapTypes'
<1>0. HeapTypes /\ Objs \subseteq Nat \ {0} /\ white \in Marks /\ Gray \in Marks /\ Black \in Marks /\ Free \in Marks
  BY TypesParts, MarkTypes DEF GcAssumption, Types, Marks
<1>1. CASE Quiet
  BY <1>0, <1>1 DEF HeapTypes, Quiet
<1>2. CASE RestartCollection
  BY <1>0, <1>2, MarkFrame DEF HeapTypes, RestartCollection, heapVars, GrayLists
<1>3. CASE PropagateOne \/ PropagateAll
  BY <1>0, <1>3, PropagateTypes DEF HeapTypes, PropagateOne, PropagateAll
<1>4. CASE GrayAgain
  BY <1>0, <1>4 DEF HeapTypes, GrayAgain, heapVars, GrayLists
<1>5. CASE Converge
  BY <1>0, <1>5 DEF HeapTypes, Converge, Pass, heapVars, GrayLists
<1>6. CASE Revisit
  <2>1. PICK t \in rest : Traverse(t, "k", linked)
    BY <1>6 DEF Revisit
  <2>2. t \in Objs /\ "k" \in Modes
    BY DEF Types, Modes
  <2> QED BY <1>0, <1>6, <2>1, <2>2, TraverseTypes DEF HeapTypes, Revisit
<1>7. CASE ClearEntry
  BY <1>0, <1>7, MarkFrame DEF HeapTypes, ClearEntry, RemoveEntry
<1>8. CASE SeparateOne
  <2>1. list.finobj \in Seq(Objs) /\ list.tobefnz \in Seq(Objs) /\ Lists = {"allgc", "finobj", "tobefnz"}
    BY <1>0 DEF HeapTypes, Lists
  <2>2. count \in Nat \ {0}
    BY <1>8 DEF Types, Phases, Control, Moving, SeparateOne
  <2>3. CASE UNCHANGED list
    BY <1>0, <1>8, <2>3 DEF HeapTypes, SeparateOne, heapVars
  <2>4. CASE list' = [list EXCEPT !.finobj = Remove(@, count), !.tobefnz = Append(@, list.finobj[count])]
    <3>1. count \in 1..Len(list.finobj)
      BY <1>8, <2>1, <2>2, <2>4 DEF SeparateOne
    <3>2. Remove(list.finobj, count) \in Seq(Objs) /\ Append(list.tobefnz, list.finobj[count]) \in Seq(Objs)
      <4>1. list.finobj[count] \in Objs
        BY <2>1, <3>1
      <4> QED BY <2>1, <3>1, <4>1, RemoveFacts
    <3>3. list' \in [Lists -> Seq(Objs)]
      BY <1>0, <2>1, <2>4, <3>2 DEF HeapTypes
    <3> QED BY <1>0, <1>8, <3>3 DEF HeapTypes, SeparateOne, heapVars
  <2> QED BY <1>8, <2>3, <2>4 DEF SeparateOne
<1>9. CASE Resurrect
  BY <1>0, <1>9, MarkFrame DEF HeapTypes, Resurrect, heapVars, GrayLists
<1>10. CASE EnterSweep
  BY <1>0, <1>10, EnterTypes DEF HeapTypes, EnterSweep, heapVars
<1>11. CASE SweepList
  <2>1. gcstate \in SweepStates
    BY <1>11 DEF SweepList, Phases, Control, Moving
  <2> QED BY <1>0, <1>11, <2>1, SweepOneTypes DEF HeapTypes, SweepList, heapVars
<1>12. CASE SweepNext
  BY <1>0, <1>12 DEF HeapTypes, SweepNext, heapVars, NextList, NextState, HeadOf, NullPtr, Pointers, Lists
<1>13. CASE SweepToLive
  <2>1. gcstate \in SweepStates /\ sweepgc # NullPtr
    BY <1>0, <1>13 DEF SweepToLive, Phases, Control, Moving, SweepStates, NullPtr, Types
  <2> QED BY <1>0, <1>13, <2>1, SweepOneTypes DEF HeapTypes, SweepToLive, heapVars, collectorVars
<1>14. CASE SweptToLive
  <2>1. moved \in Elems(list.allgc)
    BY <1>14 DEF SweptToLive, Phases, Control, Moving
  <2> QED BY <1>0, <1>14, <2>1, ToFinobjFacts DEF HeapTypes, SweptToLive, heapVars, collectorVars
<1>15. CASE CallFinalizer
  <2>1. list.allgc \in Seq(Objs) /\ list.tobefnz \in Seq(Objs) /\ Lists = {"allgc", "finobj", "tobefnz"} /\ list.tobefnz # <<>>
    BY <1>0, <1>15 DEF HeapTypes, Lists, CallFinalizer
  <2>2. Head(list.tobefnz) \in Objs /\ Tail(list.tobefnz) \in Seq(Objs)
    BY <2>1
  <2>3. <<Head(list.tobefnz)>> \o list.allgc \in Seq(Objs)
    BY <2>1, <2>2, ConsFacts
  <2>4. list' \in [Lists -> Seq(Objs)]
    BY <1>0, <1>15, <2>1, <2>2, <2>3 DEF CallFinalizer, HeapTypes
  <2> QED BY <1>0, <1>15, <2>2, <2>4 DEF HeapTypes, CallFinalizer
<1>16. CASE Return \/ Raise \/ GetTable \/ Pop \/ SetMode
  BY <1>0, <1>16 DEF HeapTypes, Return, Raise, GetTable, Pop, SetMode, heapVars, collectorVars
<1>17. CASE New
  <2>1. PICK o \in Fresh : list' = [list EXCEPT !.allgc = <<o>> \o @] /\ mark' = [mark EXCEPT ![o] = white] /\ roots' = roots \cup {o}
          /\ mode' = [mode EXCEPT ![o] = ""] /\ key' = [key EXCEPT ![o] = 0] /\ val' = [val EXCEPT ![o] = 0]
    BY <1>17 DEF New
  <2>2. o \in Objs /\ list.allgc \in Seq(Objs) /\ Lists = {"allgc", "finobj", "tobefnz"} /\ "" \in Modes
    BY <1>0 DEF GcAssumption, HeapTypes, Lists, Modes
  <2>3. list' \in [Lists -> Seq(Objs)]
    BY <1>0, <2>1, <2>2, ConsFacts DEF HeapTypes
  <2> QED BY <1>0, <1>17, <2>1, <2>2, <2>3 DEF HeapTypes, New, collectorVars
<1>18. CASE SetTable
  BY <1>0, <1>18 DEF HeapTypes, SetTable, BarrierBack, Link, GrayLists, collectorVars
<1>19. CASE SetUservalue
  <2>1. PICK u \in roots, v \in roots \cup {0} : Barrier(u, v) /\ val' = [val EXCEPT ![u] = v]
    BY <1>19 DEF SetUservalue
  <2>2. mark' \in [Objs -> Marks] /\ linked' \in [GrayLists -> SUBSET (Objs \cup {Main})]
    <3>1. CASE UNCHANGED <<mark, linked>>
      BY <1>0, <3>1 DEF HeapTypes
    <3>2. CASE mark' = ReallyMark({v}) /\ linked' = [linked EXCEPT !.gray = @ \cup Grayed({v})]
      <4>1. Grayed({v}) \subseteq Objs /\ mark' \in [Objs -> Marks] /\ "gray" \in GrayLists
        BY <3>2, MarkFrame DEF GrayLists
      <4> QED BY <1>0, <3>2, <4>1 DEF HeapTypes
    <3>3. CASE mark' = [mark EXCEPT ![u] = white] /\ UNCHANGED linked
      BY <1>0, <3>3 DEF HeapTypes
    <3> QED BY <2>1, <3>1, <3>2, <3>3 DEF Barrier
  <2> QED BY <1>0, <1>19, <2>1, <2>2 DEF HeapTypes, SetUservalue, collectorVars
<1>20. CASE CheckFinalizer
  <2>1. PICK o \in roots \cap Elems(list.allgc) : /\ mark' = IF IsSweepPhase THEN [mark EXCEPT ![o] = white] ELSE mark
                                                  /\ UNCHANGED list \/ ToFinobj(o)
    BY <1>20 DEF CheckFinalizer
  <2> QED BY <1>0, <1>20, <2>1, ToFinobjFacts DEF HeapTypes, CheckFinalizer, collectorVars, heapVars
<1> QED
  BY QuietSteps, <1>1, <1>2, <1>3, <1>4, <1>5, <1>6, <1>7, <1>8, <1>9, <1>10, <1>11, <1>12, <1>13, <1>14, <1>15, <1>16, <1>17, <1>18, <1>19, <1>20
  DEF Next, Collector, Marking, Atomic, Sweeping, Program
-----------------------------------------------------------------------------
\* Frames that are pushed, changed and left.
LEMMA FrameFacts ==
  ASSUME GcAssumption, Types, NEW f \in Calls
  PROVE  /\ <<f>> \o frames \in Seq(Calls) /\ <<f>> \o frames # <<>>
         /\ frames # <<>> => /\ Top \in Calls /\ Tail(frames) \in Seq(Calls)
                             /\ <<f>> \o Tail(frames) \in Seq(Calls) /\ <<f>> \o Tail(frames) # <<>>
<1>1. frames \in Seq(Calls)
  BY DEF Types
<1>2. \A s \in Seq(Calls) : <<f>> \o s \in Seq(Calls) /\ <<f>> \o s # <<>>
  <2> TAKE s \in Seq(Calls)
  <2>1. <<f>> \in Seq(Calls) /\ Len(<<f>>) = 1 /\ Len(s) \in Nat
    OBVIOUS
  <2>2. <<f>> \o s \in Seq(Calls) /\ Len(<<f>> \o s) = 1 + Len(s)
    BY <2>1, ConcatProperties
  <2>3. Len(<<f>> \o s) # 0
    BY <2>1, <2>2
  <2> QED BY <2>2, <2>3
<1>3. frames # <<>> => Head(frames) \in Calls /\ Tail(frames) \in Seq(Calls)
  BY <1>1
<1> QED BY <1>1, <1>2, <1>3 DEF Top

\* The types of the frames are kept.
LEMMA FrameTypesStep ==
  ASSUME GcAssumption, Types, Next
  PROVE  FrameTypes'
<1>0. FrameTypes /\ frames \in Seq(Calls) /\ \A c \in {"step", "finish", "cycle"} : Frame(c) \in Calls
  BY TypesParts DEF FrameTypes, Frame, Calls
<1>1. CASE UNCHANGED frames /\ (pc \notin {"program", "tolive"} \/ pc' = pc \/ pc' \in {"program", "tolive"})
  BY <1>0, <1>1 DEF FrameTypes
<1>2. CASE Step \/ FullGc
  BY <1>0, <1>2, FrameFacts DEF FrameTypes, Step, FullGc, Call
<1>3. CASE Paused \/ FinalizersDone \/ Raise
  <2>1. CASE frames # <<>>
    <3>1. Tail(frames) \in Seq(Calls)
      BY <1>0, <2>1
    <3> QED BY <1>0, <1>1, <1>3, <2>1, <3>1 DEF FrameTypes, Paused, FinalizersDone, Raise, Leave
  <2> QED BY <1>0, <1>3, <2>1 DEF FrameTypes, Paused, FinalizersDone, Raise
<1>4. CASE StepGoesOn \/ FullGoesOn \/ CallRemaining
  <2>1. frames # <<>> /\ Top \in Calls
    BY <1>0, <1>4, FrameFacts DEF FrameTypes, StepGoesOn, FullGoesOn, CallRemaining
  <2>2. [Top EXCEPT !.last = TRUE, !.i = 0] \in Calls /\ [Top EXCEPT !.i = 0] \in Calls
    BY <2>1 DEF Calls
  <2> QED BY <1>0, <1>4, <2>1, <2>2, FrameFacts DEF FrameTypes, StepGoesOn, FullGoesOn, CallRemaining, SetTop
<1>5. CASE CallFinalizer
  <2>1. frames # <<>> /\ Top \in Calls
    BY <1>0, <1>5, FrameFacts DEF FrameTypes, CallFinalizer
  <2>2. Head(list.tobefnz) \in Objs
    <3>1. list.tobefnz \in Seq(Objs) /\ list.tobefnz # <<>>
      BY <1>5 DEF CallFinalizer, Types, Lists
    <3> QED BY <3>1
  <2>3. ASSUME NEW f \in Calls, NEW o \in Objs PROVE [f EXCEPT !.i = @ + 1, !.obj = o] \in Calls
    <3>1. ASSUME NEW n \in Nat PROVE [f EXCEPT !.i = n, !.obj = o] \in Calls
      BY DEF Calls
    <3>2. f.i + 1 \in Nat
      BY DEF Calls
    <3> QED BY <3>1, <3>2
  <2>4. PICK f \in Calls : frames' = <<f>> \o Tail(frames)
    BY <1>5, <2>1, <2>2, <2>3 DEF CallFinalizer, SetTop
  <2> QED BY <2>1, <2>4, FrameFacts DEF FrameTypes
<1>6. CASE Return
  BY <1>0, <1>6 DEF FrameTypes, Return
<1>7. CASE Marking \/ Atomic
  BY <1>0, <1>1, <1>7
  DEF Marking, Atomic, RestartCollection, PropagateOne, EnterAtomic, PropagateAll, GrayAgain, Converge, Pass, Revisit, NextEphemeron, ClearGone,
      ClearKeys, ClearNewer, Clear, ClearEntry, Separate, SeparateOne, Resurrect, Flip
<1>8. CASE Sweeping
  BY <1>0, <1>1, <1>8 DEF Sweeping, EnterSweep, SweepStep, SweepList, SweepNext, SweepEnd, SweepToLive, SweptToLive, collectorVars
<1>9. CASE New \/ SetTable \/ GetTable \/ Pop \/ SetUservalue \/ SetMode \/ CheckFinalizer
  BY <1>0, <1>1, <1>9 DEF New, SetTable, GetTable, Pop, SetUservalue, SetMode, CheckFinalizer, collectorVars, Operation
<1> QED BY <1>2, <1>3, <1>4, <1>5, <1>6, <1>7, <1>8, <1>9 DEF Next, Collector, Program

\* The types of the variables of the loops are kept.
LEMMA LoopTypesStep ==
  ASSUME GcAssumption, Types, Colours, Phases, Next
  PROVE  LoopTypes'
<1>0. LoopTypes /\ linked \in [GrayLists -> SUBSET (Objs \cup {Main})]
  BY TypesParts DEF Types
<1>1. CASE Step \/ FullGc \/ StepGoesOn \/ FullGoesOn \/ Paused \/ CallRemaining \/ CallFinalizer \/ FinalizersDone \/ Return \/ Raise
  <2>1. CASE Step
    BY <1>0, <2>1 DEF LoopTypes, Step, loopVars
  <2>2. CASE FullGc
    BY <1>0, <2>2 DEF LoopTypes, FullGc, loopVars
  <2>3. CASE StepGoesOn
    BY <1>0, <2>3 DEF LoopTypes, StepGoesOn, loopVars
  <2>4. CASE FullGoesOn
    BY <1>0, <2>4 DEF LoopTypes, FullGoesOn, loopVars
  <2>5. CASE Paused
    BY <1>0, <2>5 DEF LoopTypes, Paused, loopVars, Leave
  <2>6. CASE CallRemaining
    BY <1>0, <2>6 DEF LoopTypes, CallRemaining, loopVars, States
  <2>7. CASE CallFinalizer
    BY <1>0, <2>7 DEF LoopTypes, CallFinalizer, loopVars
  <2>8. CASE FinalizersDone
    BY <1>0, <2>8 DEF LoopTypes, FinalizersDone, Leave, loopVars
  <2>9. CASE Return
    BY <1>0, <2>9 DEF LoopTypes, Return, loopVars
  <2>10. CASE Raise
    BY <1>0, <2>10 DEF LoopTypes, Raise, Leave, loopVars
  <2> QED BY <1>1, <2>1, <2>2, <2>3, <2>4, <2>5, <2>6, <2>7, <2>8, <2>9, <2>10
<1>2. CASE Marking
  <2>1. CASE RestartCollection
    BY <1>0, <2>1 DEF LoopTypes, RestartCollection, loopVars, States
  <2>2. CASE PropagateOne
    BY <1>0, <2>2 DEF LoopTypes, PropagateOne, loopVars, States
  <2>3. CASE EnterAtomic
    BY <1>0, <2>3 DEF LoopTypes, EnterAtomic, loopVars, Loops
  <2>4. CASE PropagateAll
    BY <1>0, <2>4 DEF LoopTypes, PropagateAll, loopVars
  <2> QED BY <1>2, <2>1, <2>2, <2>3, <2>4 DEF Marking
<1>3. pc \in Loops => linked.weak \subseteq Objs /\ linked.allweak \subseteq Objs /\ linked.ephemeron \subseteq Objs
  BY <1>0 DEF Colours, MarkingNow, ListsGray, GrayLists
<1>4. CASE Converge
  BY <1>0, <1>3, <1>4 DEF LoopTypes, Converge, Pass, Loops
<1>5. CASE ClearGone \/ ClearKeys \/ ClearNewer
  BY <1>0, <1>3, <1>5 DEF LoopTypes, ClearGone, ClearKeys, ClearNewer, Clear, Loops
<1>6. CASE GrayAgain \/ Revisit \/ NextEphemeron \/ ClearEntry \/ SeparateOne \/ Resurrect \/ Flip
  <2>1. CASE GrayAgain
    BY <1>0, <2>1 DEF LoopTypes, GrayAgain, loopVars, Loops, States
  <2>3. CASE NextEphemeron
    BY <1>0, <2>3 DEF LoopTypes, NextEphemeron, loopVars, Loops
  <2>4. CASE Resurrect
    BY <1>0, <2>4 DEF LoopTypes, Resurrect, loopVars, Loops
  <2>5. CASE Flip
    BY <1>0, <2>5 DEF LoopTypes, Flip, loopVars, Loops
  <2>2. CASE Revisit \/ ClearEntry \/ SeparateOne
    <3>1. CASE Revisit
      BY <1>0, <3>1 DEF LoopTypes, Revisit, Loops
    <3>2. CASE ClearEntry
      <4>1. rest' \subseteq rest /\ UNCHANGED <<gcstate, white, finnum, emergency, pc, again, round, cleared, count, moved, ops>>
        BY <3>2 DEF ClearEntry
      <4> QED BY <1>0, <4>1 DEF LoopTypes
    <3>3. CASE SeparateOne
      BY <1>0, <3>3 DEF LoopTypes, SeparateOne
    <3> QED BY <2>2, <3>1, <3>2, <3>3
  <2> QED BY <1>6, <2>1, <2>2, <2>3, <2>4, <2>5
<1>7. CASE Separate
  BY <1>0, <1>3, <1>7 DEF LoopTypes, Separate, Loops
<1>8. CASE Sweeping
  <2>1. SweepMax \in Nat
    BY DEF GcAssumption
  <2>2. CASE SweepList
    BY <1>0, <2>2 DEF LoopTypes, SweepList
  <2>3. CASE SweepNext
    BY <1>0, <2>3 DEF LoopTypes, SweepNext, loopVars, NextState, States, SweepStates
  <2>4. CASE EnterSweep \/ SweepStep \/ SweepEnd
    BY <1>0, <2>1, <2>4 DEF LoopTypes, EnterSweep, SweepStep, SweepEnd, loopVars, States, SweepStates
  <2>5. CASE SweepToLive \/ SweptToLive
    BY <1>0, <2>5 DEF LoopTypes, SweepToLive, SweptToLive, collectorVars
  <2> QED BY <1>8, <2>2, <2>3, <2>4, <2>5 DEF Sweeping
<1>9. CASE New \/ SetTable \/ GetTable \/ Pop \/ SetUservalue \/ SetMode
  <2>1. UNCHANGED <<gcstate, white, finnum, emergency, rest, again, round, cleared, count, moved, pc>> /\ ops > 0 /\ ops' = ops - 1
    BY <1>9 DEF New, SetTable, GetTable, Pop, SetUservalue, SetMode, collectorVars, Operation
  <2> QED BY <1>0, <2>1 DEF LoopTypes
<1>10. CASE CheckFinalizer
  BY <1>0, <1>10 DEF LoopTypes, CheckFinalizer, collectorVars, Operation, Types
<1> QED BY <1>1, <1>2, <1>4, <1>5, <1>6, <1>7, <1>8, <1>9, <1>10 DEF Next, Collector, Atomic, Program
-----------------------------------------------------------------------------
\* All types are kept.
LEMMA TypesStep ==
  ASSUME GcAssumption, Types, Listed, Phases, Sweeps, Colours, Next
  PROVE  Types'
<1>1. HeapTypes' /\ FrameTypes' /\ LoopTypes'
  BY HeapTypesStep, FrameTypesStep, LoopTypesStep
<1> QED BY <1>1, MarkTypes DEF Types, HeapTypes, FrameTypes, LoopTypes
-----------------------------------------------------------------------------
\* A step that only marks: of white objects, and of a gray or black table.
Darkens ==
  /\ mark' \in [Objs -> Marks]
  /\ \A o \in Objs : \/ mark'[o] = mark[o]
                     \/ mark[o] \in {0, 1} /\ mark'[o] = IF Kind[o] = "table" THEN Gray ELSE Black
                     \/ mark[o] \in Marked /\ mark'[o] \in Marked /\ Kind[o] = "table"

\* Marking as a relation of the marks before and after.
LEMMA MarkDarkens ==
  ASSUME GcAssumption, Types, NEW S, mark' = ReallyMark(S)
  PROVE  Darkens
<1>1. mark \in [Objs -> Marks]
  BY MarkTypes DEF Types
<1> QED BY <1>1, MarkFacts DEF Darkens, MarksOf

\* What a traversal of table t does.
Traversed(t, as, lists) ==
  /\ mark'[t] = IF as = "" THEN Black ELSE Gray
  /\ \A o \in Objs \ {t} : mark'[o] = mark[o] \/ (mark[o] \in {0, 1} /\ mark'[o] = IF Kind[o] = "table" THEN Gray ELSE Black)
  /\ \A o \in Children(t, as) \cap Objs : mark'[o] \notin {0, 1}
  /\ \A o \in Objs : mark[o] \in {0, 1} /\ mark'[o] = Black /\ val[o] \in Objs => Kind[o] = "string" \/ mark'[val[o]] \notin {0, 1}
  /\ \A l \in GrayLists :
       linked'[l] = lists[l] \cup (IF l = "gray" THEN {o \in Objs : mark[o] \in {0, 1} /\ mark'[o] = Gray} ELSE {})
                             \cup (IF l = Place(t, as, mark') THEN {t} ELSE {})
  /\ \A o \in Objs : key'[o] = key[o] \/ (o = t /\ key'[o] = 0 /\ val[o] = 0)

\* What a traversal does to marks, lists and the key.
LEMMA TraverseFacts ==
  ASSUME GcAssumption, Types, NEW t \in Objs, Kind[t] = "table", mark[t] = Gray, NEW as \in Modes,
         NEW lists \in [GrayLists -> SUBSET (Objs \cup {Main})], Traverse(t, as, lists)
  PROVE  Darkens /\ Traversed(t, as, lists)
<1> DEFINE m == ReallyMark(Children(t, as))
           g == Grayed(Children(t, as))
           lists1 == [lists EXCEPT !.gray = @ \cup g]
<1>1. mark \in [Objs -> Marks] /\ MarksOf(Children(t, as), m) /\ g = {o \in Objs : mark[o] \in {0, 1} /\ m[o] = Gray}
  <2>1. mark \in [Objs -> Marks]
    BY MarkTypes DEF Types
  <2> QED BY <2>1, MarkFacts
<1>2. mark' = [m EXCEPT ![t] = IF as = "" THEN Black ELSE Gray] /\ linked' = Link(lists1, Place(t, as, mark'), t)
      /\ (key' = key \/ (key' = [key EXCEPT ![t] = 0] /\ val[t] = 0))
  BY DEF Traverse, RemoveEntry
<1>g. g \subseteq Objs
  BY <1>1
<1>11. lists1 \in [GrayLists -> SUBSET (Objs \cup {Main})] /\ \A l \in GrayLists : lists1[l] = IF l = "gray" THEN lists[l] \cup g ELSE lists[l]
  <2> HIDE DEF g
  <2>1. "gray" \in GrayLists
    BY DEF GrayLists
  <2> QED BY <1>g, <2>1
<1> HIDE DEF m, g, lists1
<1>3. m \in [Objs -> Marks] /\ m[t] = Gray /\ mark[t] \notin {0, 1}
  BY <1>1 DEF MarksOf, Gray
<1>4. mark'[t] = IF as = "" THEN Black ELSE Gray
  BY <1>2, <1>3
<1>5. \A o \in Objs \ {t} : mark'[o] = m[o]
  BY <1>2, <1>3
<1>6. \A o \in Objs \ {t} : mark'[o] = mark[o] \/ (mark[o] \in {0, 1} /\ mark'[o] = IF Kind[o] = "table" THEN Gray ELSE Black)
  BY <1>1, <1>5 DEF MarksOf
<1>7. mark'[t] \in Marked /\ mark'[t] \notin {0, 1} /\ mark'[t] \in Marks
  <2>1. mark'[t] = Gray \/ mark'[t] = Black
    BY <1>4
  <2> QED BY <2>1 DEF Marked, Gray, Black, Marks
<1>8. \A o \in Children(t, as) \cap Objs : mark'[o] \notin {0, 1}
  BY <1>1, <1>5, <1>7 DEF MarksOf
<1>9. \A o \in Objs : mark[o] \in {0, 1} /\ mark'[o] = Black /\ val[o] \in Objs => Kind[o] = "string" \/ mark'[val[o]] \notin {0, 1}
  BY <1>1, <1>3, <1>5, <1>7 DEF MarksOf
<1>10. {o \in Objs : mark[o] \in {0, 1} /\ mark'[o] = Gray} = g
  BY <1>1, <1>3, <1>5
<1>12. Place(t, as, mark') \in GrayLists \cup {"none"}
  BY PlaceTypes DEF GrayLists
<1>13. \A l \in GrayLists : linked'[l] = IF l = Place(t, as, mark') THEN lists1[l] \cup {t} ELSE lists1[l]
  <2> DEFINE p == Place(t, as, mark')
  <2>1. p \in GrayLists \cup {"none"} /\ linked' = Link(lists1, p, t)
    BY <1>2, <1>12
  <2> HIDE DEF p
  <2>2. \A l \in GrayLists : linked'[l] = IF l = p THEN lists1[l] \cup {t} ELSE lists1[l]
    <3>1. "none" \notin GrayLists
      BY DEF GrayLists
    <3> QED BY <1>11, <2>1, <3>1 DEF Link
  <2> QED BY <2>2 DEF p
<1>14. \A l \in GrayLists : linked'[l] = lists[l] \cup (IF l = "gray" THEN g ELSE {}) \cup (IF l = Place(t, as, mark') THEN {t} ELSE {})
  BY <1>11, <1>13
<1>15. \A o \in Objs : key'[o] = key[o] \/ (o = t /\ key'[o] = 0 /\ val[o] = 0)
  BY <1>2 DEF Types
<1>16. Darkens
  <2>1. mark' \in [Objs -> Marks]
    BY <1>2, <1>3, <1>7
  <2>2. mark[t] \in Marked /\ mark'[t] \in Marked
    BY <1>7 DEF Marked
  <2> QED BY <1>6, <2>1, <2>2 DEF Darkens
<1>17. Traversed(t, as, lists)
  BY <1>4, <1>6, <1>8, <1>9, <1>10, <1>14, <1>15 DEF Traversed
<1> QED BY <1>16, <1>17

\* What is in a list of gray objects while the collector marks.
LEMMA GrayMember ==
  ASSUME Types, Shape, Colours, MarkingNow, NEW l \in GrayLists, l = "grayagain" => pc \notin Loops \ {"atomic"},
         NEW t \in linked[l], t # Main
  PROVE  t \in Objs /\ mark[t] = Gray /\ Kind[t] = "table" /\ mode[t] \in Modes
<1>1. t \in Objs /\ mark[t] = Gray
  BY DEF Types, Colours, ListsGray
<1> QED BY <1>1 DEF Shape, Types

\* What propagatemark does: one table, or the thread.
LEMMA PropagateFacts ==
  ASSUME GcAssumption, Types, Shape, Colours, MarkingNow, PropagateMark
  PROVE  /\ Darkens
         /\ \/ Main \in linked.gray /\ TraverseThread
            \/ \E t \in linked.gray \ {Main} :
                 /\ t \in Objs /\ mark[t] = Gray /\ Kind[t] = "table" /\ mode[t] \in Modes
                 /\ Traverse(t, mode[t], [linked EXCEPT !.gray = @ \ {t}])
                 /\ Traversed(t, mode[t], [linked EXCEPT !.gray = @ \ {t}])
<1>0. PICK o \in linked.gray : IF o = Main THEN TraverseThread ELSE Traverse(o, mode[o], [linked EXCEPT !.gray = @ \ {o}])
  BY DEF PropagateMark
<1>1. CASE o = Main
  BY <1>0, <1>1, MarkDarkens DEF TraverseThread
<1>2. CASE o # Main
  <2>1. o \in Objs /\ mark[o] = Gray /\ Kind[o] = "table" /\ mode[o] \in Modes
    BY <1>2, GrayMember DEF GrayLists
  <2>2. [linked EXCEPT !.gray = @ \ {o}] \in [GrayLists -> SUBSET (Objs \cup {Main})]
    BY DEF Types, GrayLists
  <2> QED BY <1>0, <1>2, <2>1, <2>2, TraverseFacts
<1> QED BY <1>1, <1>2
-----------------------------------------------------------------------------
\* Steps that change neither colours nor fields nor lists of objects; and steps that only mark.
Still == UNCHANGED <<mark, mode, key, val, roots, list, sweepgc>>
FieldsKept == \A o \in Objs : val'[o] \in {val[o], 0} /\ key'[o] \in {key[o], 0}
OnlyMarks == Darkens /\ FieldsKept /\ UNCHANGED <<mode, roots, list, white, sweepgc>>

\* Steps that leave the marks and what objects refer to alone.
LEMMA StillSteps ==
  ASSUME Quiet \/ GrayAgain \/ Converge
  PROVE  Still
BY DEF Still, Quiet, GrayAgain, Converge, Pass, heapVars

\* Steps of the collector that mark.
LEMMA MarkingSteps ==
  ASSUME GcAssumption, Types, Shape, Phases, Colours, AtomicPhase,
         RestartCollection \/ PropagateOne \/ PropagateAll \/ Revisit \/ ClearEntry \/ Resurrect
  PROVE  OnlyMarks
<1>1. CASE RestartCollection \/ Resurrect
  BY <1>1, MarkDarkens DEF OnlyMarks, RestartCollection, Resurrect, FieldsKept, heapVars
<1>2. CASE PropagateOne \/ PropagateAll
  <2>1. PropagateMark /\ MarkingNow
    BY <1>2 DEF PropagateOne, PropagateAll, MarkingNow, KeepInvariant, Loops
  <2>2. \A o \in Objs : key'[o] \in {key[o], 0}
    BY <2>1, PropagateFacts DEF TraverseThread, Traversed
  <2> QED BY <1>2, <2>1, <2>2, PropagateFacts DEF OnlyMarks, PropagateOne, PropagateAll, FieldsKept
<1>3. CASE Revisit
  <2>1. PICK t \in rest : Traverse(t, "k", linked)
    BY <1>3 DEF Revisit
  <2>2. t \in Objs /\ mark[t] = Gray /\ Kind[t] = "table" /\ "k" \in Modes
    BY <1>3 DEF Types, Shape, AtomicPhase, LoopLists, Revisit, Loops, Modes
  <2>3. Darkens /\ Traversed(t, "k", linked)
    BY <2>1, <2>2, TraverseFacts DEF Types
  <2> QED BY <1>3, <2>3 DEF OnlyMarks, Revisit, FieldsKept, Traversed
<1>4. CASE ClearEntry
  <2>1. PICK t \in rest : /\ mark' = mark \/ \E S : mark' = ReallyMark(S)
                          /\ \/ val' = [val EXCEPT ![t] = 0] /\ RemoveEntry(t)
                             \/ UNCHANGED <<key, val>>
    BY <1>4 DEF ClearEntry
  <2>2. mark \in [Objs -> Marks] /\ val \in [Objs -> Objs \cup {0}] /\ key \in [Objs -> Objs \cup {0}]
    BY MarkTypes DEF Types
  <2>3. Darkens
    BY <2>1, <2>2, MarkDarkens DEF Darkens
  <2>4. FieldsKept
    BY <2>1, <2>2 DEF FieldsKept, RemoveEntry
  <2> QED BY <1>4, <2>3, <2>4 DEF OnlyMarks, ClearEntry
<1> QED BY <1>1, <1>2, <1>3, <1>4

\* The elements of the lists after they change.
LEMMA ListChange ==
  ASSUME NEW old \in [Lists -> Seq(Objs)], NEW new \in [Lists -> Seq(Objs)], NEW o, NEW from \in Lists, NEW to \in Lists, from # to,
         \A l \in Lists : Distinct(old[l]),
         \A l, m \in Lists : l # m => Elems(old[l]) \cap Elems(old[m]) = {},
         o \in Elems(old[from]), Elems(new[from]) = Elems(old[from]) \ {o}, Elems(new[to]) = Elems(old[to]) \cup {o},
         Distinct(new[from]), Distinct(new[to]), \A l \in Lists \ {from, to} : new[l] = old[l]
  PROVE  /\ \A l \in Lists : Distinct(new[l])
         /\ \A l, m \in Lists : l # m => Elems(new[l]) \cap Elems(new[m]) = {}
         /\ \A x : (\E l \in Lists : x \in Elems(new[l])) <=> (\E l \in Lists : x \in Elems(old[l]))
<1>1. \A l \in Lists : Elems(new[l]) = IF l = from THEN Elems(old[l]) \ {o} ELSE IF l = to THEN Elems(old[l]) \cup {o} ELSE Elems(old[l])
  OBVIOUS
<1>2. \A l \in Lists : Distinct(new[l])
  OBVIOUS
<1>a. \A l \in Lists : \A x : x \in Elems(new[l]) <=> (x \in Elems(old[l]) /\ ~(x = o /\ l = from)) \/ (x = o /\ l = to)
  BY <1>1
<1>3. ASSUME NEW l \in Lists, NEW m \in Lists, l # m, NEW x, x \in Elems(new[l]), x \in Elems(new[m]) PROVE FALSE
  <2>1. \A y, z \in Lists : x \in Elems(old[y]) /\ x \in Elems(old[z]) => y = z
    OBVIOUS
  <2>2. CASE x # o
    BY <1>a, <1>3, <2>1, <2>2
  <2>3. CASE x = o
    BY <1>a, <1>3, <2>1, <2>3
  <2> QED BY <2>2, <2>3
<1>4. ASSUME NEW x PROVE (\E l \in Lists : x \in Elems(new[l])) <=> (\E l \in Lists : x \in Elems(old[l]))
  <2>1. CASE x # o
    BY <1>a, <2>1
  <2>2. CASE x = o
    BY <1>a, <2>2
  <2> QED BY <2>1, <2>2
<1> QED BY <1>2, <1>3, <1>4

\* One turn of the sweep.
SweepsTo(p, l, k) ==
  /\ l \in Lists /\ k \in 1..(Len(list[l]) + 1)
  /\ \/ k = Len(list[l]) + 1 /\ UNCHANGED <<mark, list>> /\ sweepgc' = NullPtr
     \/ /\ k <= Len(list[l]) /\ mark[list[l][k]] = OtherWhite
        /\ mark' = [mark EXCEPT ![list[l][k]] = Free] /\ list' = [list EXCEPT ![l] = Remove(@, k)]
        /\ sweepgc' = IF k = Len(list[l]) THEN NullPtr ELSE p
     \/ /\ k <= Len(list[l]) /\ mark[list[l][k]] # OtherWhite
        /\ mark' = [mark EXCEPT ![list[l][k]] = white] /\ UNCHANGED list
        /\ sweepgc' = IF k = Len(list[l]) THEN NullPtr ELSE [at |-> list[l][k], list |-> l]

\* A turn of sweeplist frees the object of the other white, or makes it white.
LEMMA SweepAtFacts ==
  ASSUME Types, NEW p, NEW l \in Lists, NEW k \in 1..(Len(list[l]) + 1), SweepAt(p, l, k)
  PROVE  SweepsTo(p, l, k)
<1>1. list[l] \in Seq(Objs) /\ Len(list[l]) \in Nat
  BY DEF Types
<1>2. CASE k > Len(list[l])
  <2>1. k = Len(list[l]) + 1
    BY <1>1, <1>2
  <2> QED BY <1>2, <2>1 DEF SweepAt, SweepsTo
<1>3. CASE ~(k > Len(list[l]))
  <2>1. k <= Len(list[l])
    BY <1>1, <1>3
  <2> QED BY <1>3, <2>1 DEF SweepAt, SweepsTo
<1> QED BY <1>2, <1>3

\* A turn of sweeplist keeps every object in one list.
LEMMA SweepKeeps ==
  ASSUME GcAssumption, Types, Listed, Shape, NEW l \in Lists, NEW k \in 1..(Len(list[l]) + 1), NEW p, SweepsTo(p, l, k), UNCHANGED <<key, val, white>>
  PROVE  /\ Listed' /\ Shape' /\ \A o \in Objs : Live(o)' <=> Live(o)
         /\ \A m \in Lists : Elems(list'[m]) \subseteq Elems(list[m])
<1>0. list \in [Lists -> Seq(Objs)] /\ mark \in [Objs -> {0, 1, 2, 3, 4}] /\ white \in {0, 1} /\ Len(list[l]) \in Nat
      /\ DOMAIN list[l] = 1..Len(list[l])
  BY MarkTypes DEF Types, Marks
<1>1. CASE k = Len(list[l]) + 1 /\ UNCHANGED <<mark, list>>
  BY <1>1 DEF Listed, Shape, Live
<1>2. CASE k <= Len(list[l]) /\ mark[list[l][k]] = OtherWhite /\ mark' = [mark EXCEPT ![list[l][k]] = Free] /\ list' = [list EXCEPT ![l] = Remove(@, k)]
  <2> DEFINE o == list[l][k]
  <2>1. k \in 1..Len(list[l]) /\ o \in Objs /\ o \in Elems(list[l]) /\ list[l] \in Seq(Objs) /\ Distinct(list[l])
    BY <1>0, <1>2 DEF Elems, Listed
  <2>2. list'[l] = Remove(list[l], k) /\ \A m \in Lists \ {l} : list'[m] = list[m]
    BY <1>0, <1>2
  <2>3. Elems(list'[l]) = Elems(list[l]) \ {o} /\ Distinct(list'[l])
    BY <2>1, <2>2, RemoveFacts, SMTT(30)
  <2>4. mark'[o] = Free /\ \A x \in Objs \ {o} : mark'[x] = mark[x]
    BY <1>0, <1>2, <2>1
  <2> HIDE DEF o
  <2>5. Listed'
    <3>1. \A m \in Lists : Elems(list'[m]) = Elems(list[m]) \ {o}
      <4> TAKE m \in Lists
      <4>1. m # l => o \notin Elems(list[m]) /\ list'[m] = list[m]
        BY <2>1, <2>2 DEF Listed
      <4> QED BY <2>3, <4>1
    <3>2. \A m \in Lists : Distinct(list'[m])
      BY <2>2, <2>3 DEF Listed
    <3>3. \A m, n \in Lists : m # n => Elems(list'[m]) \cap Elems(list'[n]) = {}
      BY <3>1 DEF Listed
    <3>4. \A x \in Objs : mark'[x] # Free <=> \E m \in Lists : x \in Elems(list'[m])
      <4> TAKE x \in Objs
      <4>1. CASE x = o
        BY <2>4, <3>1, <4>1
      <4>2. CASE x # o
        <5>1. mark'[x] = mark[x] /\ \A m \in Lists : x \in Elems(list'[m]) <=> x \in Elems(list[m])
          BY <2>4, <3>1, <4>2
        <5> QED BY <5>1 DEF Listed
      <4> QED BY <4>1, <4>2
    <3> QED BY <3>2, <3>3, <3>4 DEF Listed
  <2>6. Shape'
    BY <2>1, <2>4 DEF Shape, Free, Gray
  <2>7. mark[o] = 1 - white
    BY <1>2 DEF o, OtherWhite
  <2>8. \A x \in Objs : Live(x)' <=> Live(x)
    BY <1>0, <2>1, <2>4, <2>7 DEF Live, Free, Gray, Black
  <2> QED BY <2>2, <2>3, <2>5, <2>6, <2>8
<1>3. CASE k <= Len(list[l]) /\ mark[list[l][k]] # OtherWhite /\ mark' = [mark EXCEPT ![list[l][k]] = white] /\ UNCHANGED list
  <2> DEFINE o == list[l][k]
  <2>1. o \in Objs /\ o \in Elems(list[l])
    BY <1>0, <1>3 DEF Elems
  <2>2. mark'[o] = white /\ \A x \in Objs \ {o} : mark'[x] = mark[x]
    BY <1>0, <1>3, <2>1
  <2>3. mark[o] # 1 - white
    BY <1>3 DEF OtherWhite
  <2> HIDE DEF o
  <2>4. mark[o] # Free
    BY <2>1 DEF Listed
  <2>5. Listed' /\ Shape'
    BY <1>0, <1>3, <2>1, <2>2, <2>4 DEF Listed, Shape, Free, Gray
  <2>6. \A x \in Objs : Live(x)' <=> Live(x)
    BY <1>0, <2>1, <2>2, <2>3, <2>4 DEF Live, Free, Gray, Black
  <2> QED BY <1>3, <2>5, <2>6
<1> QED BY <1>1, <1>2, <1>3 DEF SweepsTo
-----------------------------------------------------------------------------
\* An object that goes from one list to another.
Moves(o, from, to) ==
  /\ from \in Lists /\ to \in Lists /\ from # to /\ o \in Objs /\ o \in Elems(list[from])
  /\ Elems(list'[from]) = Elems(list[from]) \ {o} /\ Elems(list'[to]) = Elems(list[to]) \cup {o}
  /\ Distinct(list'[from]) /\ Distinct(list'[to]) /\ \A l \in Lists \ {from, to} : list'[l] = list[l]

\* So does a move from one list to another.
LEMMA MoveListed ==
  ASSUME Types, Listed, Types', NEW o, NEW from, NEW to, Moves(o, from, to), \A x \in Objs : mark'[x] = Free <=> mark[x] = Free
  PROVE  Listed'
<1>1. list \in [Lists -> Seq(Objs)] /\ list' \in [Lists -> Seq(Objs)]
  BY DEF Types
<1>2. /\ \A l \in Lists : Distinct(list'[l])
      /\ \A l, m \in Lists : l # m => Elems(list'[l]) \cap Elems(list'[m]) = {}
      /\ \A x : (\E l \in Lists : x \in Elems(list'[l])) <=> (\E l \in Lists : x \in Elems(list[l]))
  BY <1>1, ListChange DEF Moves, Listed
<1> QED BY <1>2 DEF Listed

\* separatetobefnz moves an object to the end of tobefnz.
LEMMA SeparateFacts ==
  ASSUME GcAssumption, Types, Listed, Phases, SeparateOne, ~UNCHANGED list
  PROVE  /\ count \in 1..Len(list.finobj) /\ list.finobj[count] \in Objs /\ White(mark, list.finobj[count])
         /\ list'.finobj = Remove(list.finobj, count) /\ list'.tobefnz = Append(list.tobefnz, list.finobj[count])
         /\ list'.allgc = list.allgc
         /\ Moves(list.finobj[count], "finobj", "tobefnz")
<1>0. list \in [Lists -> Seq(Objs)] /\ Lists = {"allgc", "finobj", "tobefnz"} /\ count \in Nat \ {0}
  BY DEF Types, Lists, Phases, Control, Moving, SeparateOne
<1>1. count \in 1..Len(list.finobj) /\ list.finobj \in Seq(Objs) /\ list.tobefnz \in Seq(Objs)
  BY <1>0 DEF SeparateOne
<1> DEFINE o == list.finobj[count]
<1>2. o \in Objs /\ White(mark, o) /\ o \in Elems(list.finobj)
  BY <1>0, <1>1 DEF SeparateOne, Elems
<1>3. list'.finobj = Remove(list.finobj, count) /\ list'.tobefnz = Append(list.tobefnz, o) /\ list'.allgc = list.allgc
  BY <1>0 DEF SeparateOne
<1>4. Distinct(list.finobj) /\ Distinct(list.tobefnz) /\ o \notin Elems(list.tobefnz)
  BY <1>0, <1>2 DEF Listed
<1>5. Elems(list'.finobj) = Elems(list.finobj) \ {o} /\ Distinct(list'.finobj)
  BY <1>1, <1>3, <1>4, RemoveFacts
<1> HIDE DEF o
<1>6. Elems(list'.tobefnz) = Elems(list.tobefnz) \cup {o} /\ Distinct(list'.tobefnz)
  <2> DEFINE s == list.tobefnz
             a == Append(s, o)
  <2>1. s \in Seq(Objs) /\ Len(s) \in Nat /\ DOMAIN s = 1..Len(s)
    BY <1>1
  <2>2. DOMAIN a = 1..(Len(s) + 1) /\ \A j \in 1..(Len(s) + 1) : a[j] = IF j = Len(s) + 1 THEN o ELSE s[j]
    BY <1>2, <2>1
  <2> HIDE DEF a, s
  <2>3. Elems(a) = Elems(s) \cup {o}
    <3>1. \A j \in DOMAIN s : j \in DOMAIN a /\ a[j] = s[j]
      BY <2>1, <2>2
    <3>2. Len(s) + 1 \in DOMAIN a /\ a[Len(s) + 1] = o
      BY <2>1, <2>2
    <3>3. \A j \in DOMAIN a : a[j] = o \/ (j \in DOMAIN s /\ a[j] = s[j])
      BY <2>1, <2>2
    <3> QED BY <3>1, <3>2, <3>3 DEF Elems
  <2>4. ASSUME NEW j \in DOMAIN a, NEW k \in DOMAIN a, a[j] = a[k] PROVE j = k
    <3>1. \A i \in DOMAIN a : i = Len(s) + 1 \/ (i \in DOMAIN s /\ a[i] = s[i] /\ s[i] # o)
      BY <1>4, <2>1, <2>2 DEF Elems, s
    <3>2. a[Len(s) + 1] = o
      BY <2>1, <2>2
    <3> QED BY <1>4, <2>4, <3>1, <3>2 DEF Distinct, s
  <2> QED BY <1>3, <2>3, <2>4 DEF a, s, Distinct
<1>7. Moves(o, "finobj", "tobefnz")
  BY <1>0, <1>2, <1>3, <1>5, <1>6 DEF Moves
<1> QED BY <1>1, <1>2, <1>3, <1>7 DEF o

\* udata2finalize moves the first of tobefnz to the head of allgc.
LEMMA CallFacts ==
  ASSUME GcAssumption, Types, Listed, CallFinalizer
  PROVE  LET o == Head(list.tobefnz) IN
         /\ o \in Objs /\ list.tobefnz # <<>> /\ o = list.tobefnz[1]
         /\ list'.tobefnz = Tail(list.tobefnz) /\ list'.allgc = <<o>> \o list.allgc /\ list'.finobj = list.finobj
         /\ Moves(o, "tobefnz", "allgc")
<1>0. list \in [Lists -> Seq(Objs)] /\ Lists = {"allgc", "finobj", "tobefnz"} /\ list.tobefnz \in Seq(Objs) /\ list.allgc \in Seq(Objs)
      /\ list.tobefnz # <<>>
  BY DEF Types, Lists, CallFinalizer
<1> DEFINE o == Head(list.tobefnz)
           s == list.tobefnz
<1>1. o \in Objs /\ o = s[1] /\ Len(s) \in Nat /\ Len(s) >= 1 /\ DOMAIN s = 1..Len(s)
  BY <1>0
<1>2. list'.tobefnz = Tail(s) /\ list'.allgc = <<o>> \o list.allgc /\ list'.finobj = list.finobj
  BY <1>0 DEF CallFinalizer
<1>3. DOMAIN Tail(s) = 1..(Len(s) - 1) /\ \A j \in 1..(Len(s) - 1) : Tail(s)[j] = s[j + 1]
  BY <1>0, <1>1
<1>4. Distinct(s) /\ Distinct(list.allgc) /\ o \in Elems(s) /\ o \notin Elems(list.allgc)
  <2>1. o \in Elems(s)
    BY <1>1 DEF Elems
  <2>2. Distinct(s) /\ Distinct(list.allgc) /\ Elems(s) \cap Elems(list.allgc) = {}
    BY <1>0 DEF Listed
  <2> QED BY <2>1, <2>2
<1> HIDE DEF o
<1>5. Elems(list'.allgc) = Elems(list.allgc) \cup {o} /\ Distinct(list'.allgc)
  BY <1>0, <1>1, <1>2, <1>4, ConsFacts
<1> HIDE DEF s
<1>6. Elems(Tail(s)) = Elems(s) \ {o} /\ Distinct(Tail(s))
  <2> DEFINE a == Tail(s)
  <2>1. DOMAIN a = 1..(Len(s) - 1) /\ \A j \in 1..(Len(s) - 1) : a[j] = s[j + 1]
    BY <1>3
  <2> HIDE DEF a
  <2>2. \A j \in DOMAIN a : j + 1 \in DOMAIN s /\ a[j] = s[j + 1] /\ j + 1 # 1
    BY <1>1, <2>1
  <2>3. \A j \in DOMAIN s : j = 1 \/ (j - 1 \in DOMAIN a /\ s[j] = a[j - 1])
    BY <1>1, <2>1
  <2>4. \A x \in Elems(a) : x \in Elems(s) /\ x # o
    BY <1>1, <1>4, <2>2 DEF Elems, Distinct
  <2>5. \A x \in Elems(s) : x = o \/ x \in Elems(a)
    BY <1>1, <2>3 DEF Elems
  <2>6. ASSUME NEW j \in DOMAIN a, NEW k \in DOMAIN a, a[j] = a[k] PROVE j = k
    <3>1. j + 1 = k + 1
      BY <1>4, <2>2, <2>6 DEF Distinct
    <3> QED BY <2>1, <3>1, <1>1
  <2> QED BY <2>4, <2>5, <2>6 DEF a, Distinct
<1>7. Moves(o, "tobefnz", "allgc")
  BY <1>0, <1>1, <1>2, <1>4, <1>5, <1>6 DEF Moves, s
<1> QED BY <1>0, <1>1, <1>2, <1>7 DEF o, s

\* luaC_checkfinalizer keeps the other lists and the marks but that of its object.
LEMMA FinobjFacts ==
  ASSUME GcAssumption, Types, Listed, NEW o \in Elems(list.allgc), ToFinobj(o)
  PROVE  /\ Moves(o, "allgc", "finobj")
         /\ list'.finobj = <<o>> \o list.finobj /\ list'.tobefnz = list.tobefnz
         /\ \E k \in 1..Len(list.allgc) : list.allgc[k] = o /\ list'.allgc = Remove(list.allgc, k)
<1>0. list \in [Lists -> Seq(Objs)] /\ Lists = {"allgc", "finobj", "tobefnz"} /\ list.allgc \in Seq(Objs) /\ list.finobj \in Seq(Objs)
  BY DEF Types, Lists
<1>1. PICK k \in 1..Len(list.allgc) :
           /\ list.allgc[k] = o
           /\ list' = [list EXCEPT !.allgc = Remove(@, k), !.finobj = <<o>> \o @]
           /\ o \in Objs
  BY ToFinobjFacts
<1>2. list'.allgc = Remove(list.allgc, k) /\ list'.finobj = <<o>> \o list.finobj /\ list'.tobefnz = list.tobefnz
  BY <1>0, <1>1
<1>3. Distinct(list.allgc) /\ Distinct(list.finobj) /\ o \notin Elems(list.finobj)
  BY <1>0 DEF Listed
<1>4. Elems(list'.allgc) = Elems(list.allgc) \ {o} /\ Distinct(list'.allgc)
  BY <1>0, <1>1, <1>2, <1>3, RemoveFacts
<1>5. Elems(list'.finobj) = Elems(list.finobj) \cup {o} /\ Distinct(list'.finobj)
  BY <1>0, <1>1, <1>2, <1>3, ConsFacts
<1>6. Moves(o, "allgc", "finobj")
  BY <1>0, <1>1, <1>2, <1>4, <1>5 DEF Moves
<1> QED BY <1>1, <1>2, <1>6
-----------------------------------------------------------------------------
Static == Types /\ Shape /\ Listed /\ Phases /\ Sweeps /\ Colours /\ AtomicPhase

\* Which place each sweeping action sweeps.
LEMMA SweepActions ==
  ASSUME GcAssumption, Types, Listed, Phases, Sweeps, EnterSweep \/ SweepList \/ SweepToLive
  PROVE  /\ UNCHANGED <<mode, key, val, white, roots, linked, moved>>
         /\ \/ UNCHANGED <<mark, list, sweepgc>>
            \/ EnterSweep /\ SweepsTo(HeadOf("allgc"), "allgc", 1)
            \/ ~EnterSweep /\ gcstate \in SweepStates /\ sweepgc # NullPtr /\ SweepsTo(sweepgc, SweptList, Position(sweepgc))
<1>1. CASE EnterSweep
  <2>1. SweepAt(HeadOf("allgc"), "allgc", 1)
    BY <1>1, EnterTypes DEF EnterSweep
  <2>2. "allgc" \in Lists /\ 1 \in 1..(Len(list["allgc"]) + 1)
    BY DEF Lists, Types
  <2> QED BY <1>1, <2>1, <2>2, SweepAtFacts DEF EnterSweep, heapVars, loopVars
<1>2. CASE (SweepList \/ SweepToLive) /\ ~EnterSweep
  <2>1. gcstate \in SweepStates /\ sweepgc # NullPtr
    BY <1>2 DEF SweepList, SweepToLive, Phases, Control, Moving, SweepStates, NullPtr, Types
  <2>2. SweptList \in Lists /\ ListAt(sweepgc) = SweptList /\ Position(sweepgc) \in 1..(Len(list[SweptList]) + 1)
    BY <2>1, SweepPlace
  <2>3. UNCHANGED <<mark, list, sweepgc>> \/ SweepOne(sweepgc)
    BY <1>2 DEF SweepList, SweepToLive
  <2>4. UNCHANGED <<mark, list, sweepgc>> \/ SweepsTo(sweepgc, SweptList, Position(sweepgc))
    BY <2>2, <2>3, SweepAtFacts DEF SweepOne
  <2>5. UNCHANGED <<mode, key, val, white, roots, linked, moved>>
    BY <1>2 DEF SweepList, SweepToLive, heapVars, collectorVars
  <2> QED BY <1>2, <2>1, <2>4, <2>5
<1> QED BY <1>1, <1>2

\* What a sweep does in any of its actions.
LEMMA SweepActionsKeep ==
  ASSUME GcAssumption, Types, Listed, Shape, Phases, Sweeps, EnterSweep \/ SweepList \/ SweepToLive
  PROVE  /\ Listed' /\ Shape' /\ \A o \in Objs : Live(o)' <=> Live(o)
         /\ \A m \in Lists : Elems(list'[m]) \subseteq Elems(list[m])
<1>0. UNCHANGED <<key, val, white>>
  BY SweepActions
<1>1. CASE UNCHANGED <<mark, list, sweepgc>>
  BY <1>0, <1>1 DEF Listed, Shape, Live
<1>2. CASE SweepsTo(HeadOf("allgc"), "allgc", 1)
  <2>1. "allgc" \in Lists /\ 1 \in 1..(Len(list["allgc"]) + 1)
    BY DEF Lists, Types
  <2> QED BY <1>0, <1>2, <2>1, SweepKeeps
<1>3. CASE gcstate \in SweepStates /\ sweepgc # NullPtr /\ SweepsTo(sweepgc, SweptList, Position(sweepgc))
  <2>1. SweptList \in Lists /\ Position(sweepgc) \in 1..(Len(list[SweptList]) + 1)
    BY <1>3, SweepPlace
  <2> QED BY <1>0, <1>3, <2>1, SweepKeeps
<1> QED BY <1>1, <1>2, <1>3, SweepActions

\* The program's steps: what they do to colours.
LEMMA BarrierFacts ==
  ASSUME GcAssumption, Types, NEW o \in Objs, NEW v \in Objs \cup {0}, Barrier(o, v)
  PROVE  \/ UNCHANGED <<mark, linked>> /\ (mark[o] # Black \/ ~White(mark, v))
         \/ /\ mark[o] = Black /\ White(mark, v) /\ KeepInvariant /\ Darkens /\ mark' = ReallyMark({v})
            /\ linked' = [linked EXCEPT !.gray = @ \cup Grayed({v})]
         \/ /\ mark[o] = Black /\ White(mark, v) /\ ~KeepInvariant
            /\ mark' = [mark EXCEPT ![o] = white] /\ UNCHANGED linked
BY MarkDarkens DEF Barrier

\* Only tables have keys and can be gray, strings have nothing: kept by every step.
LEMMA ShapeStep ==
  ASSUME GcAssumption, Static, Next
  PROVE  Shape'
<1>0. /\ Types /\ Shape /\ Listed /\ Phases /\ Sweeps /\ Colours /\ AtomicPhase
      /\ mark \in [Objs -> Marks] /\ key \in [Objs -> Objs \cup {0}] /\ val \in [Objs -> Objs \cup {0}]
      /\ white \in {0, 1} /\ roots \subseteq Objs
  BY MarkTypes DEF Static, Types
<1>1. CASE Still
  BY <1>0, <1>1 DEF Shape, Still
<1>2. CASE OnlyMarks
  <2>1. ASSUME NEW o \in Objs PROVE (Kind[o] # "table" => mark'[o] # Gray) /\ val'[o] \in {val[o], 0} /\ key'[o] \in {key[o], 0}
    BY <1>0, <1>2 DEF OnlyMarks, Darkens, FieldsKept, Shape, Gray, Black
  <2> QED BY <1>0, <2>1 DEF Shape
<1>3. CASE EnterSweep \/ SweepList \/ SweepToLive
  BY <1>0, <1>3, SweepActionsKeep
<1>4. CASE SeparateOne \/ SweepNext \/ SweptToLive \/ Return \/ Raise \/ GetTable \/ Pop \/ SetMode
  <2>1. UNCHANGED <<mark, key, val>>
    BY <1>4 DEF SeparateOne, SweepNext, SweptToLive, Return, Raise, GetTable, Pop, SetMode, heapVars
  <2> QED BY <1>0, <2>1 DEF Shape
<1>5. CASE CallFinalizer \/ CheckFinalizer
  <2>1. PICK o \in Objs : mark' = mark \/ mark' = [mark EXCEPT ![o] = white]
    <3>1. CASE CallFinalizer
      BY <1>0, <3>1, CallFacts DEF CallFinalizer
    <3>2. CASE CheckFinalizer
      BY <1>0, <3>2 DEF CheckFinalizer
    <3> QED BY <1>5, <3>1, <3>2
  <2>2. UNCHANGED <<key, val>>
    BY <1>5 DEF CallFinalizer, CheckFinalizer, heapVars
  <2> QED BY <1>0, <2>1, <2>2 DEF Shape, Gray
<1>6. CASE New
  <2>1. PICK o \in Objs : mark' = [mark EXCEPT ![o] = white] /\ key' = [key EXCEPT ![o] = 0] /\ val' = [val EXCEPT ![o] = 0]
    BY <1>6 DEF New, GcAssumption
  <2> QED BY <1>0, <2>1 DEF Shape, Gray
<1>7. CASE SetTable
  <2>1. PICK t \in roots, k \in roots \cup {0}, v \in roots \cup {0} :
          /\ Kind[t] = "table" /\ (key' = key \/ key' = [key EXCEPT ![t] = k]) /\ val' = [val EXCEPT ![t] = v]
          /\ (mark' = mark \/ mark' = [mark EXCEPT ![t] = Gray])
    BY <1>7 DEF SetTable, BarrierBack
  <2> QED BY <1>0, <2>1 DEF Shape
<1>8. CASE SetUservalue
  <2>1. PICK u \in roots, v \in roots \cup {0} : Kind[u] = "udata" /\ Barrier(u, v) /\ val' = [val EXCEPT ![u] = v]
    BY <1>8 DEF SetUservalue
  <2>2. \A o \in Objs : Kind[o] # "table" => mark'[o] # Gray
    <3>1. u \in Objs /\ v \in Objs \cup {0}
      BY <1>0
    <3>2. \/ mark' = mark \/ Darkens \/ mark' = [mark EXCEPT ![u] = white]
      BY <1>0, <2>1, <3>1, BarrierFacts
    <3>3. CASE Darkens
      BY <1>0, <3>3 DEF Darkens, Shape, Gray, Black
    <3>4. CASE mark' = mark \/ mark' = [mark EXCEPT ![u] = white]
      BY <1>0, <3>1, <3>4 DEF Shape, Gray
    <3> QED BY <3>2, <3>3, <3>4
  <2>3. key' = key
    BY <1>8 DEF SetUservalue
  <2> QED BY <1>0, <2>1, <2>2, <2>3 DEF Shape
<1> QED
  BY <1>0, QuietSteps, StillSteps, MarkingSteps, <1>1, <1>2, <1>3, <1>4, <1>5, <1>6, <1>7, <1>8
  DEF Next, Collector, Marking, Atomic, Sweeping, Program
-----------------------------------------------------------------------------
\* Steps of the program that allocate nothing and move nothing change the colour of one object at most, or mark.
LEMMA OtherSteps ==
  ASSUME SweepNext \/ Return \/ Raise \/ GetTable \/ Pop \/ SetMode
  PROVE  UNCHANGED <<mark, key, val, list, linked, white, moved>>
BY DEF SweepNext, Return, Raise, GetTable, Pop, SetMode, heapVars, loopVars, collectorVars

\* t[k] = v with its barrier.
LEMMA TableFacts ==
  ASSUME GcAssumption, Types, SetTable
  PROVE  \E t \in roots, k \in roots \cup {0}, v \in roots \cup {0} :
           /\ t \in Objs /\ Kind[t] = "table" /\ (val[t] = 0 \/ key[t] = k)
           /\ val' = [val EXCEPT ![t] = v] /\ key' = IF val[t] = 0 /\ v # 0 THEN [key EXCEPT ![t] = k] ELSE key
           /\ \/ UNCHANGED <<mark, linked>> /\ (mark[t] # Black \/ (~White(mark, v) /\ (val[t] = 0 /\ v # 0 => ~White(mark, k))))
              \/ /\ mark[t] = Black /\ mark' = [mark EXCEPT ![t] = Gray]
                 /\ linked' = [linked EXCEPT !.grayagain = @ \cup {t}]
           /\ UNCHANGED <<list, roots, white, sweepgc, mode, moved, pc, gcstate, rest, cleared, round, again, overtaken>>
<1>1. PICK t \in roots, k \in roots \cup {0}, v \in roots \cup {0} :
         /\ Kind[t] = "table" /\ (val[t] = 0 \/ key[t] = k)
         /\ IF val[t] = 0 /\ v # 0 THEN key' = [key EXCEPT ![t] = k] /\ BarrierBack(t, {k, v})
                                   ELSE UNCHANGED key /\ BarrierBack(t, {v})
         /\ val' = [val EXCEPT ![t] = v]
  BY DEF SetTable
<1>2. UNCHANGED <<list, roots, white, sweepgc, mode, moved, pc, gcstate, rest, cleared, round, again, overtaken>>
  BY DEF SetTable, collectorVars
<1>3. t \in Objs
  BY DEF Types
<1>4. \A S : BarrierBack(t, S) => \/ UNCHANGED <<mark, linked>> /\ (mark[t] # Black \/ \A w \in S : ~White(mark, w))
                                  \/ /\ mark[t] = Black /\ mark' = [mark EXCEPT ![t] = Gray]
                                     /\ linked' = [linked EXCEPT !.grayagain = @ \cup {t}]
  BY DEF BarrierBack, Link
<1>5. CASE val[t] = 0 /\ v # 0
  <2>1. key' = [key EXCEPT ![t] = k] /\ BarrierBack(t, {k, v})
    BY <1>1, <1>5
  <2>2. \/ UNCHANGED <<mark, linked>> /\ (mark[t] # Black \/ (~White(mark, v) /\ ~White(mark, k)))
        \/ mark[t] = Black /\ mark' = [mark EXCEPT ![t] = Gray] /\ linked' = [linked EXCEPT !.grayagain = @ \cup {t}]
    BY <1>4, <2>1
  <2> QED BY <1>1, <1>2, <1>3, <1>5, <2>1, <2>2
<1>6. CASE ~(val[t] = 0 /\ v # 0)
  <2>1. key' = key /\ BarrierBack(t, {v})
    BY <1>1, <1>6
  <2>2. \/ UNCHANGED <<mark, linked>> /\ (mark[t] # Black \/ ~White(mark, v))
        \/ mark[t] = Black /\ mark' = [mark EXCEPT ![t] = Gray] /\ linked' = [linked EXCEPT !.grayagain = @ \cup {t}]
    BY <1>4, <2>1
  <2> QED BY <1>1, <1>2, <1>3, <1>6, <2>1, <2>2
<1> QED BY <1>5, <1>6

\* lua_setuservalue with its barrier.
LEMMA UservalueFacts ==
  ASSUME GcAssumption, Types, SetUservalue
  PROVE  \E u \in roots, v \in roots \cup {0} :
           /\ u \in Objs /\ Kind[u] = "udata" /\ val' = [val EXCEPT ![u] = v]
           /\ \/ UNCHANGED <<mark, linked>> /\ (mark[u] # Black \/ ~White(mark, v))
              \/ /\ mark[u] = Black /\ White(mark, v) /\ KeepInvariant /\ Darkens /\ mark' = ReallyMark({v})
                 /\ linked' = [linked EXCEPT !.gray = @ \cup Grayed({v})]
              \/ /\ mark[u] = Black /\ White(mark, v) /\ ~KeepInvariant
                 /\ mark' = [mark EXCEPT ![u] = white] /\ UNCHANGED linked
           /\ UNCHANGED <<key, list, roots, white, sweepgc, mode, moved, pc, gcstate, rest, cleared, round, again, overtaken>>
<1>1. PICK u \in roots, v \in roots \cup {0} : Kind[u] = "udata" /\ Barrier(u, v) /\ val' = [val EXCEPT ![u] = v]
  BY DEF SetUservalue
<1>2. u \in Objs /\ v \in Objs \cup {0}
  BY DEF Types
<1>3. UNCHANGED <<key, list, roots, white, sweepgc, mode, moved, pc, gcstate, rest, cleared, round, again, overtaken>>
  BY DEF SetUservalue, collectorVars
<1> QED BY <1>1, <1>2, <1>3, BarrierFacts

\* A new object is white and at the head of allgc.
LEMMA NewFacts ==
  ASSUME GcAssumption, Types, Listed, Types', New
  PROVE  \E o \in Objs :
           /\ o \in Fresh /\ mark[o] = Free /\ mark' = [mark EXCEPT ![o] = white] /\ roots' = roots \cup {o}
           /\ mode' = [mode EXCEPT ![o] = ""] /\ key' = [key EXCEPT ![o] = 0] /\ val' = [val EXCEPT ![o] = 0]
           /\ list'.allgc = <<o>> \o list.allgc /\ list'.finobj = list.finobj /\ list'.tobefnz = list.tobefnz
           /\ Elems(list'.allgc) = Elems(list.allgc) \cup {o} /\ Distinct(list'.allgc)
           /\ (\A l \in Lists : o \notin Elems(list[l]))
           /\ UNCHANGED <<linked, sweepgc, white, moved, pc, gcstate, rest, cleared, round, again, overtaken>>
<1>1. PICK o \in Fresh :
       /\ mark[o] = Free /\ mark' = [mark EXCEPT ![o] = white]
       /\ list' = [list EXCEPT !.allgc = <<o>> \o @] /\ roots' = roots \cup {o}
       /\ mode' = [mode EXCEPT ![o] = ""] /\ key' = [key EXCEPT ![o] = 0] /\ val' = [val EXCEPT ![o] = 0]
  BY DEF New
<1>2. UNCHANGED <<linked, sweepgc, white, moved, pc, gcstate, rest, cleared, round, again, overtaken>>
  BY DEF New, collectorVars
<1>3. o \in Objs /\ list \in [Lists -> Seq(Objs)] /\ Lists = {"allgc", "finobj", "tobefnz"} /\ list.allgc \in Seq(Objs)
  BY DEF GcAssumption, Types, Lists
<1>4. \A l \in Lists : o \notin Elems(list[l])
  BY <1>1, <1>3 DEF Listed
<1>5. list'.allgc = <<o>> \o list.allgc /\ list'.finobj = list.finobj /\ list'.tobefnz = list.tobefnz
  BY <1>1, <1>3
<1>6. Elems(list'.allgc) = Elems(list.allgc) \cup {o} /\ Distinct(list'.allgc)
  <2>1. Distinct(list.allgc) /\ o \notin Elems(list.allgc)
    BY <1>3, <1>4 DEF Listed
  <2> QED BY <1>3, <1>5, <2>1, ConsFacts
<1> QED BY <1>1, <1>2, <1>3, <1>4, <1>5, <1>6

\* luaC_checkfinalizer: the object moves, or the sweep must leave it first.
LEMMA CheckFacts ==
  ASSUME GcAssumption, Types, Listed, CheckFinalizer
  PROVE  \E o \in roots \cap Elems(list.allgc) :
           /\ o \in Objs /\ mark' = IF IsSweepPhase THEN [mark EXCEPT ![o] = white] ELSE mark
           /\ \/ /\ IsSweepPhase /\ sweepgc.at = o /\ pc' = "tolive" /\ moved' = o /\ UNCHANGED list
              \/ ~(IsSweepPhase /\ sweepgc.at = o) /\ ToFinobj(o) /\ Moves(o, "allgc", "finobj") /\ UNCHANGED <<pc, moved>>
           /\ UNCHANGED <<key, val, mode, roots, linked, sweepgc, white, gcstate, rest, cleared, round, again, overtaken>>
<1>1. PICK o \in roots \cap Elems(list.allgc) :
       /\ mark' = IF IsSweepPhase THEN [mark EXCEPT ![o] = white] ELSE mark
       /\ IF IsSweepPhase /\ sweepgc.at = o THEN pc' = "tolive" /\ moved' = o /\ UNCHANGED list
                                            ELSE ToFinobj(o) /\ UNCHANGED <<pc, moved>>
  BY DEF CheckFinalizer
<1>2. UNCHANGED <<key, val, mode, roots, linked, sweepgc, white, gcstate, rest, cleared, round, again, overtaken>>
  BY DEF CheckFinalizer, heapVars, collectorVars
<1>3. o \in Objs
  BY DEF Types
<1> QED BY <1>1, <1>2, <1>3, FinobjFacts

\* The lists go on holding what is allocated.
LEMMA ListedStep ==
  ASSUME GcAssumption, Static, Types', Next
  PROVE  Listed'
<1>0. /\ Types /\ Shape /\ Listed /\ Phases /\ Sweeps /\ Colours /\ AtomicPhase
      /\ mark \in [Objs -> Marks] /\ white \in {0, 1} /\ Lists = {"allgc", "finobj", "tobefnz"}
      /\ list \in [Lists -> Seq(Objs)] /\ list' \in [Lists -> Seq(Objs)]
  BY MarkTypes DEF Static, Types, Lists
<1>1. CASE UNCHANGED list /\ \A x \in Objs : mark'[x] = Free <=> mark[x] = Free
  BY <1>0, <1>1 DEF Listed
<1>2. CASE Still
  BY <1>1, <1>2 DEF Still
<1>3. CASE OnlyMarks
  BY <1>1, <1>3 DEF OnlyMarks, Darkens, Marked, Free, Gray, Black
<1>4. CASE EnterSweep \/ SweepList \/ SweepToLive
  BY <1>0, <1>4, SweepActionsKeep
<1>5. CASE SweepNext \/ Return \/ Raise \/ GetTable \/ Pop \/ SetMode
  BY <1>1, <1>5, OtherSteps
<1>6. CASE SeparateOne
  <2>1. UNCHANGED mark
    BY <1>6 DEF SeparateOne
  <2>2. CASE UNCHANGED list
    BY <1>1, <2>1, <2>2
  <2>3. CASE ~UNCHANGED list
    BY <1>0, <1>6, <2>1, <2>3, SeparateFacts, MoveListed
  <2> QED BY <2>2, <2>3
<1>7. CASE SweptToLive
  <2>1. moved \in Elems(list.allgc) /\ ToFinobj(moved) /\ UNCHANGED mark
    BY <1>0, <1>7 DEF SweptToLive, Phases, Control, Moving
  <2> QED BY <1>0, <2>1, FinobjFacts, MoveListed
<1>8. CASE CallFinalizer
  <2> DEFINE o == Head(list.tobefnz)
  <2>1. Moves(o, "tobefnz", "allgc")
    BY <1>0, <1>8, CallFacts
  <2>2. mark' = mark \/ mark' = [mark EXCEPT ![o] = white]
    BY <1>8 DEF CallFinalizer
  <2> HIDE DEF o
  <2>3. o \in Objs /\ mark[o] # Free
    BY <1>0, <2>1 DEF Moves, Listed
  <2>4. \A x \in Objs : mark'[x] = Free <=> mark[x] = Free
    BY <1>0, <2>2, <2>3 DEF Free
  <2> QED BY <1>0, <2>1, <2>4, MoveListed
<1>9. CASE CheckFinalizer
  <2>1. PICK o \in roots \cap Elems(list.allgc) :
           /\ o \in Objs /\ mark' = IF IsSweepPhase THEN [mark EXCEPT ![o] = white] ELSE mark
           /\ UNCHANGED list \/ Moves(o, "allgc", "finobj")
    BY <1>0, <1>9, CheckFacts
  <2>2. mark[o] # Free
    BY <1>0, <2>1 DEF Listed
  <2>3. \A x \in Objs : mark'[x] = Free <=> mark[x] = Free
    BY <1>0, <2>1, <2>2 DEF Free
  <2> QED BY <1>0, <1>1, <2>1, <2>3, MoveListed
<1>10. CASE New
  <2>1. PICK o \in Objs :
           /\ mark' = [mark EXCEPT ![o] = white]
           /\ list'.finobj = list.finobj /\ list'.tobefnz = list.tobefnz
           /\ Elems(list'.allgc) = Elems(list.allgc) \cup {o} /\ Distinct(list'.allgc)
           /\ \A l \in Lists : o \notin Elems(list[l])
    BY <1>0, <1>10, NewFacts
  <2>2. \A l \in Lists : Elems(list'[l]) = IF l = "allgc" THEN Elems(list[l]) \cup {o} ELSE Elems(list[l])
    BY <1>0, <2>1
  <2>3. \A l \in Lists : Distinct(list'[l])
    BY <1>0, <2>1 DEF Listed
  <2>4. \A l, m \in Lists : l # m => Elems(list'[l]) \cap Elems(list'[m]) = {}
    BY <1>0, <2>1, <2>2 DEF Listed
  <2>5. ASSUME NEW x \in Objs PROVE mark'[x] # Free <=> \E l \in Lists : x \in Elems(list'[l])
    <3>1. CASE x = o
      BY <1>0, <2>1, <2>2, <3>1 DEF Free
    <3>2. CASE x # o
      <4>1. mark'[x] = mark[x] /\ \A l \in Lists : x \in Elems(list'[l]) <=> x \in Elems(list[l])
        BY <1>0, <2>1, <2>2, <3>2
      <4> QED BY <1>0, <4>1 DEF Listed
    <3> QED BY <3>1, <3>2
  <2> QED BY <2>3, <2>4, <2>5 DEF Listed
<1>11. CASE SetTable
  <2>1. PICK t \in Objs : (UNCHANGED mark \/ (mark[t] = Black /\ mark' = [mark EXCEPT ![t] = Gray])) /\ UNCHANGED list
    BY <1>0, <1>11, TableFacts
  <2> QED BY <1>0, <1>1, <2>1 DEF Free, Gray, Black
<1>12. CASE SetUservalue
  <2>1. PICK u \in Objs : (UNCHANGED mark \/ Darkens \/ (mark[u] = Black /\ mark' = [mark EXCEPT ![u] = white])) /\ UNCHANGED list
    BY <1>0, <1>12, UservalueFacts
  <2>2. CASE UNCHANGED mark \/ (mark[u] = Black /\ mark' = [mark EXCEPT ![u] = white])
    BY <1>0, <1>1, <2>1, <2>2 DEF Free, Black
  <2>3. CASE Darkens
    BY <1>1, <2>1, <2>3 DEF Darkens, Marked, Free, Gray, Black
  <2> QED BY <2>1, <2>2, <2>3
<1> QED
  BY <1>0, QuietSteps, StillSteps, MarkingSteps, <1>2, <1>3, <1>4, <1>5, <1>6, <1>7, <1>8, <1>9, <1>10, <1>11, <1>12
  DEF Next, Collector, Marking, Atomic, Sweeping, Program
-----------------------------------------------------------------------------
\* The collector stays where it may be.
LEMMA ControlStep ==
  ASSUME GcAssumption, Static, Types', Next
  PROVE  Control'
<1>0. /\ Types /\ Listed /\ Phases /\ Control /\ Sweeps
      /\ gcstate \in {"pause", "propagate", "atomic", "insideatomic", "swpend", "callfin", "swpallgc", "swpfinobj", "swptobefnz"}
      /\ SweepStates = {"swpallgc", "swpfinobj", "swptobefnz"}
      /\ Loops = {"atomic", "again", "converge", "changed", "values", "separate", "resurrect", "keys", "newer"}
  BY DEF Static, Types, States, SweepStates, Loops, Phases
<1>1. CASE UNCHANGED <<gcstate, sweepgc>> /\ pc' \in {"program", "check", "single", "finalize"} /\ gcstate # "insideatomic"
  BY <1>0, <1>1 DEF Control
<1>2. CASE Step \/ StepGoesOn \/ FullGoesOn \/ Paused \/ FinalizersDone \/ Return \/ Raise
  <2>1. UNCHANGED <<gcstate, sweepgc>> /\ pc' \in {"program", "check", "single", "finalize"} /\ pc \in {"program", "check", "finalize"}
    BY <1>2 DEF Step, StepGoesOn, FullGoesOn, Paused, FinalizersDone, Return, Raise, Leave
  <2> QED BY <1>0, <1>1, <2>1 DEF Control
<1>3. CASE FullGc
  <2>1. UNCHANGED <<gcstate, sweepgc>> /\ pc = "program" /\ (pc' = "check" \/ (pc' = "enter" /\ KeepInvariant))
    BY <1>3 DEF FullGc
  <2> QED BY <1>0, <2>1 DEF Control, KeepInvariant
<1>4. CASE CallRemaining
  BY <1>0, <1>4 DEF Control, CallRemaining
<1>5. CASE CallFinalizer
  BY <1>0, <1>1, <1>5 DEF Control, CallFinalizer
<1>6. CASE RestartCollection \/ PropagateOne \/ EnterAtomic
  BY <1>0, <1>6 DEF Control, RestartCollection, PropagateOne, EnterAtomic
<1>7. CASE PropagateAll \/ ClearEntry
  BY <1>0, <1>7 DEF Control, PropagateAll, ClearEntry
<1>8. CASE GrayAgain
  BY <1>0, <1>8 DEF Control, GrayAgain
<1>9. CASE Converge
  BY <1>0, <1>9 DEF Control, Converge, Pass
<1>10. CASE Revisit
  <2>1. UNCHANGED <<gcstate, sweepgc>> /\ pc = "converge" /\ pc' \in {"converge", "changed"}
    BY <1>10 DEF Revisit
  <2> QED BY <1>0, <2>1 DEF Control
<1>11. CASE NextEphemeron \/ ClearGone \/ ClearKeys \/ ClearNewer
  <2>1. UNCHANGED <<gcstate, sweepgc>> /\ pc \in {"changed", "converge", "keys"} /\ pc' \in {"converge", "values", "keys", "newer"}
    BY <1>11 DEF NextEphemeron, ClearGone, ClearKeys, ClearNewer, Clear
  <2> QED BY <1>0, <2>1 DEF Control
<1>12. CASE Separate
  BY <1>0, <1>12 DEF Control, Separate
<1>13. CASE SeparateOne
  <2>1. UNCHANGED <<gcstate, sweepgc>> /\ pc = "separate" /\ pc' = pc /\ count \in Nat /\ (count' = count \/ count' = count + 1)
    BY <1>0, <1>13 DEF SeparateOne, Types
  <2> QED BY <1>0, <2>1 DEF Control
<1>14. CASE Resurrect \/ Flip
  BY <1>0, <1>14 DEF Control, Resurrect, Flip
<1>15. CASE EnterSweep
  BY <1>0, <1>15 DEF Control, EnterSweep
<1>16. CASE SweepStep
  BY <1>0, <1>16 DEF Control, SweepStep, NextState
<1>17. CASE SweepList
  <2>1. UNCHANGED gcstate /\ pc = "sweep" /\ pc' \in {"sweep", "check"}
    BY <1>17 DEF SweepList
  <2> QED BY <1>0, <2>1 DEF Control
<1>18. CASE SweepNext
  BY <1>0, <1>18 DEF Control, SweepNext, NextState, NextList
<1>19. CASE SweepEnd
  BY <1>0, <1>19 DEF Control, SweepEnd
<1>20. CASE SweepToLive \/ SweptToLive
  <2>1. UNCHANGED gcstate /\ pc = "tolive" /\ pc' \in {"tolive", "program"}
    BY <1>20 DEF SweepToLive, SweptToLive, collectorVars
  <2> QED BY <1>0, <2>1 DEF Control, Phases, Moving
<1>21. CASE New \/ SetTable \/ GetTable \/ Pop \/ SetUservalue \/ SetMode \/ CheckFinalizer
  <2>1. UNCHANGED <<gcstate, sweepgc>> /\ pc = "program" /\ pc' \in {"tolive", "program"}
    BY <1>21 DEF New, SetTable, GetTable, Pop, SetUservalue, SetMode, CheckFinalizer, collectorVars, Operation
  <2> QED BY <1>0, <2>1 DEF Control
<1> QED
  BY <1>2, <1>3, <1>4, <1>5, <1>6, <1>7, <1>8, <1>9, <1>10, <1>11, <1>12, <1>13, <1>14, <1>15, <1>16, <1>17, <1>18, <1>19, <1>20, <1>21
  DEF Next, Collector, Marking, Atomic, Sweeping, Program

\* The object that luaC_checkfinalizer waits for is not swept again.
LEMMA MovingStep ==
  ASSUME GcAssumption, Static, Types', Next
  PROVE  Moving'
<1>0. /\ Types /\ Listed /\ Phases /\ Moving /\ Sweeps /\ Control
  BY DEF Static, Phases
<1>1. CASE SweepToLive
  <2>1. pc = "tolive" /\ sweepgc.at = moved /\ gcstate = "swpallgc" /\ moved \in Elems(list.allgc) /\ mark[moved] = white /\ gcstate' = gcstate
    BY <1>0, <1>1 DEF SweepToLive, Moving, collectorVars
  <2>2. moved \in Objs /\ moved # 0 /\ SweptList = "allgc" /\ list.allgc \in Seq(Objs) /\ Distinct(list.allgc)
        /\ Len(list.allgc) \in Nat /\ mark \in [Objs -> Marks] /\ list \in [Lists -> Seq(Objs)]
    <3>1. list \in [Lists -> Seq(Objs)] /\ mark \in [Objs -> Marks] /\ "allgc" \in Lists
      BY <1>0, MarkTypes DEF Types, Lists
    <3>2. list.allgc \in Seq(Objs) /\ Len(list.allgc) \in Nat /\ Distinct(list.allgc)
      BY <1>0, <3>1 DEF Listed
    <3>3. moved \in Objs /\ moved # 0
      BY <2>1, <3>2 DEF Elems, GcAssumption
    <3> QED BY <2>1, <3>1, <3>2, <3>3 DEF SweptList
  <2>3. CASE UNCHANGED <<mark, list>>
    BY <1>1, <2>1, <2>3, SweepActions, <1>0 DEF Moving
  <2>4. CASE SweepsTo(sweepgc, "allgc", Position(sweepgc)) /\ gcstate \in SweepStates /\ sweepgc # NullPtr
    <3> DEFINE k == Position(sweepgc)
    <3>1. k \in 1..(Len(list.allgc) + 1) /\ k # 1 /\ list.allgc[k - 1] = moved
      BY <1>0, <2>1, <2>2, <2>4, SweepPlace DEF HeadOf
    <3> HIDE DEF k
    <3>2. CASE k = Len(list.allgc) + 1
      BY <2>1, <2>2, <2>4, <3>2, <1>1, SweepActions, <1>0 DEF SweepsTo, k, Moving
    <3>3. CASE k # Len(list.allgc) + 1
      <4>1. k \in 1..Len(list.allgc) /\ k - 1 \in 1..Len(list.allgc) /\ k # k - 1
        BY <2>2, <3>1, <3>3
      <4>2. list.allgc[k] # moved /\ list.allgc[k] \in Objs
        BY <2>2, <3>1, <4>1 DEF Distinct
      <4>3. mark'[moved] = white
        BY <2>1, <2>2, <2>4, <3>3, <4>2 DEF SweepsTo, k
      <4>4. moved \in Elems(list'.allgc)
        <5>1. CASE list' = list
          BY <2>1, <5>1
        <5>2. CASE list' = [list EXCEPT !["allgc"] = Remove(@, k)]
          <6>1. list'.allgc = Remove(list.allgc, k)
            BY <2>2, <5>2 DEF Lists
          <6> QED BY <2>1, <2>2, <4>1, <4>2, <6>1, RemoveFacts
        <5> QED BY <2>4, <3>3, <5>1, <5>2 DEF SweepsTo, k
      <4>5. white' = white /\ moved' = moved
        BY <1>0, <1>1, SweepActions
      <4> QED BY <2>1, <4>3, <4>4, <4>5 DEF Moving
    <3> QED BY <3>2, <3>3
  <2>5. ~EnterSweep
    BY <2>1 DEF EnterSweep
  <2> QED BY <1>0, <1>1, <2>2, <2>3, <2>4, <2>5, SweepActions
<1>2. CASE CheckFinalizer
  <2>1. PICK o \in roots \cap Elems(list.allgc) :
           /\ o \in Objs /\ mark' = IF IsSweepPhase THEN [mark EXCEPT ![o] = white] ELSE mark
           /\ \/ IsSweepPhase /\ sweepgc.at = o /\ pc' = "tolive" /\ moved' = o /\ UNCHANGED list
              \/ pc' = pc
           /\ UNCHANGED <<white, gcstate>>
    BY <1>0, <1>2, CheckFacts
  <2>2. pc = "program"
    BY <1>2 DEF CheckFinalizer, Operation
  <2>3. CASE pc' = pc
    BY <2>2, <2>3 DEF Moving
  <2>4. CASE IsSweepPhase /\ sweepgc.at = o /\ pc' = "tolive" /\ moved' = o /\ UNCHANGED list
    <3>1. mark'[o] = white
      BY <1>0, <2>1, <2>4 DEF Types
    <3>2. sweepgc # NullPtr /\ sweepgc.at # 0
      BY <2>1, <2>4 DEF NullPtr, GcAssumption
    <3>3. gcstate \in SweepStates
      BY <1>0, <3>2 DEF Control
    <3>4. /\ SweptList \in Lists /\ Position(sweepgc) \in 1..(Len(list[SweptList]) + 1)
          /\ (Position(sweepgc) = 1 => sweepgc = HeadOf(SweptList))
          /\ (Position(sweepgc) > 1 => sweepgc = [at |-> list[SweptList][Position(sweepgc) - 1], list |-> SweptList])
      BY <1>0, <3>2, <3>3, SweepPlace
    <3>5. Position(sweepgc) # 1
      BY <3>2, <3>4 DEF HeadOf
    <3>6. Position(sweepgc) > 1 /\ Position(sweepgc) - 1 \in 1..Len(list[SweptList]) /\ list[SweptList] \in Seq(Objs)
      BY <1>0, <3>4, <3>5 DEF Types
    <3>7. o = list[SweptList][Position(sweepgc) - 1]
      BY <2>4, <3>4, <3>6
    <3>8. o \in Elems(list[SweptList])
      BY <3>6, <3>7 DEF Elems
    <3>9. SweptList = "allgc"
      BY <1>0, <2>1, <3>4, <3>8 DEF Listed, Lists
    <3>10. gcstate = "swpallgc"
      BY <3>3, <3>9 DEF SweptList, SweepStates
    <3> QED BY <2>1, <2>4, <3>1, <3>10 DEF Moving
  <2> QED BY <2>1, <2>3, <2>4
<1>3. CASE ~SweepToLive /\ ~CheckFinalizer
  <2>1. pc' # "tolive" \/ UNCHANGED <<pc, gcstate, moved, list, mark, white>>
    <3>1. CASE Step \/ FullGc \/ StepGoesOn \/ FullGoesOn \/ Paused \/ CallRemaining \/ CallFinalizer \/ FinalizersDone \/ Return \/ Raise
      BY <3>1 DEF Step, FullGc, StepGoesOn, FullGoesOn, Paused, CallRemaining, CallFinalizer, FinalizersDone, Return, Raise, Leave
    <3>2. CASE Marking
      BY <3>2 DEF Marking, RestartCollection, PropagateOne, EnterAtomic, PropagateAll
    <3>3. CASE Atomic
      BY <3>3 DEF Atomic, GrayAgain, Converge, Pass, Revisit, NextEphemeron, ClearGone,
          ClearKeys, ClearNewer, Clear, ClearEntry, Separate, SeparateOne, Resurrect, Flip
    <3>4. CASE EnterSweep \/ SweepStep \/ SweepList \/ SweepNext \/ SweepEnd \/ SweptToLive
      BY <3>4 DEF EnterSweep, SweepStep, SweepList, SweepNext, SweepEnd, SweptToLive
    <3>5. CASE New \/ SetTable \/ GetTable \/ Pop \/ SetUservalue \/ SetMode
      BY <3>5 DEF New, SetTable, GetTable, Pop, SetUservalue, SetMode, Operation
    <3> QED BY <1>3, <3>1, <3>2, <3>3, <3>4, <3>5 DEF Next, Collector, Sweeping, Program
  <2> QED BY <1>0, <2>1 DEF Moving
<1> QED BY <1>1, <1>2, <1>3
-----------------------------------------------------------------------------
\* How the collector comes to mark, and what happens meanwhile.
LEMMA MarkingNowStep ==
  ASSUME GcAssumption, Static, Control', Next, MarkingNow'
  PROVE  /\ ~EnterSweep /\ ~SweepList /\ ~SweepToLive /\ ~SweptToLive /\ ~SweepNext /\ ~Flip
         /\ white' = white
         /\ RestartCollection \/ MarkingNow
         /\ ~RestartCollection => (IsSweepPhase <=> FALSE)
<1>0. /\ Phases /\ Control /\ Moving
      /\ SweepStates = {"swpallgc", "swpfinobj", "swptobefnz"}
      /\ Loops = {"atomic", "again", "converge", "changed", "values", "separate", "resurrect", "keys", "newer"}
      /\ (gcstate' \in {"propagate", "atomic"} \/ pc' \in Loops)
  BY DEF Static, SweepStates, Loops, Phases, MarkingNow, KeepInvariant
<1>1. ~EnterSweep
  BY <1>0 DEF EnterSweep
<1>2. ~SweepList
  BY <1>0 DEF SweepList, Control
<1>3. ~SweepToLive /\ ~SweptToLive
  BY <1>0 DEF SweepToLive, SweptToLive, Moving, collectorVars
<1>4. ~SweepNext
  BY <1>0 DEF SweepNext, NextState
<1>5. ~Flip
  BY <1>0 DEF Flip, Control
<1>6. white' = white
  <2>1. CASE Step \/ FullGc \/ StepGoesOn \/ FullGoesOn \/ Paused \/ CallRemaining \/ CallFinalizer \/ FinalizersDone \/ Return \/ Raise
    BY <2>1 DEF Step, FullGc, StepGoesOn, FullGoesOn, Paused, CallRemaining, CallFinalizer, FinalizersDone, Return, Raise
  <2>2. CASE Marking
    BY <2>2 DEF Marking, RestartCollection, PropagateOne, EnterAtomic, PropagateAll
  <2>3. CASE Atomic
    BY <1>5, <2>3 DEF Atomic, GrayAgain, Converge, Pass, Revisit, NextEphemeron, ClearGone,
        ClearKeys, ClearNewer, Clear, ClearEntry, Separate, SeparateOne, Resurrect
  <2>4. CASE SweepStep \/ SweepEnd
    BY <2>4 DEF SweepStep, SweepEnd
  <2>5. CASE New \/ SetTable \/ GetTable \/ Pop \/ SetUservalue \/ SetMode \/ CheckFinalizer
    BY <2>5 DEF New, SetTable, GetTable, Pop, SetUservalue, SetMode, CheckFinalizer, collectorVars
  <2> QED BY <1>1, <1>2, <1>3, <1>4, <2>1, <2>2, <2>3, <2>4, <2>5 DEF Next, Collector, Sweeping, Program
<1>7. RestartCollection \/ MarkingNow
  <2>1. CASE Step \/ FullGc \/ StepGoesOn \/ FullGoesOn \/ Paused \/ FinalizersDone \/ Return \/ Raise
    BY <1>0, <2>1 DEF Step, FullGc, StepGoesOn, FullGoesOn, Paused, FinalizersDone, Return, Raise, Leave, MarkingNow, KeepInvariant
  <2>2. CASE CallRemaining \/ CallFinalizer
    BY <1>0, <2>2 DEF CallRemaining, CallFinalizer, MarkingNow, KeepInvariant
  <2>3. CASE Marking
    BY <1>0, <2>3 DEF Marking, PropagateOne, EnterAtomic, PropagateAll, MarkingNow, KeepInvariant
  <2>4. CASE Atomic
    <3>1. pc \in Loops
      BY <1>0, <2>4 DEF Atomic, GrayAgain, Converge, Pass, Revisit, NextEphemeron, ClearGone,
        ClearKeys, ClearNewer, Clear, ClearEntry, Separate, SeparateOne, Resurrect, Flip
    <3> QED BY <3>1 DEF MarkingNow
  <2>5. CASE SweepStep \/ SweepEnd
    BY <1>0, <2>5 DEF SweepStep, SweepEnd, MarkingNow, KeepInvariant
  <2>6. CASE New \/ SetTable \/ GetTable \/ Pop \/ SetUservalue \/ SetMode \/ CheckFinalizer
    <3>1. gcstate' = gcstate /\ pc = "program" /\ pc' \in {"program", "tolive"}
      BY <2>6 DEF New, SetTable, GetTable, Pop, SetUservalue, SetMode, CheckFinalizer, collectorVars, Operation
    <3> QED BY <1>0, <3>1 DEF MarkingNow, KeepInvariant
  <2> QED BY <1>1, <1>2, <1>3, <1>4, <2>1, <2>2, <2>3, <2>4, <2>5, <2>6 DEF Next, Collector, Sweeping, Program
<1>8. ~RestartCollection => (IsSweepPhase <=> FALSE)
  BY <1>0, <1>7 DEF MarkingNow, KeepInvariant, IsSweepPhase, Control
<1> QED BY <1>1, <1>2, <1>3, <1>4, <1>5, <1>6, <1>7, <1>8

\* No object is of the other white while the collector marks.
LEMMA WhitesMarkStep ==
  ASSUME GcAssumption, Static, Whites, Types', Control', Next, MarkingNow'
  PROVE  \A o \in Objs : mark'[o] # 1 - white'
<1>0. /\ Types /\ Shape /\ Listed /\ Phases /\ Sweeps /\ Colours /\ AtomicPhase
      /\ mark \in [Objs -> Marks] /\ white \in {0, 1} /\ white' = white
      /\ ~EnterSweep /\ ~SweepList /\ ~SweepToLive /\ ~SweptToLive /\ ~SweepNext /\ ~Flip
      /\ (RestartCollection \/ MarkingNow) /\ (~RestartCollection => (IsSweepPhase <=> FALSE))
  BY MarkTypes, MarkingNowStep DEF Static, Types
<1>1. \A o \in Objs : mark[o] # 1 - white
  <2>1. CASE MarkingNow
    BY <2>1 DEF Whites, MarkingNow, OtherWhite
  <2>2. CASE RestartCollection
    BY <1>0, <2>2 DEF Whites, RestartCollection, Free
  <2> QED BY <1>0, <2>1, <2>2
<1>2. CASE UNCHANGED mark
  BY <1>0, <1>1, <1>2
<1>3. CASE OnlyMarks
  BY <1>0, <1>1, <1>3 DEF OnlyMarks, Darkens, Gray, Black, Marked
<1>4. CASE Return \/ Raise \/ GetTable \/ Pop \/ SetMode
  BY <1>2, <1>4, OtherSteps
<1>5. CASE SeparateOne
  BY <1>2, <1>5 DEF SeparateOne
<1>6. CASE CallFinalizer \/ CheckFinalizer
  <2>1. ~RestartCollection
    BY <1>6 DEF CallFinalizer, CheckFinalizer, Operation, RestartCollection
  <2>2. UNCHANGED mark
    BY <1>0, <1>6, <2>1 DEF CallFinalizer, CheckFinalizer
  <2> QED BY <1>2, <2>2
<1>7. CASE New
  <2>1. PICK o \in Objs : mark' = [mark EXCEPT ![o] = white]
    BY <1>7 DEF New, GcAssumption
  <2> QED BY <1>0, <1>1, <2>1
<1>8. CASE SetTable
  <2>1. PICK t \in Objs : UNCHANGED mark \/ mark' = [mark EXCEPT ![t] = Gray]
    BY <1>0, <1>8, TableFacts
  <2> QED BY <1>0, <1>1, <2>1 DEF Gray
<1>9. CASE SetUservalue
  <2>1. PICK u \in Objs : UNCHANGED mark \/ Darkens \/ mark' = [mark EXCEPT ![u] = white]
    BY <1>0, <1>9, UservalueFacts
  <2>2. CASE Darkens
    BY <1>0, <1>1, <2>2 DEF Darkens, Gray, Black, Marked
  <2> QED BY <1>0, <1>1, <2>1, <2>2
<1>10. Still => UNCHANGED mark
  BY DEF Still
<1> QED
  BY <1>0, QuietSteps, StillSteps, MarkingSteps, <1>2, <1>3, <1>4, <1>5, <1>6, <1>7, <1>8, <1>9, <1>10
  DEF Next, Collector, Marking, Atomic, Sweeping, Program

Resting == gcstate \in {"pause", "swpend", "callfin"}

\* All objects are white before the marking and after the sweep.
LEMMA WhitesRestStep ==
  ASSUME GcAssumption, Static, Whites, Types', Listed', Next, Resting'
  PROVE  \A o \in Objs : mark'[o] \in {white', Free}
<1>0. /\ Types /\ Shape /\ Listed /\ Phases /\ Control /\ Sweeps /\ Colours /\ AtomicPhase
      /\ mark \in [Objs -> Marks] /\ white \in {0, 1} /\ Lists = {"allgc", "finobj", "tobefnz"}
      /\ Loops = {"atomic", "again", "converge", "changed", "values", "separate", "resurrect", "keys", "newer"}
  BY MarkTypes DEF Static, Types, Phases, Lists, Loops
<1>1. CASE SweepNext
  <2>1. gcstate = "swptobefnz" /\ sweepgc = NullPtr /\ UNCHANGED <<mark, list, white>>
    BY <1>1 DEF SweepNext, NextState, Resting
  <2>2. Swept("allgc") /\ Swept("finobj") /\ Swept("tobefnz")
    <3>1. SweptTo("tobefnz") /\ Swept("allgc") /\ Swept("finobj")
      BY <1>0, <2>1 DEF Sweeps
    <3>2. \A k \in DOMAIN list["tobefnz"] : NullPtr # [at |-> list["tobefnz"][k], list |-> "tobefnz"]
      BY DEF NullPtr
    <3> QED BY <2>1, <3>1, <3>2 DEF SweptTo, NullPtr, HeadOf
  <2>3. \A o \in Objs : mark[o] \in {white, Free}
    BY <1>0, <2>2 DEF Swept, Listed
  <2> QED BY <2>1, <2>3
<1>2. CASE UNCHANGED <<mark, white>> /\ Resting
  BY <1>2 DEF Whites, Resting
<1>3. CASE Step \/ FullGc \/ StepGoesOn \/ FullGoesOn \/ Paused \/ FinalizersDone \/ Return \/ Raise
  BY <1>2, <1>3 DEF Step, FullGc, StepGoesOn, FullGoesOn, Paused, FinalizersDone, Return, Raise, Resting
<1>4. CASE CallRemaining \/ SweepEnd
  BY <1>2, <1>4 DEF CallRemaining, SweepEnd, Resting
<1>5. CASE Marking \/ Atomic
  <2>1. CASE Marking
    BY <1>0, <2>1 DEF Marking, RestartCollection, PropagateOne, EnterAtomic, PropagateAll, Resting, Control
  <2>2. CASE Atomic
    <3>1. pc \in Loops /\ gcstate' \in {gcstate, "insideatomic"}
      BY <1>0, <2>2 DEF Atomic, GrayAgain, Converge, Pass, Revisit, NextEphemeron, ClearGone,
        ClearKeys, ClearNewer, Clear, ClearEntry, Separate, SeparateOne, Resurrect, Flip
    <3> QED BY <1>0, <3>1 DEF Resting, Control
  <2> QED BY <1>5, <2>1, <2>2
<1>6. CASE EnterSweep \/ SweepStep \/ SweepList
  BY <1>0, <1>6 DEF EnterSweep, SweepStep, SweepList, Resting, Control, SweepStates, NextState
<1>7. CASE SweepToLive \/ SweptToLive
  BY <1>0, <1>7 DEF SweepToLive, SweptToLive, collectorVars, Resting, Phases, Moving
<1>8. CASE CallFinalizer \/ New \/ CheckFinalizer \/ GetTable \/ Pop \/ SetMode
  <2>1. Resting /\ white' = white
    BY <1>8 DEF CallFinalizer, New, CheckFinalizer, GetTable, Pop, SetMode, collectorVars, Resting
  <2>2. UNCHANGED mark \/ \E o : mark' = [mark EXCEPT ![o] = white]
    BY <1>8 DEF CallFinalizer, New, CheckFinalizer, GetTable, Pop, SetMode, collectorVars
  <2> QED BY <1>0, <2>1, <2>2 DEF Whites, Resting
<1>9. CASE SetTable \/ SetUservalue
  <2>1. Resting /\ white' = white
    BY <1>9 DEF SetTable, SetUservalue, collectorVars, Resting
  <2>2. \A o \in Objs : mark[o] # Black
    BY <1>0, <2>1 DEF Whites, Resting, Black, Free
  <2>3. UNCHANGED mark
    <3>1. CASE SetTable
      BY <1>0, <2>2, <3>1, TableFacts
    <3>2. CASE SetUservalue
      BY <1>0, <2>2, <3>2, UservalueFacts
    <3> QED BY <1>9, <3>1, <3>2
  <2> QED BY <1>2, <2>1, <2>3
<1> QED
  BY <1>1, <1>3, <1>4, <1>5, <1>6, <1>7, <1>8, <1>9
  DEF Next, Collector, Sweeping, Program

\* Both, for every step.
LEMMA WhitesStep ==
  ASSUME GcAssumption, Static, Whites, Types', Listed', Control', Next
  PROVE  Whites'
BY WhitesMarkStep, WhitesRestStep DEF Whites, Resting, MarkingNow, OtherWhite, KeepInvariant
-----------------------------------------------------------------------------
\* Lists that the sweep does not touch.
LEMMA SweptKeep ==
  ASSUME Types, NEW l \in Lists, UNCHANGED <<sweepgc, white>>, list'[l] = list[l],
         \A x \in Elems(list[l]) : mark[x] = white => mark'[x] = white
  PROVE  (Swept(l) => Swept(l)') /\ (SweptTo(l) => SweptTo(l)')
<1>1. list[l] \in Seq(Objs) /\ DOMAIN list[l] = 1..Len(list[l])
  BY DEF Types
<1>2. Swept(l) => Swept(l)'
  BY DEF Swept
<1>3. ASSUME SweptTo(l) PROVE SweptTo(l)'
  <2>1. ASSUME NEW k \in DOMAIN list[l], \A j \in 1..k : mark[list[l][j]] = white
        PROVE  \A j \in 1..k : mark'[list[l][j]] = white
    <3> TAKE j \in 1..k
    <3>1. j \in DOMAIN list[l]
      BY <1>1
    <3> QED BY <2>1, <3>1 DEF Elems
  <2> QED BY <1>2, <1>3, <2>1 DEF SweptTo, HeadOf
<1> QED BY <1>2, <1>3

\* A white object in front of a swept list.
LEMMA SweptCons ==
  ASSUME Types, NEW l \in Lists, UNCHANGED <<sweepgc, white>>, NEW o \in Objs, list'[l] = <<o>> \o list[l], mark'[o] = white,
         \A x \in Objs : mark[x] = white => mark'[x] = white
  PROVE  (Swept(l) => Swept(l)') /\ (SweptTo(l) => SweptTo(l)')
<1> DEFINE s == list[l]
           c == <<o>> \o s
<1>1. s \in Seq(Objs) /\ DOMAIN s = 1..Len(s) /\ Len(s) \in Nat
  BY DEF Types
<1>2. DOMAIN c = 1..(Len(s) + 1) /\ Elems(c) = Elems(s) \cup {o} /\ \A k \in 1..(Len(s) + 1) : c[k] = IF k = 1 THEN o ELSE s[k - 1]
  <2> HIDE DEF s
  <2>1. c \in Seq(Objs) /\ Len(c) = Len(s) + 1
    BY <1>1, ConsFacts
  <2> QED BY <1>1, <2>1, ConsFacts
<1>3. list'[l] = c /\ Elems(s) \subseteq Objs
  BY <1>1 DEF Elems
<1> HIDE DEF s, c
<1>4. Swept(l) => Swept(l)'
  BY <1>2, <1>3 DEF Swept, s
<1>5. ASSUME SweptTo(l) PROVE SweptTo(l)'
  <2>1. ASSUME NEW k \in DOMAIN s, sweepgc = [at |-> s[k], list |-> l], \A j \in 1..k : mark[s[j]] = white
        PROVE  SweptTo(l)'
    <3>1. k + 1 \in DOMAIN c /\ c[k + 1] = s[k]
      BY <1>1, <1>2
    <3>2. ASSUME NEW j \in 1..(k + 1) PROVE mark'[c[j]] = white
      <4>1. CASE j = 1
        BY <1>1, <1>2, <4>1
      <4>2. CASE j # 1
        <5>1. j - 1 \in 1..k /\ c[j] = s[j - 1] /\ s[j - 1] \in Objs
          BY <1>1, <1>2, <4>2
        <5> QED BY <2>1, <5>1
      <4> QED BY <4>1, <4>2
    <3> QED BY <1>3, <2>1, <3>1, <3>2 DEF SweptTo
  <2> QED BY <1>4, <1>5, <2>1 DEF SweptTo, HeadOf, s
<1> QED BY <1>4, <1>5

\* An object leaves a list on which the sweep does not stand.
LEMMA SweptWithout ==
  ASSUME Types, NEW l \in Lists, UNCHANGED <<sweepgc, white>>, NEW k \in DOMAIN list[l], sweepgc.at # list[l][k],
         NEW r \in Seq(Objs), list'[l] = r, Len(r) = Len(list[l]) - 1,
         \A j \in 1..(Len(list[l]) - 1) : r[j] = IF j < k THEN list[l][j] ELSE list[l][j + 1],
         \A x \in Objs : mark[x] = white => mark'[x] = white
  PROVE  (Swept(l) => Swept(l)') /\ (SweptTo(l) => SweptTo(l)')
<1> DEFINE s == list[l]
<1>1. s \in Seq(Objs) /\ DOMAIN s = 1..Len(s) /\ Len(s) \in Nat /\ DOMAIN r = 1..(Len(s) - 1) /\ k \in 1..Len(s)
  BY DEF Types
<1>2. \A j \in DOMAIN r : IF j < k THEN j \in DOMAIN s /\ r[j] = s[j] ELSE j + 1 \in DOMAIN s /\ r[j] = s[j + 1]
  BY <1>1
<1> HIDE DEF s
<1>3. ASSUME Swept(l) PROVE Swept(l)'
  <2>1. \A j \in DOMAIN s : mark[s[j]] = white /\ s[j] \in Objs
    BY <1>1, <1>3 DEF Swept, Elems, s
  <2>2. \A j \in DOMAIN r : mark'[r[j]] = white
    BY <1>1, <1>2, <2>1
  <2> QED BY <2>2 DEF Swept, Elems
<1>4. ASSUME NEW i \in DOMAIN s, sweepgc = [at |-> s[i], list |-> l], \A j \in 1..i : mark[s[j]] = white
      PROVE  SweptTo(l)'
  <2>1. i # k /\ i \in Nat /\ k \in Nat
    BY <1>1, <1>4 DEF s
  <2>2. \A j \in 1..i : mark'[s[j]] = white
    BY <1>1, <1>4
  <2>3. CASE i < k
    <3>1. i \in DOMAIN r /\ r[i] = s[i]
      BY <1>1, <1>2, <2>3
    <3>2. \A j \in 1..i : mark'[r[j]] = white
      <4> TAKE j \in 1..i
      <4>1. j \in DOMAIN r /\ j < k
        BY <1>1, <2>1, <2>3
      <4> QED BY <1>2, <2>2, <4>1
    <3> QED BY <1>4, <3>1, <3>2 DEF SweptTo
  <2>4. CASE i > k
    <3>1. i - 1 \in DOMAIN r /\ r[i - 1] = s[i]
      <4>1. i - 1 \in DOMAIN r /\ ~(i - 1 < k) /\ (i - 1) + 1 = i
        BY <1>1, <2>4
      <4> QED BY <1>2, <4>1
    <3>2. \A j \in 1..(i - 1) : mark'[r[j]] = white
      <4> TAKE j \in 1..(i - 1)
      <4>1. j \in DOMAIN r /\ j \in 1..i /\ j + 1 \in 1..i
        BY <1>1, <2>1
      <4> QED BY <1>2, <2>2, <4>1
    <3> QED BY <1>4, <3>1, <3>2 DEF SweptTo
  <2> QED BY <2>1, <2>3, <2>4
<1>5. SweptTo(l) => SweptTo(l)'
  BY <1>3, <1>4 DEF SweptTo, HeadOf, s
<1> QED BY <1>3, <1>5

\* After a turn of sweeplist one more object is swept.
LEMMA SweepProgress ==
  ASSUME GcAssumption, Types, Listed, NEW l \in Lists, NEW k \in 1..(Len(list[l]) + 1), NEW p, SweepsTo(p, l, k), UNCHANGED white,
         \A j \in 1..(k - 1) : mark[list[l][j]] = white,
         k = 1 => p = HeadOf(l), k > 1 => p = [at |-> list[l][k - 1], list |-> l]
  PROVE  SweptTo(l)' /\ \A m \in Lists \ {l} : Swept(m) => Swept(m)'
<1> DEFINE s == list[l]
           n == Len(s)
           o == s[k]
<1>0. s \in Seq(Objs) /\ DOMAIN s = 1..n /\ n \in Nat /\ mark \in [Objs -> Marks] /\ Distinct(s) /\ list \in [Lists -> Seq(Objs)]
  BY MarkTypes DEF Types, Listed
<1>a. \A j \in 1..(k - 1) : mark[s[j]] = white
  OBVIOUS
<1> HIDE DEF s, n, o
<1>1. CASE k = n + 1 /\ UNCHANGED <<mark, list>> /\ sweepgc' = NullPtr
  <2>1. Swept(l)'
    BY <1>0, <1>1, <1>a DEF Swept, Elems, s
  <2> QED BY <1>1, <2>1 DEF SweptTo, Swept
<1>2. CASE k # n + 1
  <2>1. k \in 1..n /\ o \in Objs /\ k \in DOMAIN s
    BY <1>0, <1>2 DEF o, n, s
  <2>2. o \in Elems(s)
    BY <2>1 DEF Elems, o
  <2>3. \A j \in DOMAIN s : j # k => s[j] # o
    BY <1>0, <2>1 DEF Distinct, o
  <2>4. PICK c \in {Free, white} : /\ mark' = [mark EXCEPT ![o] = c]
                                   /\ \/ c = Free /\ list' = [list EXCEPT ![l] = Remove(@, k)] /\ sweepgc' = IF k = n THEN NullPtr ELSE p
                                      \/ c = white /\ UNCHANGED list /\ sweepgc' = IF k = n THEN NullPtr ELSE [at |-> o, list |-> l]
    BY <1>2 DEF SweepsTo, o, s, n
  <2>5. \A x \in Objs \ {o} : mark'[x] = mark[x]
    BY <2>4
  <2>6. mark'[o] = c
    BY <1>0, <2>1, <2>4
  <2>7. ASSUME NEW m \in Lists \ {l}, Swept(m) PROVE Swept(m)'
    <3>1. o \notin Elems(list[m])
      BY <2>2 DEF Listed, s
    <3>2. list'[m] = list[m]
      BY <1>0, <2>4
    <3>3. Elems(list[m]) \subseteq Objs
      BY <1>0 DEF Elems
    <3> QED BY <2>5, <2>7, <3>1, <3>2, <3>3 DEF Swept
  <2>8. ASSUME c = white, UNCHANGED list, sweepgc' = IF k = n THEN NullPtr ELSE [at |-> o, list |-> l]
        PROVE  SweptTo(l)'
    <3>1. \A j \in 1..k : mark'[s[j]] = white
      <4> TAKE j \in 1..k
      <4>1. CASE j = k
        BY <2>6, <2>8, <4>1 DEF o
      <4>2. CASE j # k
        <5>1. j \in 1..(k - 1) /\ j \in DOMAIN s /\ s[j] \in Objs
          BY <1>0, <2>1, <4>2
        <5> QED BY <1>a, <2>3, <2>5, <4>2, <5>1
      <4> QED BY <4>1, <4>2
    <3>2. CASE k = n
      <4>1. Swept(l)'
        BY <1>0, <2>8, <3>1, <3>2 DEF Swept, Elems, s
      <4> QED BY <2>8, <3>2, <4>1 DEF SweptTo
    <3>3. CASE k # n
      <4>1. sweepgc' = [at |-> list'[l][k], list |-> l] /\ k \in DOMAIN list'[l]
        BY <2>1, <2>8, <3>3 DEF o, s
      <4> QED BY <2>8, <3>1, <4>1 DEF SweptTo, s
    <3> QED BY <3>2, <3>3
  <2>9. ASSUME c = Free, list' = [list EXCEPT ![l] = Remove(@, k)], sweepgc' = IF k = n THEN NullPtr ELSE p
        PROVE  SweptTo(l)'
    <3> DEFINE r == Remove(s, k)
    <3>1. r \in Seq(Objs) /\ Len(r) = n - 1 /\ \A j \in 1..(n - 1) : r[j] = IF j < k THEN s[j] ELSE s[j + 1]
      BY <1>0, <2>1, RemoveFacts DEF n
    <3>2. list'[l] = r
      BY <1>0, <2>9 DEF s
    <3> HIDE DEF r
    <3>3. DOMAIN r = 1..(n - 1)
      BY <1>0, <3>1
    <3>4. \A j \in 1..(k - 1) : j \in DOMAIN r /\ r[j] = s[j] /\ mark'[r[j]] = white
      <4> TAKE j \in 1..(k - 1)
      <4>1. j \in 1..(n - 1) /\ j < k /\ j \in DOMAIN s /\ j # k /\ s[j] \in Objs
        BY <1>0, <2>1
      <4> QED BY <1>a, <2>3, <2>5, <3>1, <3>3, <4>1
    <3>5. CASE k = n
      <4>1. Swept(l)'
        BY <1>0, <3>2, <3>3, <3>4, <3>5 DEF Swept, Elems
      <4> QED BY <2>9, <3>5, <4>1 DEF SweptTo
    <3>6. CASE k # n /\ k = 1
      BY <2>9, <3>6 DEF SweptTo, HeadOf
    <3>7. CASE k # n /\ k # 1
      <4>1. k - 1 \in 1..(k - 1) /\ k > 1
        BY <2>1, <3>7, <1>0
      <4>2. sweepgc' = [at |-> list'[l][k - 1], list |-> l] /\ k - 1 \in DOMAIN list'[l]
        BY <2>9, <3>2, <3>4, <3>7, <4>1 DEF s
      <4>3. \A j \in 1..(k - 1) : mark'[list'[l][j]] = white
        BY <3>2, <3>4
      <4> QED BY <4>2, <4>3 DEF SweptTo
    <3> QED BY <3>5, <3>6, <3>7
  <2> QED BY <2>4, <2>7, <2>8, <2>9
<1> QED BY <1>1, <1>2 DEF SweepsTo, n, s
-----------------------------------------------------------------------------
\* What is swept stays swept while sweepgc rests.
LEMMA SweepsKeep ==
  ASSUME Types, Sweeps, UNCHANGED <<gcstate, sweepgc, white, list>>, \A x \in Objs : mark[x] = white => mark'[x] = white
  PROVE  Sweeps'
<1>1. \A l \in Lists : (Swept(l) => Swept(l)') /\ (SweptTo(l) => SweptTo(l)')
  <2> TAKE l \in Lists
  <2>1. Elems(list[l]) \subseteq Objs /\ list'[l] = list[l]
    BY DEF Types, Elems
  <2> QED BY <2>1, SweptKeep
<1> QED BY <1>1 DEF Sweeps, Lists

\* luaC_checkfinalizer moves no object from before sweepgc to behind it.
LEMMA FinobjSweeps ==
  ASSUME GcAssumption, Types, Listed, Sweeps, Control, UNCHANGED <<gcstate, sweepgc, white>>, NEW o \in Elems(list.allgc), ToFinobj(o),
         gcstate \in SweepStates, sweepgc.at # o, mark'[o] = white, \A x \in Objs : mark[x] = white => mark'[x] = white
  PROVE  Sweeps'
<1>0. list \in [Lists -> Seq(Objs)] /\ Lists = {"allgc", "finobj", "tobefnz"} /\ o \in Objs
  BY DEF Types, Lists, Elems
<1>1. PICK k \in 1..Len(list.allgc) : list.allgc[k] = o /\ list'.allgc = Remove(list.allgc, k)
  BY FinobjFacts
<1>2. list'.finobj = <<o>> \o list.finobj /\ list'.tobefnz = list.tobefnz
  BY FinobjFacts
<1>3. (Swept("allgc") => Swept("allgc")') /\ (SweptTo("allgc") => SweptTo("allgc")')
  <2>1. list["allgc"] \in Seq(Objs) /\ k \in DOMAIN list["allgc"] /\ sweepgc.at # list["allgc"][k]
    BY <1>0, <1>1
  <2>2. /\ Remove(list["allgc"], k) \in Seq(Objs) /\ Len(Remove(list["allgc"], k)) = Len(list["allgc"]) - 1
        /\ \A j \in 1..(Len(list["allgc"]) - 1) : Remove(list["allgc"], k)[j] = IF j < k THEN list["allgc"][j] ELSE list["allgc"][j + 1]
    BY <1>0, <1>1, <2>1, RemoveFacts
  <2>3. PICK r \in Seq(Objs) : r = Remove(list["allgc"], k)
    BY <2>2
  <2> QED BY <1>0, <1>1, <2>1, <2>2, <2>3, SweptWithout
<1>4. (Swept("finobj") => Swept("finobj")') /\ (SweptTo("finobj") => SweptTo("finobj")')
  BY <1>0, <1>2, SweptCons
<1>5. (Swept("tobefnz") => Swept("tobefnz")') /\ (SweptTo("tobefnz") => SweptTo("tobefnz")')
  <2>1. Elems(list["tobefnz"]) \subseteq Objs
    BY <1>0 DEF Elems
  <2> QED BY <1>0, <1>2, <2>1, SweptKeep
<1> QED BY <1>3, <1>4, <1>5 DEF Sweeps

\* What the sweep has passed is white, after every step.
LEMMA SweepsStep ==
  ASSUME GcAssumption, Static, Whites, Types', Next, ~overtaken'
  PROVE  Sweeps'
<1>0. /\ Types /\ Shape /\ Listed /\ Phases /\ Control /\ Moving /\ Sweeps /\ Colours /\ AtomicPhase
      /\ mark \in [Objs -> Marks] /\ white \in {0, 1} /\ Lists = {"allgc", "finobj", "tobefnz"} /\ list \in [Lists -> Seq(Objs)]
      /\ Loops = {"atomic", "again", "converge", "changed", "values", "separate", "resurrect", "keys", "newer"}
      /\ SweepStates = {"swpallgc", "swpfinobj", "swptobefnz"}
  BY MarkTypes DEF Static, Types, Phases, Lists, Loops, SweepStates
<1>1. CASE UNCHANGED <<gcstate, sweepgc, white, list, mark>>
  BY <1>0, <1>1, SweepsKeep
<1>2. CASE Step \/ FullGc \/ StepGoesOn \/ FullGoesOn \/ Paused \/ FinalizersDone \/ Return \/ Raise \/ SweepStep
  BY <1>1, <1>2 DEF Step, FullGc, StepGoesOn, FullGoesOn, Paused, FinalizersDone, Return, Raise, SweepStep
<1>3. CASE gcstate' \notin SweepStates
  BY <1>0, <1>3 DEF Sweeps
<1>4. CASE CallRemaining \/ SweepEnd
  BY <1>0, <1>1, <1>3, <1>4 DEF CallRemaining, SweepEnd
<1>5. CASE Marking \/ Atomic
  <2>1. CASE Marking
    BY <1>0, <1>3, <2>1 DEF Marking, RestartCollection, PropagateOne, EnterAtomic, PropagateAll, Control
  <2>2. CASE Atomic
    <3>1. pc \in Loops /\ gcstate' \in {gcstate, "insideatomic"}
      BY <1>0, <2>2 DEF Atomic, GrayAgain, Converge, Pass, Revisit, NextEphemeron, ClearGone,
        ClearKeys, ClearNewer, Clear, ClearEntry, Separate, SeparateOne, Resurrect, Flip
    <3> QED BY <1>0, <1>3, <3>1 DEF Control
  <2> QED BY <1>5, <2>1, <2>2
<1>6. CASE EnterSweep
  <2>1. gcstate' = "swpallgc" /\ white' = white
    BY <1>6 DEF EnterSweep
  <2>2. SweepsTo(HeadOf("allgc"), "allgc", 1)
    <3>1. SweepAt(HeadOf("allgc"), "allgc", 1)
      BY <1>0, <1>6, EnterTypes DEF EnterSweep
    <3>2. 1 \in 1..(Len(list["allgc"]) + 1) /\ "allgc" \in Lists
      BY <1>0
    <3> QED BY <1>0, <3>1, <3>2, SweepAtFacts
  <2>3. SweptTo("allgc")'
    <3>1. 1 \in 1..(Len(list["allgc"]) + 1) /\ "allgc" \in Lists /\ \A j \in 1..(1 - 1) : mark[list["allgc"][j]] = white
      BY <1>0
    <3> QED BY <1>0, <2>1, <2>2, <3>1, SweepProgress
  <2> QED BY <2>1, <2>3 DEF Sweeps
<1>7. CASE SweepList \/ SweepToLive
  <2>1. gcstate' = gcstate /\ white' = white /\ gcstate \in SweepStates
    BY <1>0, <1>7 DEF SweepList, SweepToLive, collectorVars, Control, Moving
  <2>2. ~EnterSweep
    BY <1>0, <1>7 DEF SweepList, SweepToLive, EnterSweep
  <2>3. CASE UNCHANGED <<mark, list, sweepgc>>
    BY <1>1, <2>1, <2>3
  <2>4. CASE sweepgc # NullPtr /\ SweepsTo(sweepgc, SweptList, Position(sweepgc))
    <3>1. PICK l \in Lists : l = SweptList
      BY <1>0, <2>1, <2>4, SweepPlace
    <3>2. PICK k \in 1..(Len(list[l]) + 1) : k = Position(sweepgc)
      BY <1>0, <2>1, <2>4, <3>1, SweepPlace
    <3>3. SweptTo(l)' /\ \A m \in Lists \ {l} : Swept(m) => Swept(m)'
      <4>1. /\ SweepsTo(sweepgc, l, k) /\ \A j \in 1..(k - 1) : mark[list[l][j]] = white
            /\ k = 1 => sweepgc = HeadOf(l)
            /\ k > 1 => sweepgc = [at |-> list[l][k - 1], list |-> l]
        BY <1>0, <2>1, <2>4, <3>1, <3>2, SweepPlace
      <4> QED BY <1>0, <2>1, <4>1, SweepProgress
    <3> QED BY <1>0, <2>1, <3>1, <3>3 DEF Sweeps, SweptList
  <2> QED BY <1>0, <1>7, <2>2, <2>3, <2>4, SweepActions
<1>8. CASE SweepNext
  <2>1. UNCHANGED <<mark, list, white>> /\ sweepgc = NullPtr /\ gcstate \in SweepStates /\ gcstate' = NextState[gcstate] /\ sweepgc' = NextList[gcstate]
    BY <1>0, <1>8 DEF SweepNext, NextState
  <2>2. \A l \in Lists : SweptTo(l) => Swept(l)
    BY <1>0, <2>1, GcAssumption DEF SweptTo, NullPtr, HeadOf, GcAssumption
  <2>3. \A l \in Lists : Swept(l) => Swept(l)'
    BY <2>1 DEF Swept
  <2>4. CASE gcstate = "swpallgc"
    BY <1>0, <2>1, <2>2, <2>3, <2>4 DEF Sweeps, NextState, NextList, SweptTo
  <2>5. CASE gcstate = "swpfinobj"
    BY <1>0, <2>1, <2>2, <2>3, <2>5 DEF Sweeps, NextState, NextList, SweptTo
  <2>6. CASE gcstate = "swptobefnz"
    BY <1>3, <1>0, <2>1, <2>6 DEF NextState
  <2> QED BY <1>0, <2>1, <2>4, <2>5, <2>6
<1>9. CASE SweptToLive
  <2>1. UNCHANGED <<mark, gcstate, sweepgc, white>> /\ ToFinobj(moved) /\ sweepgc.at # moved /\ moved \in Elems(list.allgc) /\ mark[moved] = white
        /\ gcstate = "swpallgc"
    BY <1>0, <1>9 DEF SweptToLive, collectorVars, Moving
  <2>2. gcstate \in SweepStates
    BY <1>0, <2>1
  <2> QED BY <1>0, <2>1, <2>2, FinobjSweeps
<1>10. CASE CallFinalizer
  <2> DEFINE o == Head(list.tobefnz)
  <2>1. /\ UNCHANGED <<gcstate, sweepgc, white>>
        /\ mark' = IF IsSweepPhase THEN [mark EXCEPT ![o] = white] ELSE mark
        /\ ~(IsSweepPhase /\ sweepgc.at = o)
    BY <1>10 DEF CallFinalizer
  <2>2. o \in Objs /\ list.tobefnz # <<>> /\ o = list.tobefnz[1]
        /\ list'.tobefnz = Tail(list.tobefnz) /\ list'.allgc = <<o>> \o list.allgc /\ list'.finobj = list.finobj
    BY <1>0, <1>10, CallFacts
  <2> HIDE DEF o
  <2>3. CASE gcstate \in SweepStates
    <3>1. IsSweepPhase
      BY <1>0, <2>3 DEF IsSweepPhase
    <3>x. sweepgc.at # o
      BY <2>1, <3>1
    <3>2. mark'[o] = white /\ \A x \in Objs : mark[x] = white => mark'[x] = white
      BY <1>0, <2>1, <2>2, <3>1
    <3>3. (Swept("allgc") => Swept("allgc")') /\ (SweptTo("allgc") => SweptTo("allgc")')
      BY <1>0, <2>1, <2>2, <3>2, SweptCons
    <3>4. (Swept("finobj") => Swept("finobj")') /\ (SweptTo("finobj") => SweptTo("finobj")')
      <4>1. Elems(list["finobj"]) \subseteq Objs
        BY <1>0 DEF Elems
      <4> QED BY <1>0, <2>1, <2>2, <3>2, <4>1, SweptKeep
    <3>5. (Swept("tobefnz") => Swept("tobefnz")') /\ (SweptTo("tobefnz") => SweptTo("tobefnz")')
      <4> DEFINE s == list["tobefnz"]
      <4>1. s \in Seq(Objs) /\ s # <<>>
        BY <1>0, <2>2
      <4>2. Tail(s) \in Seq(Objs) /\ Len(Tail(s)) = Len(s) - 1 /\ (\A j \in 1..(Len(s) - 1) : Tail(s)[j] = s[j + 1]) /\ 1 \in DOMAIN s /\ Len(s) \in Nat
        BY <4>1
      <4>3. PICK r \in Seq(Objs) : r = Tail(s)
        BY <4>2
      <4>4. \A j \in 1..(Len(s) - 1) : r[j] = IF j < 1 THEN s[j] ELSE s[j + 1]
        BY <4>2, <4>3
      <4> HIDE DEF s
      <4>5. list'["tobefnz"] = r /\ Len(r) = Len(s) - 1 /\ sweepgc.at # s[1]
        BY <2>2, <3>1, <3>x, <4>2, <4>3 DEF s
      <4> QED BY <1>0, <2>1, <3>2, <4>2, <4>4, <4>5, SweptWithout DEF s
    <3> QED BY <1>0, <2>1, <3>3, <3>4, <3>5 DEF Sweeps
  <2>4. CASE gcstate \notin SweepStates
    BY <1>3, <2>1, <2>4
  <2> QED BY <2>3, <2>4
<1>11. CASE New
  <2>1. PICK o \in Objs : /\ mark' = [mark EXCEPT ![o] = white] /\ list'.allgc = <<o>> \o list.allgc
                          /\ list'.finobj = list.finobj /\ list'.tobefnz = list.tobefnz /\ UNCHANGED <<sweepgc, white, gcstate>>
    BY <1>0, <1>11, NewFacts
  <2>2. mark'[o] = white /\ \A x \in Objs : mark[x] = white => mark'[x] = white
    BY <1>0, <2>1
  <2>3. (Swept("allgc") => Swept("allgc")') /\ (SweptTo("allgc") => SweptTo("allgc")')
    BY <1>0, <2>1, <2>2, SweptCons
  <2>4. \A l \in {"finobj", "tobefnz"} : Elems(list[l]) \subseteq Objs /\ list'[l] = list[l]
    BY <1>0, <2>1 DEF Elems
  <2>5. \A l \in {"finobj", "tobefnz"} : (Swept(l) => Swept(l)') /\ (SweptTo(l) => SweptTo(l)')
    BY <1>0, <2>1, <2>2, <2>4, SweptKeep
  <2> QED BY <1>0, <2>1, <2>3, <2>5 DEF Sweeps
<1>12. CASE SetTable
  <2>1. PICK t \in Objs : /\ (UNCHANGED mark \/ (mark[t] = Black /\ mark' = [mark EXCEPT ![t] = Gray]))
                          /\ UNCHANGED <<gcstate, sweepgc, white, list>>
    BY <1>0, <1>12, TableFacts
  <2> QED BY <1>0, <2>1, SweepsKeep DEF Black
<1>13. CASE SetUservalue
  <2>1. PICK u \in Objs : /\ \/ UNCHANGED mark \/ (KeepInvariant /\ Darkens)
                             \/ (mark[u] = Black /\ mark' = [mark EXCEPT ![u] = white])
                          /\ UNCHANGED <<gcstate, sweepgc, white, list>>
    BY <1>0, <1>13, UservalueFacts
  <2>2. CASE KeepInvariant
    BY <1>0, <1>3, <2>1, <2>2 DEF KeepInvariant
  <2>3. CASE ~KeepInvariant
    BY <1>0, <2>1, <2>3, SweepsKeep DEF Black
  <2> QED BY <2>2, <2>3
<1>14. CASE CheckFinalizer
  <2>1. PICK o \in roots \cap Elems(list.allgc) :
           /\ o \in Objs /\ mark' = IF IsSweepPhase THEN [mark EXCEPT ![o] = white] ELSE mark
           /\ \/ UNCHANGED list
              \/ ~(IsSweepPhase /\ sweepgc.at = o) /\ ToFinobj(o)
           /\ UNCHANGED <<sweepgc, white, gcstate>>
    BY <1>0, <1>14, CheckFacts
  <2>2. CASE gcstate \in SweepStates
    <3>1. IsSweepPhase
      BY <1>0, <2>2 DEF IsSweepPhase
    <3>2. mark'[o] = white /\ \A x \in Objs : mark[x] = white => mark'[x] = white
      BY <1>0, <2>1, <3>1
    <3>3. CASE UNCHANGED list
      BY <1>0, <2>1, <3>2, <3>3, SweepsKeep
    <3>4. CASE ToFinobj(o) /\ sweepgc.at # o
      BY <1>0, <2>1, <2>2, <3>2, <3>4, FinobjSweeps
    <3> QED BY <2>1, <3>1, <3>3, <3>4
  <2> QED BY <1>3, <2>1, <2>2
<1>15. CASE GetTable \/ Pop \/ SetMode
  BY <1>1, <1>15 DEF GetTable, Pop, SetMode, collectorVars
<1> QED
  BY <1>2, <1>4, <1>5, <1>6, <1>7, <1>8, <1>9, <1>10, <1>11, <1>12, <1>13, <1>14, <1>15
  DEF Next, Collector, Sweeping, Program
-----------------------------------------------------------------------------
\* References are kept by a step that frees nothing live and adds none to the dead.
LEMMA ReferencesKeep ==
  ASSUME Types, References, FieldsKept, roots' \subseteq roots, Elems(list'.tobefnz) \subseteq Elems(list.tobefnz),
         \A o \in Objs : Live(o) => Live(o)', \A o \in Objs : val'[o] # 0 /\ Live(o)' => Live(o)
  PROVE  References'
<1>1. roots \subseteq Objs /\ Elems(list.tobefnz) \subseteq Objs
  BY DEF Types, Elems, Lists
<1>2. \A o \in roots' : Live(o)'
  BY <1>1 DEF References
<1>3. \A o \in Elems(list'.tobefnz) : Live(o)'
  BY <1>1 DEF References
<1>4. ASSUME NEW o \in Objs, Live(o)', val'[o] # 0
      PROVE  Live(val[o])' /\ (key'[o] # 0 => Live(key[o])')
  <2>1. Live(o) /\ val'[o] = val[o] /\ val[o] # 0 /\ (key'[o] # 0 => key'[o] = key[o])
    BY <1>4 DEF FieldsKept
  <2>2. Live(val[o]) /\ (key[o] # 0 => Live(key[o]))
    BY <2>1 DEF References
  <2>3. val[o] \in Objs /\ (key[o] # 0 => key[o] \in Objs)
    BY <2>2 DEF Live
  <2>4. \A x \in Objs : Live(x) => mark'[x] \in {white', Gray, Black}
    BY DEF Live
  <2> QED BY <2>1, <2>2, <2>3, <2>4 DEF Live
<1> QED BY <1>2, <1>3, <1>4 DEF References

\* What the flip of the whites leaves alive.
LEMMA FlipMarked ==
  ASSUME GcAssumption, Types, Listed, Colours, AtomicPhase, References, Whites, pc = "newer", rest = {}
  PROVE  /\ \A o \in roots \cup Elems(list.tobefnz) : mark[o] \in Marked
         /\ \A o \in Objs : mark[o] \in Marked /\ val[o] # 0 => mark[val[o]] \in Marked /\ (key[o] # 0 => mark[key[o]] \in Marked)
<1>0. /\ mark \in [Objs -> Marks] /\ Objs \subseteq Nat \ {0} /\ white \in {0, 1} /\ pc \in Loops /\ MarkingNow
      /\ BlackDone /\ ListsGray /\ FinMarked /\ StackDone /\ TablesCovered /\ LoopLists /\ Cleaned
  BY MarkTypes DEF GcAssumption, Types, AtomicPhase, Colours, MarkingNow, Loops
<1>1. linked.gray = {} /\ Late
  BY <1>0 DEF LoopLists, Late
<1>2. \A o \in Objs : Live(o) /\ NotWhite(o) => mark[o] \in Marked
  BY <1>0 DEF Live, NotWhite, White, Marked
<1>3. \A o \in roots \cup Elems(list.tobefnz) : o \in Objs /\ Live(o)
  BY DEF References, Live
<1>4. \A o \in roots \cup Elems(list.tobefnz) : NotWhite(o)
  BY <1>0, <1>1 DEF StackDone, FinMarked
<1>5. ASSUME NEW o \in Objs, mark[o] \in Marked, val[o] # 0
      PROVE  mark[val[o]] \in Marked /\ (key[o] # 0 => mark[key[o]] \in Marked)
  <2>1. Live(o)
    BY <1>5 DEF Live, Marked
  <2>2. Live(val[o]) /\ val[o] \in Objs /\ (key[o] # 0 => Live(key[o]) /\ key[o] \in Objs)
    BY <2>1, <1>5 DEF References, Live
  <2>3. NotWhite(val[o]) /\ NotWhite(key[o])
    <3>1. CASE mark[o] = Black
      BY <1>0, <1>5, <3>1 DEF BlackDone
    <3>2. CASE mark[o] = Gray
      <4>1. Covered(o)
        BY <1>0, <1>5, <3>2 DEF TablesCovered
      <4>2. o \notin linked.ephemeron
        BY <1>0, <1>5 DEF Cleaned
      <4>3. o \in linked.weak \cup linked.allweak => NotWhite(val[o])
        BY <1>0, <1>1, <1>5 DEF Cleaned
      <4>4. o \in linked.allweak => NotWhite(key[o])
        BY <1>0, <1>5 DEF Cleaned
      <4> QED BY <1>1, <4>1, <4>2, <4>3, <4>4 DEF Covered
    <3> QED BY <1>5, <3>1, <3>2 DEF Marked
  <2> QED BY <1>2, <2>2, <2>3
<1> QED BY <1>2, <1>3, <1>4, <1>5

\* Outside of a sweep nothing is dead, and what is not free lives.
LEMMA NoneDead ==
  ASSUME Types, Whites, MarkingNow \/ Resting
  PROVE  \A o \in Objs : Live(o) <=> mark[o] # Free
<1>1. \A o \in Objs : mark[o] # OtherWhite
  <2>1. CASE MarkingNow
    BY <2>1 DEF MarkingNow, Whites
  <2>2. CASE Resting
    BY <2>2, SMTT(30) DEF Resting, Whites, Types, OtherWhite, Free
  <2> QED BY <2>1, <2>2
<1>2. mark \in [Objs -> {0, 1, Gray, Black, Free}] /\ white \in {0, 1} /\ Gray = 2 /\ Black = 3 /\ Free = 4
  BY DEF Types, Marked, Gray, Black, Free
<1> QED BY <1>1, <1>2 DEF Live, OtherWhite

\* Marking keeps what is live.
LEMMA DarkensLive ==
  ASSUME Types, Types', Whites, MarkingNow \/ Resting, Darkens, white' = white
  PROVE  \A o \in Objs : Live(o)' <=> Live(o)
<1>1. \A o \in Objs : Live(o) <=> mark[o] # Free
  BY NoneDead
<1>2. \A o \in Objs : mark[o] \in {0, 1, 2, 3, 4} /\ mark'[o] \in {0, 1, 2, 3, 4} /\ white \in {0, 1}
  BY DEF Types, Marked, Gray, Black, Free
<1>3. ASSUME NEW o \in Objs PROVE Live(o)' <=> Live(o)
  <2>1. CASE mark'[o] = mark[o]
    BY <2>1 DEF Live
  <2>2. CASE mark[o] \in {0, 1} /\ mark'[o] \in Marked
    BY <1>1, <2>2 DEF Live, Marked, Free
  <2>3. CASE mark[o] \in Marked /\ mark'[o] \in Marked
    BY <2>3 DEF Live, Marked
  <2> QED BY <2>1, <2>2, <2>3 DEF Darkens, Marked
<1> QED BY <1>3

\* Nothing live comes to refer to the dead.
LEMMA ReferencesStep ==
  ASSUME GcAssumption, Static, Whites, References, Types', Next
  PROVE  References'
<1>0. /\ Types /\ Shape /\ Listed /\ Phases /\ Control /\ Moving /\ Sweeps /\ Colours /\ AtomicPhase
      /\ mark \in [Objs -> Marks] /\ white \in {0, 1} /\ Lists = {"allgc", "finobj", "tobefnz"} /\ list \in [Lists -> Seq(Objs)]
      /\ Objs \subseteq Nat \ {0} /\ roots \subseteq Objs
      /\ val \in [Objs -> Objs \cup {0}] /\ key \in [Objs -> Objs \cup {0}]
      /\ Loops = {"atomic", "again", "converge", "changed", "values", "separate", "resurrect", "keys", "newer"}
  BY MarkTypes DEF Static, Types, Phases, Lists, Loops, GcAssumption
<1>1. CASE UNCHANGED <<mark, white, list>> /\ FieldsKept /\ roots' \subseteq roots
  BY <1>0, <1>1, ReferencesKeep DEF Live
<1>2. CASE Step \/ FullGc \/ StepGoesOn \/ FullGoesOn \/ Paused \/ EnterAtomic \/ NextEphemeron \/ ClearGone \/ ClearKeys \/ ClearNewer
         \/ Separate \/ SweepStep \/ SweepEnd \/ CallRemaining \/ FinalizersDone
  <2>1. Quiet
    BY <1>2, QuietSteps
  <2>2. white' = white
    BY <1>2 DEF Step, FullGc, StepGoesOn, FullGoesOn, Paused, EnterAtomic, NextEphemeron, ClearGone, ClearKeys, ClearNewer, Clear,
       Separate, SweepStep, SweepEnd, CallRemaining, FinalizersDone
  <2> QED BY <1>1, <2>1, <2>2 DEF Quiet, FieldsKept
<1>3. CASE GrayAgain \/ Converge
  <2>1. Still /\ white' = white
    BY <1>3, StillSteps DEF GrayAgain, Converge, Pass
  <2> QED BY <1>1, <2>1 DEF Still, FieldsKept
<1>4. CASE RestartCollection \/ PropagateOne \/ PropagateAll \/ Revisit \/ ClearEntry \/ Resurrect
  <2>1. OnlyMarks
    BY <1>0, <1>4, MarkingSteps
  <2>2. MarkingNow \/ Resting
    BY <1>0, <1>4 DEF RestartCollection, PropagateOne, PropagateAll, Revisit, ClearEntry, Resurrect, MarkingNow, Resting, KeepInvariant
  <2>3. \A o \in Objs : Live(o)' <=> Live(o)
    BY <1>0, <2>1, <2>2, DarkensLive DEF OnlyMarks
  <2> QED BY <1>0, <2>1, <2>3, ReferencesKeep DEF OnlyMarks
<1>5. CASE EnterSweep \/ SweepList \/ SweepToLive
  <2>1. UNCHANGED <<key, val, roots>>
    BY <1>0, <1>5, SweepActions
  <2>2. \A o \in Objs : Live(o)' <=> Live(o)
    BY <1>0, <1>5, SweepActionsKeep
  <2>3. Elems(list'.tobefnz) \subseteq Elems(list.tobefnz)
    BY <1>0, <1>5, SweepActionsKeep
  <2> QED BY <1>0, <2>1, <2>2, <2>3, ReferencesKeep DEF FieldsKept
<1>6. CASE SweepNext \/ Return \/ Raise \/ Pop \/ SetMode
  <2>1. UNCHANGED <<mark, key, val, list, white>> /\ roots' \subseteq roots
    BY <1>6 DEF SweepNext, Return, Raise, Pop, SetMode, heapVars, loopVars, collectorVars
  <2> QED BY <1>1, <2>1 DEF FieldsKept
<1>7. CASE GetTable
  <2>a. PICK t \in roots : val[t] # 0 /\ \E x \in {key[t], val[t]} \ {0} : roots' = roots \cup {x}
    BY <1>7 DEF GetTable
  <2>1. PICK x \in {key[t], val[t]} \ {0} : roots' = roots \cup {x}
    BY <2>a
  <2>2. UNCHANGED <<mark, key, val, list, white>>
    BY <1>7, OtherSteps
  <2>3. t \in Objs /\ Live(t)
    BY <1>0 DEF References
  <2>4. Live(x)
    BY <2>a, <2>1, <2>3 DEF References
  <2> QED BY <2>1, <2>2, <2>4 DEF References, Live
<1>8. CASE SetTable
  <2>1. PICK t \in roots, k \in roots \cup {0}, v \in roots \cup {0} :
           /\ t \in Objs /\ (val[t] = 0 \/ key[t] = k)
           /\ val' = [val EXCEPT ![t] = v] /\ key' = IF val[t] = 0 /\ v # 0 THEN [key EXCEPT ![t] = k] ELSE key
           /\ UNCHANGED mark \/ (mark[t] = Black /\ mark' = [mark EXCEPT ![t] = Gray])
           /\ UNCHANGED <<list, roots, white>>
    BY <1>0, <1>8, TableFacts, ZenonT(30)
  <2>2. \A o \in Objs : mark'[o] = mark[o] \/ (mark[o] = Black /\ mark'[o] = Gray)
    BY <1>0, <2>1
  <2>3. \A o \in Objs : Live(o)' <=> Live(o)
    BY <2>1, <2>2 DEF Live
  <2>4. Live(t) /\ (k # 0 => Live(k)) /\ (v # 0 => Live(v))
    BY DEF References
  <2>5. ASSUME NEW o \in Objs, Live(o)', val'[o] # 0
        PROVE  val'[o] \in Objs /\ Live(val'[o]) /\ (key'[o] # 0 => key'[o] \in Objs /\ Live(key'[o]))
    <3>1. CASE o # t
      <4>1. val'[o] = val[o] /\ key'[o] = key[o]
        BY <1>0, <2>1, <3>1
      <4> QED BY <2>3, <2>5, <4>1 DEF References, Live
    <3>2. CASE o = t
      <4>1. val'[o] = v /\ key'[o] \in {k, key[o]} /\ (val[o] = 0 => key'[o] = k)
        BY <1>0, <2>1, <2>5, <3>2
      <4>2. val[o] # 0 => (key[o] # 0 => Live(key[o]))
        BY <2>4, <3>2 DEF References
      <4> QED BY <2>4, <2>5, <4>1, <4>2 DEF Live
    <3> QED BY <3>1, <3>2
  <2>6. \A x \in Objs : Live(x) => mark'[x] \in {white', Gray, Black}
    BY <2>3 DEF Live
  <2>7. \A x \in roots' \cup Elems(list'.tobefnz) : Live(x)'
    BY <2>1, <2>6 DEF References, Live
  <2> QED BY <2>5, <2>6, <2>7 DEF References, Live
<1>9. CASE SetUservalue
  <2>1. PICK u \in roots, v \in roots \cup {0} :
           /\ u \in Objs /\ Kind[u] = "udata" /\ val' = [val EXCEPT ![u] = v]
           /\ \/ UNCHANGED mark
              \/ KeepInvariant /\ Darkens
              \/ mark[u] = Black /\ mark' = [mark EXCEPT ![u] = white]
           /\ UNCHANGED <<key, list, roots, white>>
    BY <1>0, <1>9, UservalueFacts
  <2>2. \A o \in Objs : Live(o)' <=> Live(o)
    <3>1. CASE UNCHANGED mark
      BY <2>1, <3>1 DEF Live
    <3>2. CASE KeepInvariant /\ Darkens
      BY <1>0, <2>1, <3>2, DarkensLive DEF MarkingNow
    <3>3. CASE mark[u] = Black /\ mark' = [mark EXCEPT ![u] = white]
      <4>1. \A o \in Objs : mark'[o] = mark[o] \/ (mark[o] = Black /\ mark'[o] = white)
        BY <1>0, <3>3
      <4> QED BY <2>1, <4>1 DEF Live
    <3> QED BY <2>1, <3>1, <3>2, <3>3
  <2>3. v # 0 => Live(v)
    BY DEF References
  <2>4. key[u] = 0
    BY <1>0, <2>1 DEF Shape
  <2>5. ASSUME NEW o \in Objs, Live(o)', val'[o] # 0
        PROVE  val'[o] \in Objs /\ Live(val'[o]) /\ (key'[o] # 0 => key'[o] \in Objs /\ Live(key'[o]))
    <3>1. CASE o # u
      <4>1. val'[o] = val[o] /\ key'[o] = key[o]
        BY <1>0, <2>1, <3>1
      <4> QED BY <2>2, <2>5, <4>1 DEF References, Live
    <3>2. CASE o = u
      BY <1>0, <2>1, <2>3, <2>4, <2>5, <3>2 DEF Live
    <3> QED BY <3>1, <3>2
  <2>6. \A x \in Objs : Live(x) => mark'[x] \in {white', Gray, Black}
    BY <2>2 DEF Live
  <2>7. \A x \in roots' \cup Elems(list'.tobefnz) : Live(x)'
    BY <2>1, <2>6 DEF References, Live
  <2> QED BY <2>5, <2>6, <2>7 DEF References, Live
<1>10. CASE New
  <2>1. PICK o \in Objs :
           /\ mark[o] = Free /\ mark' = [mark EXCEPT ![o] = white] /\ roots' = roots \cup {o}
           /\ key' = [key EXCEPT ![o] = 0] /\ val' = [val EXCEPT ![o] = 0]
           /\ list'.tobefnz = list.tobefnz /\ UNCHANGED white
    BY <1>0, <1>10, NewFacts
  <2>2. Live(o)' /\ \A x \in Objs : Live(x) => Live(x)'
    BY <1>0, <2>1 DEF Live
  <2>3. \A x \in Objs : Live(x)' => x = o \/ Live(x)
    BY <1>0, <2>1 DEF Live
  <2>4. ASSUME NEW x \in Objs, Live(x)', val'[x] # 0
        PROVE  val'[x] \in Objs /\ Live(val'[x]) /\ (key'[x] # 0 => key'[x] \in Objs /\ Live(key'[x]))
    <3>1. x # o /\ val'[x] = val[x] /\ key'[x] = key[x]
      BY <1>0, <2>1, <2>4
    <3> QED BY <2>3, <2>4, <3>1 DEF References, Live
  <2>5. \A x \in Objs : Live(x) => mark'[x] \in {white', Gray, Black}
    BY <2>2 DEF Live
  <2>6. \A x \in roots' \cup Elems(list'.tobefnz) : Live(x)'
    BY <2>1, <2>2, <2>5 DEF References, Live
  <2> QED BY <2>4, <2>5, <2>6 DEF References, Live
<1>11. CASE CallFinalizer
  <2> DEFINE o == Head(list.tobefnz)
  <2>1. /\ UNCHANGED <<white, key, val>> /\ mark' = IF IsSweepPhase THEN [mark EXCEPT ![o] = white] ELSE mark
        /\ roots' = roots \cup {o}
    BY <1>11 DEF CallFinalizer
  <2>2. o \in Objs /\ o \in Elems(list.tobefnz) /\ Elems(list'.tobefnz) \subseteq Elems(list.tobefnz)
    BY <1>0, <1>11, CallFacts DEF Moves
  <2> HIDE DEF o
  <2>3. Live(o)
    BY <2>2 DEF References
  <2>4. \A x \in Objs : Live(x)' <=> Live(x)
    BY <1>0, <2>1, <2>2, <2>3 DEF Live
  <2>5. \A x \in roots' \cup Elems(list'.tobefnz) : Live(x)'
    BY <2>1, <2>2, <2>3, <2>4 DEF References, Live
  <2>6. \A x \in Objs : Live(x) => mark'[x] \in {white', Gray, Black}
    BY <2>4 DEF Live
  <2> QED BY <2>1, <2>4, <2>5, <2>6 DEF References, Live
<1>12. CASE SeparateOne
  <2>1. UNCHANGED <<mark, key, val, roots, white>> /\ pc \in Loops
    BY <1>0, <1>12 DEF SeparateOne, heapVars
  <2>2. CASE UNCHANGED list
    BY <1>1, <2>1, <2>2 DEF FieldsKept
  <2>3. CASE ~UNCHANGED list
    <3>1. PICK o \in Objs : White(mark, o) /\ Moves(o, "finobj", "tobefnz")
      BY <1>0, <1>12, <2>3, SeparateFacts
    <3>2. Live(o)
      BY <1>0, <2>1, <3>1, NoneDead DEF MarkingNow, White, Free
    <3>3. \A x \in Elems(list'.tobefnz) : Live(x)
      BY <3>1, <3>2 DEF Moves, References
    <3> QED BY <2>1, <3>3 DEF References, Live
  <2> QED BY <2>2, <2>3
<1>13. CASE CheckFinalizer
  <2>1. PICK o \in roots : /\ o \in Objs /\ mark' = IF IsSweepPhase THEN [mark EXCEPT ![o] = white] ELSE mark
                           /\ list'.tobefnz = list.tobefnz
                           /\ UNCHANGED <<key, val, roots, white>>
    BY <1>0, <1>13, CheckFacts, FinobjFacts
  <2>2. Live(o)
    BY DEF References
  <2>3. \A x \in Objs : Live(x)' <=> Live(x)
    BY <1>0, <2>1, <2>2 DEF Live
  <2> QED BY <1>0, <2>1, <2>3, ReferencesKeep DEF FieldsKept
<1>14. CASE SweptToLive
  <2>1. UNCHANGED <<mark, key, val, roots, white>> /\ ToFinobj(moved) /\ moved \in Elems(list.allgc)
    BY <1>0, <1>14 DEF SweptToLive, Moving, collectorVars, heapVars
  <2>2. list'.tobefnz = list.tobefnz
    BY <1>0, <2>1, FinobjFacts
  <2> QED BY <1>0, <2>1, <2>2, ReferencesKeep DEF FieldsKept, Live
<1>15. CASE Flip
  <2>1. pc = "newer" /\ rest = {} /\ UNCHANGED <<mark, key, val, roots, list>> /\ white' = 1 - white
    BY <1>15 DEF Flip, heapVars
  <2>2. /\ \A o \in roots \cup Elems(list.tobefnz) : mark[o] \in Marked
        /\ \A o \in Objs : mark[o] \in Marked /\ val[o] # 0 => mark[val[o]] \in Marked /\ (key[o] # 0 => mark[key[o]] \in Marked)
    BY <1>0, <2>1, FlipMarked
  <2>3. \A o \in Objs : Live(o)' <=> mark[o] \in Marked
    <3>1. \A o \in Objs : mark[o] # 1 - white
      BY <1>0, <2>1 DEF Whites, OtherWhite
    <3> QED BY <2>1, <3>1 DEF Live, Marked
  <2>4. roots \cup Elems(list.tobefnz) \subseteq Objs
    BY <1>0 DEF References, Live
  <2>5. \A o \in roots' \cup Elems(list'.tobefnz) : Live(o)'
    BY <2>1, <2>2, <2>3, <2>4
  <2>6. ASSUME NEW o \in Objs, Live(o)', val'[o] # 0
        PROVE  Live(val[o])' /\ (key'[o] # 0 => Live(key[o])')
    <3>1. val[o] \in Objs /\ (key[o] # 0 => key[o] \in Objs)
      BY <1>0, <2>1, <2>6
    <3>2. mark[val[o]] \in Marked /\ (key[o] # 0 => mark[key[o]] \in Marked)
      BY <2>1, <2>2, <2>3, <2>6
    <3>3. \A x \in Objs : mark[x] \in Marked => mark'[x] \in {white', Gray, Black}
      BY <2>1 DEF Marked
    <3> QED BY <2>1, <3>1, <3>2, <3>3 DEF Live
  <2> QED BY <2>5, <2>6 DEF References
<1> QED
  BY <1>2, <1>3, <1>4, <1>5, <1>6, <1>7, <1>8, <1>9, <1>10, <1>11, <1>12, <1>13, <1>14, <1>15
  DEF Next, Collector, Marking, Atomic, Sweeping, Program
-----------------------------------------------------------------------------
\* What a marking of S blackens refers to nothing white.
LEMMA NewBlack ==
  ASSUME GcAssumption, Types, Shape, NEW o \in Objs, mark[o] \in {0, 1}, mark'[o] = Black,
         mark'[o] = mark[o] \/ mark'[o] = IF Kind[o] = "table" THEN Gray ELSE Black,
         val[o] \in Objs => Kind[o] = "string" \/ mark'[val[o]] \notin {0, 1}
  PROVE  ~White(mark', val[o]) /\ ~White(mark', key[o])
<1>1. Kind[o] # "table" /\ key[o] = 0 /\ val[o] \in Objs \cup {0} /\ (Kind[o] = "string" => val[o] = 0)
  BY DEF Shape, Types, Black, Gray
<1> QED BY <1>1 DEF White

\* Marking makes nothing white.
LEMMA DarkensNotWhite ==
  ASSUME Darkens, NEW x \in Objs \cup {0}, ~White(mark, x)
  PROVE  ~White(mark', x)
BY DEF Darkens, White, Marked, Gray, Black

\* Black objects refer to no white one: kept when marks only darken.
LEMMA BlackKeep ==
  ASSUME GcAssumption, Types, BlackDone, Darkens, FieldsKept,
         \A o \in Objs : mark'[o] = Black /\ mark[o] # Black /\ val'[o] # 0 => ~White(mark', val[o]) /\ ~White(mark', key[o])
  PROVE  BlackDone'
<1>1. ASSUME NEW o \in Objs, mark'[o] = Black, val'[o] # 0 PROVE ~White(mark', val'[o]) /\ ~White(mark', key'[o])
  <2>1. val'[o] = val[o] /\ val[o] # 0 /\ key'[o] \in {key[o], 0} /\ val[o] \in Objs \cup {0} /\ key[o] \in Objs \cup {0}
    BY <1>1 DEF FieldsKept, Types
  <2>2. ~White(mark', val[o]) /\ ~White(mark', key[o])
    <3>1. CASE mark[o] = Black
      BY <2>1, <3>1, DarkensNotWhite DEF BlackDone, NotWhite
    <3> QED BY <1>1, <3>1
  <2> QED BY <2>1, <2>2 DEF White
<1> QED BY <1>1 DEF BlackDone, NotWhite

\* The steps that only mark a set of objects.
LEMMA MarksColours ==
  ASSUME GcAssumption, Types, Shape, BlackDone, NEW S, mark' = ReallyMark(S), FieldsKept
  PROVE  /\ BlackDone' /\ Darkens /\ \A x \in S \cap Objs : ~White(mark', x)
         /\ \A x \in Objs : mark[x] = Gray => mark'[x] = Gray
         /\ Grayed(S) = {x \in Objs : mark[x] \in {0, 1} /\ mark'[x] = Gray}
<1>0. mark \in [Objs -> Marks]
  BY MarkTypes DEF Types
<1>1. MarksOf(S, mark') /\ Grayed(S) = {x \in Objs : mark[x] \in {0, 1} /\ mark'[x] = Gray}
  BY <1>0, MarkFacts
<1>2. Darkens
  BY MarkDarkens
<1>3. ASSUME NEW o \in Objs, mark'[o] = Black, mark[o] # Black PROVE ~White(mark', val[o]) /\ ~White(mark', key[o])
  <2>1. mark[o] \in {0, 1} /\ (mark'[o] = IF Kind[o] = "table" THEN Gray ELSE Black)
    BY <1>1, <1>3 DEF MarksOf
  <2>2. val[o] \in Objs => Kind[o] = "string" \/ mark'[val[o]] \notin {0, 1}
    BY <1>1, <1>3, <2>1 DEF MarksOf
  <2> QED BY <1>3, <2>1, <2>2, NewBlack
<1>4. BlackDone'
  BY <1>2, <1>3, BlackKeep
<1>5. \A x \in S \cap Objs : ~White(mark', x)
  BY <1>1 DEF MarksOf, White
<1>6. \A x \in Objs : mark[x] = Gray => mark'[x] = Gray
  BY <1>1 DEF MarksOf, Gray
<1> QED BY <1>1, <1>2, <1>4, <1>5, <1>6

\* A table that turns black refers to nothing white.
LEMMA TraverseBlack ==
  ASSUME GcAssumption, Types, Shape, BlackDone, NEW t \in Objs, NEW as \in Modes, NEW lists, mark[t] = Gray,
         Darkens, Traversed(t, as, lists), UNCHANGED val
  PROVE  BlackDone'
<1>0. Objs \subseteq Nat \ {0} /\ key \in [Objs -> Objs \cup {0}] /\ val \in [Objs -> Objs \cup {0}]
  BY DEF GcAssumption, Types
<1>1. FieldsKept
  BY DEF FieldsKept, Traversed
<1>2. ASSUME NEW o \in Objs, mark'[o] = Black, mark[o] # Black, val'[o] # 0 PROVE ~White(mark', val[o]) /\ ~White(mark', key[o])
  <2>1. CASE o = t
    <3>1. as = "" /\ Children(t, as) = {key[t], val[t]}
      BY <1>2, <2>1 DEF Traversed, Children, Black, Gray
    <3>2. \A x \in {key[t], val[t]} \cap Objs : mark'[x] \notin {0, 1}
      BY <3>1 DEF Traversed
    <3> QED BY <1>0, <2>1, <3>2 DEF White
  <2>2. CASE o # t
    <3>1. mark[o] \in {0, 1} /\ (mark'[o] = IF Kind[o] = "table" THEN Gray ELSE Black)
      BY <1>2, <2>2 DEF Traversed
    <3>2. val[o] \in Objs => Kind[o] = "string" \/ mark'[val[o]] \notin {0, 1}
      BY <1>2, <3>1 DEF Traversed
    <3> QED BY <1>2, <3>1, <3>2, NewBlack
  <2> QED BY <2>1, <2>2
<1> QED BY <1>1, <1>2, BlackKeep
-----------------------------------------------------------------------------
\* The lists that hold gray tables only: grayagain has been gone through in the
\* atomic phase.
Holding(l) == l \in GrayLists /\ (l = "grayagain" => pc \notin Loops \ {"atomic"})
StillHolding(l) == l \in GrayLists /\ (l = "grayagain" => pc' \notin Loops \ {"atomic"})

\* Steps that keep the colours of marked objects and their references.
LEMMA HoldingFacts ==
  ASSUME Colours, MarkingNow
  PROVE  \A l \in GrayLists : Holding(l) => \A t \in linked[l] : t = Main \/ mark[t] = Gray
BY DEF Colours, ListsGray, Holding, StillHolding

\* The lists of gray objects go on holding gray tables.
LEMMA ListsGrayKeep ==
  ASSUME Types, Colours, MarkingNow, \A l \in GrayLists : StillHolding(l) => Holding(l),
         \A t \in Objs : mark[t] = Gray => mark'[t] = Gray,
         \A l \in GrayLists : \A t \in linked'[l] \ linked[l] : t = Main \/ mark'[t] = Gray,
         Main \notin linked'.weak \cup linked'.allweak \cup linked'.ephemeron
  PROVE  ListsGray'
<1>1. ASSUME NEW l \in GrayLists, l = "grayagain" => pc' \notin Loops \ {"atomic"}, NEW t \in linked'[l], t # Main
      PROVE  mark'[t] = Gray
  <2>1. Holding(l)
    BY <1>1 DEF Holding, StillHolding
  <2>2. CASE t \in linked[l]
    <3>1. mark[t] = Gray /\ t \in Objs
      BY <1>1, <2>1, <2>2, HoldingFacts DEF Types, Holding, StillHolding
    <3> QED BY <3>1
  <2>3. CASE t \notin linked[l]
    BY <1>1, <2>3
  <2> QED BY <2>2, <2>3
<1> QED BY <1>1 DEF ListsGray

Smaller(lists) == \A l \in GrayLists : lists[l] \subseteq linked[l]

\* The marks after a traversal.
LEMMA TraversedMarks ==
  ASSUME NEW t \in Objs, NEW as, NEW lists, Traversed(t, as, lists)
  PROVE  /\ as # "" => mark'[t] = Gray
         /\ \A o \in Objs \ {t} : mark'[o] = mark[o] \/ (mark[o] \in {0, 1} /\ mark'[o] = IF Kind[o] = "table" THEN Gray ELSE Black)
         /\ \A x \in Objs \ {t} : mark[x] = Gray => mark'[x] = Gray
<1>1. \A o \in Objs \ {t} : mark'[o] = mark[o] \/ (mark[o] \in {0, 1} /\ mark'[o] = IF Kind[o] = "table" THEN Gray ELSE Black)
  BY Zenon DEF Traversed
<1>2. as # "" => mark'[t] = Gray
  BY Zenon DEF Traversed
<1>3. \A x \in Objs \ {t} : mark[x] = Gray => mark'[x] = Gray
  BY <1>1 DEF Gray
<1> QED BY <1>1, <1>2, <1>3, Zenon

\* The lists after a traversal.
LEMMA TraversedLists ==
  ASSUME NEW t \in Objs, NEW as, NEW lists, Traversed(t, as, lists), NEW l \in GrayLists, NEW x \in linked'[l]
  PROVE  \/ x \in lists[l]
         \/ l = "gray" /\ x \in Objs /\ mark[x] \in {0, 1} /\ mark'[x] = Gray
         \/ l = Place(t, as, mark') /\ x = t
<1>1. linked'[l] = lists[l] \cup (IF l = "gray" THEN {o \in Objs : mark[o] \in {0, 1} /\ mark'[o] = Gray} ELSE {})
                           \cup (IF l = Place(t, as, mark') THEN {t} ELSE {})
  BY Zenon DEF Traversed
<1> QED BY <1>1

\* The table t, where it blackens, is in no other list.
Away(t, as, lists) == as = "" => \A l \in GrayLists : StillHolding(l) => t \notin lists[l]

\* The table that a traversal starts from is in no other list.
LEMMA TraverseLists ==
  ASSUME GcAssumption, Types, Colours, MarkingNow, NEW t \in Objs, NEW as \in Modes, NEW lists, mark[t] = Gray,
         Darkens, Traversed(t, as, lists), \A l \in GrayLists : StillHolding(l) => Holding(l),
         Smaller(lists), Away(t, as, lists)
  PROVE  ListsGray'
<1>0. Objs \subseteq Nat \ {0} /\ Main = -1
  BY DEF GcAssumption, Main
<1>1. \A x \in Objs \ {t} : mark[x] = Gray => mark'[x] = Gray
  BY TraversedMarks
<1>2. Place(t, as, mark') # "none" => as # ""
  BY DEF Place
<1>3. ASSUME NEW l \in GrayLists, StillHolding(l), NEW x \in linked'[l], x # Main PROVE mark'[x] = Gray
  <2>1. CASE x \in lists[l]
    <3>1. x \in linked[l]
      BY <2>1 DEF Smaller
    <3>2. mark[x] = Gray /\ x \in Objs
      BY <1>3, <3>1, HoldingFacts DEF Types
    <3>3. CASE x = t
      <4>0. t \in lists[l]
        BY <2>1, <3>3, Zenon
      <4>1. as # ""
        BY <1>3, <4>0, Zenon DEF Away
      <4> QED BY <3>3, <4>1, TraversedMarks
    <3> QED BY <1>1, <3>2, <3>3
  <2>2. CASE l = Place(t, as, mark') /\ x = t
    <3>1. as # ""
      BY <1>2, <2>2 DEF GrayLists
    <3> QED BY <2>2, <3>1, TraversedMarks
  <2>3. x \in lists[l] \/ mark'[x] = Gray \/ (l = Place(t, as, mark') /\ x = t)
    BY <1>3, TraversedLists, Zenon
  <2> QED BY <2>1, <2>2, <2>3, Zenon
<1>4. Main \notin linked'.weak \cup linked'.allweak \cup linked'.ephemeron
  <2>1. Main \notin linked["weak"] /\ Main \notin linked["allweak"] /\ Main \notin linked["ephemeron"]
    BY DEF Colours, ListsGray
  <2>2. \A l \in {"weak", "allweak", "ephemeron"} : \A x \in linked'[l] : x \in linked[l] \/ x = t
    <3> SUFFICES ASSUME NEW l \in {"weak", "allweak", "ephemeron"}, NEW x \in linked'[l], x \notin linked[l] PROVE x = t
      OBVIOUS
    <3>1. l \in GrayLists /\ l # "gray"
      BY DEF GrayLists
    <3>2. x \notin lists[l]
      BY <3>1 DEF Smaller
    <3> QED BY <3>1, <3>2, TraversedLists
  <2>3. t # Main
    BY <1>0
  <2> QED BY <2>1, <2>2, <2>3
<1> QED BY <1>3, <1>4 DEF ListsGray, StillHolding

\* The traversal of the thread keeps the colours.
LEMMA ThreadColours ==
  ASSUME GcAssumption, Types, Shape, Colours, MarkingNow, TraverseThread, UNCHANGED val, \A l \in GrayLists : StillHolding(l) => Holding(l)
  PROVE  Darkens /\ BlackDone' /\ ListsGray' /\ FieldsKept
<1>0. BlackDone /\ ListsGray /\ roots \subseteq Objs
  BY DEF Colours, Types
<1>1. mark' = ReallyMark(roots) /\ FieldsKept
  BY DEF TraverseThread, FieldsKept
<1>2. /\ BlackDone' /\ Darkens
      /\ \A x \in Objs : mark[x] = Gray => mark'[x] = Gray
      /\ Grayed(roots) = {x \in Objs : mark[x] \in {0, 1} /\ mark'[x] = Gray}
  BY <1>0, <1>1, MarksColours
<1>3. linked' = [linked EXCEPT !.gray = (@ \ {Main}) \cup Grayed(roots), !.grayagain = @ \cup {Main}]
  BY DEF TraverseThread
<1>4. linked \in [GrayLists -> SUBSET (Objs \cup {Main})]
  BY DEF Types
<1>5. \A l \in GrayLists : \A t \in linked'[l] \ linked[l] : t = Main \/ mark'[t] = Gray
  BY <1>2, <1>3, <1>4 DEF GrayLists
<1>6. Main \notin linked'.weak \cup linked'.allweak \cup linked'.ephemeron
  BY <1>0, <1>3, <1>4 DEF ListsGray, GrayLists
<1> QED BY <1>1, <1>2, <1>5, <1>6, ListsGrayKeep

\* So does that of a table.
LEMMA PropagateColours ==
  ASSUME GcAssumption, Types, Shape, Colours, GrayOnce, AtomicPhase, MarkingNow, PropagateMark, UNCHANGED val,
         pc \in Loops \/ gcstate = "propagate", \A l \in GrayLists : StillHolding(l) => Holding(l), pc \in Loops \ {"atomic"} => pc' = pc
  PROVE  Darkens /\ BlackDone' /\ ListsGray' /\ FieldsKept
<1>1. CASE Main \in linked.gray /\ TraverseThread
  BY <1>1, ThreadColours
<1>2. ASSUME NEW t \in linked.gray \ {Main}, t \in Objs, mark[t] = Gray, Kind[t] = "table", mode[t] \in Modes, Darkens,
             Traversed(t, mode[t], [linked EXCEPT !.gray = @ \ {t}])
      PROVE  Darkens /\ BlackDone' /\ ListsGray' /\ FieldsKept
  <2> DEFINE lists == [linked EXCEPT !.gray = @ \ {t}]
  <2>0. \A l \in GrayLists : lists[l] = IF l = "gray" THEN linked[l] \ {t} ELSE linked[l]
    BY DEF Types, GrayLists
  <2> HIDE DEF lists
  <2>1. \A l \in GrayLists : StillHolding(l) => t \notin lists[l]
    <3> SUFFICES ASSUME NEW l \in GrayLists \ {"gray"}, StillHolding(l), t \in linked[l] PROVE FALSE
      BY <2>0
    <3>1. CASE pc \in Loops
      <4>1. Apart
        BY <3>1 DEF AtomicPhase
      <4>2. l = "grayagain" => pc = "atomic"
        BY <3>1 DEF Holding, StillHolding, GrayLists
      <4> QED BY <1>2, <4>1, <4>2 DEF Apart, GrayLists
    <3>2. CASE pc \notin Loops
      <4>1. KeepInvariant /\ pc # "atomic"
        BY <3>2 DEF MarkingNow, Loops
      <4> QED BY <1>2, <4>1 DEF GrayOnce, GrayLists
    <3> QED BY <3>1, <3>2
  <2>2. Smaller(lists)
    BY <2>0 DEF Smaller
  <2>a. Away(t, mode[t], lists)
    BY <2>1, Zenon DEF Away
  <2>3. Traversed(t, mode[t], lists)
    BY <1>2 DEF lists
  <2>4. BlackDone'
    BY <1>2, <2>3, TraverseBlack DEF Colours
  <2>b. \A o \in Objs : key'[o] = key[o] \/ (o = t /\ key'[o] = 0 /\ val[o] = 0)
    BY <2>3, Zenon DEF Traversed
  <2>c. FieldsKept
    BY <2>b DEF FieldsKept
  <2>5. ListsGray'
    BY <1>2, <2>2, <2>a, <2>3, TraverseLists
  <2> QED BY <1>2, <2>4, <2>5, <2>c
<1> QED BY <1>1, <1>2, PropagateFacts
-----------------------------------------------------------------------------
\* Where only the lists or the place in the code change.
LEMMA ColoursKeep ==
  ASSUME GcAssumption, Types, Colours, MarkingNow, UNCHANGED mark, FieldsKept, \A l \in GrayLists : StillHolding(l) => Holding(l),
         \A l \in GrayLists : linked'[l] \subseteq linked[l],
         Elems(list'.tobefnz) \subseteq Elems(list.tobefnz), pc = "separate" => pc' = "separate"
  PROVE  Colours'
<1>0. BlackDone /\ ListsGray /\ FinMarked
  BY DEF Colours
<1>1. BlackDone'
  <2>1. ASSUME NEW o \in Objs, mark'[o] = Black, val'[o] # 0 PROVE ~White(mark', val'[o]) /\ ~White(mark', key'[o])
    <3>1. val'[o] = val[o] /\ key'[o] \in {key[o], 0}
      BY <2>1 DEF FieldsKept
    <3>2. ~White(mark, val[o]) /\ ~White(mark, key[o])
      BY <1>0, <2>1, <3>1 DEF BlackDone, NotWhite
    <3> QED BY <3>1, <3>2 DEF White
  <2> QED BY <2>1 DEF BlackDone, NotWhite
<1>2. ListsGray'
  <2>1. \A l \in GrayLists : StillHolding(l) => \A t \in linked'[l] : t = Main \/ mark'[t] = Gray
    BY HoldingFacts
  <2>2. Main \notin linked'.weak \cup linked'.allweak \cup linked'.ephemeron
    BY <1>0 DEF ListsGray, GrayLists
  <2> QED BY <2>1, <2>2 DEF ListsGray, StillHolding
<1>3. FinMarked'
  BY <1>0 DEF FinMarked, NotWhite, White
<1> QED BY <1>1, <1>2, <1>3 DEF Colours

\* What awaits its finalizer stays marked.
LEMMA FinMarkedKeep ==
  ASSUME Types, Colours, MarkingNow, Darkens, Elems(list'.tobefnz) \subseteq Elems(list.tobefnz), pc = "separate" => pc' = "separate"
  PROVE  FinMarked'
<1>1. Elems(list.tobefnz) \subseteq Objs /\ FinMarked
  BY DEF Types, Elems, Lists, Colours
<1> QED BY <1>1, DarkensNotWhite DEF FinMarked, NotWhite

\* What the collector may do in its atomic phase.
LEMMA LoopActions ==
  ASSUME Next, pc \in Loops
  PROVE  PropagateAll \/ Atomic
<1>1. pc \notin {"program", "check", "single", "enter", "sweep", "finalize", "tolive"}
  BY DEF Loops
<1>2. ~Step /\ ~FullGc /\ ~StepGoesOn /\ ~FullGoesOn /\ ~Paused /\ ~RestartCollection /\ ~PropagateOne /\ ~EnterAtomic
  BY <1>1 DEF Step, FullGc, StepGoesOn, FullGoesOn, Paused, RestartCollection, PropagateOne, EnterAtomic
<1>3. ~EnterSweep /\ ~SweepStep /\ ~SweepList /\ ~SweepNext /\ ~SweepEnd /\ ~SweepToLive /\ ~SweptToLive
  BY <1>1 DEF EnterSweep, SweepStep, SweepList, SweepNext, SweepEnd, SweepToLive, SweptToLive
<1>4. ~CallRemaining /\ ~CallFinalizer /\ ~FinalizersDone /\ ~Return /\ ~Raise
  BY <1>1 DEF CallRemaining, CallFinalizer, FinalizersDone, Return, Raise
<1>5. ~New /\ ~SetTable /\ ~GetTable /\ ~Pop /\ ~SetUservalue /\ ~SetMode /\ ~CheckFinalizer
  BY <1>1 DEF New, SetTable, GetTable, Pop, SetUservalue, SetMode, CheckFinalizer, Operation
<1>6. ~Sweeping /\ ~(RestartCollection \/ PropagateOne \/ EnterAtomic) /\ ~Program
  BY <1>2, <1>3, <1>4, <1>5, Zenon DEF Sweeping, Program
<1>7. Collector => PropagateAll \/ Atomic
  BY <1>2, <1>4, <1>6, Zenon DEF Collector, Marking
<1> QED BY <1>2, <1>4, <1>6, <1>7, Zenon DEF Next

\* Every step that is no other keeps colours and references.
LEMMA NextHolding ==
  ASSUME Static, Control', MarkingNow, MarkingNow', Next
  PROVE  /\ \A l \in GrayLists : StillHolding(l) => Holding(l)
         /\ pc = "separate" /\ ~Resurrect => pc' = "separate"
<1>0. Loops = {"atomic", "again", "converge", "changed", "values", "separate", "resurrect", "keys", "newer"} /\ Control
  BY DEF Loops, Static, Phases
<1>1. CASE pc \notin Loops
  BY <1>0, <1>1 DEF StillHolding, Holding
<1>2. CASE pc \in Loops
  <2>1. PropagateAll \/ GrayAgain \/ Converge \/ Revisit \/ NextEphemeron \/ ClearGone \/ ClearKeys \/ ClearNewer \/ ClearEntry
        \/ Separate \/ SeparateOne \/ Resurrect \/ Flip
    BY <1>2, LoopActions DEF Atomic
  <2>2. ~Flip
    BY <1>0, <1>2 DEF Flip, MarkingNow, KeepInvariant, Control, Loops
  <2>3. PropagateAll \/ Revisit \/ ClearEntry \/ SeparateOne => pc' \in {pc, "changed"}
    BY DEF PropagateAll, Revisit, ClearEntry, SeparateOne
  <2>4. GrayAgain \/ Converge \/ NextEphemeron \/ ClearGone \/ ClearKeys \/ ClearNewer \/ Separate \/ Resurrect
        => pc' \in {"again", "converge", "values", "keys", "newer", "separate", "resurrect"}
    BY DEF GrayAgain, Converge, Pass, NextEphemeron, ClearGone, ClearKeys, ClearNewer, Clear, Separate, Resurrect
  <2>6. pc # "atomic" => pc' \in Loops \ {"atomic"}
    BY <1>0, <1>2, <2>1, <2>2, <2>3, <2>4
  <2>5. pc = "separate" /\ ~Resurrect => pc' = "separate"
    BY <1>0, <2>1, <2>2 DEF PropagateAll, GrayAgain, Converge, Pass, Revisit, NextEphemeron, ClearGone, ClearKeys, ClearNewer, Clear, ClearEntry,
      Separate, SeparateOne
  <2> QED BY <2>5, <2>6 DEF StillHolding, Holding
<1> QED BY <1>0, <1>1, <1>2

\* Steps of the collector while it marks.
LEMMA ColoursMarking ==
  ASSUME GcAssumption, Static, GrayOnce, MarkingNow, \A l \in GrayLists : StillHolding(l) => Holding(l),
         PropagateOne \/ PropagateAll \/ Revisit \/ ClearEntry \/ Resurrect
  PROVE  Colours'
<1>0. /\ Types /\ Shape /\ Phases /\ Control /\ Colours /\ AtomicPhase /\ BlackDone /\ Objs \subseteq Nat \ {0}
      /\ ListsGray /\ linked \in [GrayLists -> SUBSET (Objs \cup {Main})]
      /\ Loops = {"atomic", "again", "converge", "changed", "values", "separate", "resurrect", "keys", "newer"}
  BY DEF Static, Phases, Colours, Loops, GcAssumption, Types
<1>1. CASE PropagateOne \/ PropagateAll
  <2>1. PropagateMark /\ UNCHANGED <<val, list>> /\ (pc \in Loops \/ gcstate = "propagate") /\ (pc \in Loops => pc' = pc) /\ pc # "separate"
    BY <1>0, <1>1 DEF PropagateOne, PropagateAll
  <2>2. Darkens /\ BlackDone' /\ ListsGray'
    BY <1>0, <2>1, PropagateColours
  <2>3. FinMarked'
    BY <1>0, <2>1, <2>2, FinMarkedKeep
  <2> QED BY <2>2, <2>3 DEF Colours
<1>2. CASE Revisit
  <2>1. UNCHANGED <<val, list>> /\ pc = "converge"
    BY <1>2 DEF Revisit
  <2>2. PICK t \in rest : Traverse(t, "k", linked)
    BY <1>2 DEF Revisit
  <2>3. mark[t] = Gray /\ t \in Objs /\ Kind[t] = "table"
    BY <1>0, <2>1 DEF AtomicPhase, LoopLists, Types, Shape
  <2>4. Darkens /\ Traversed(t, "k", linked)
    BY <1>0, <2>2, <2>3, TraverseFacts DEF Modes
  <2>5. BlackDone'
    BY <1>0, <2>1, <2>3, <2>4, TraverseBlack DEF Modes
  <2>6. Smaller(linked) /\ Away(t, "k", linked)
    BY DEF Smaller, Away
  <2>7. ListsGray'
    BY <1>0, <2>3, <2>4, <2>6, TraverseLists DEF Modes
  <2>8. FinMarked'
    BY <1>0, <2>1, <2>4, FinMarkedKeep
  <2> QED BY <2>5, <2>7, <2>8 DEF Colours
<1>3. CASE ClearEntry
  <2>1. UNCHANGED <<list, linked>> /\ pc' = pc
    BY <1>3 DEF ClearEntry
  <2>2. FieldsKept
    BY <1>0, <1>3, MarkingSteps DEF OnlyMarks
  <2>3. PICK S : UNCHANGED mark \/ mark' = ReallyMark(S)
    BY <1>3 DEF ClearEntry
  <2>4. CASE UNCHANGED mark
    BY <1>0, <2>1, <2>2, <2>4, ColoursKeep
  <2>5. CASE mark' = ReallyMark(S)
    <3>1. BlackDone' /\ Darkens /\ \A x \in Objs : mark[x] = Gray => mark'[x] = Gray
      BY <1>0, <2>2, <2>5, MarksColours
    <3>2. ListsGray'
      <4>1. Main \notin linked'.weak \cup linked'.allweak \cup linked'.ephemeron
        BY <1>0, <2>1 DEF ListsGray
      <4> QED BY <1>0, <2>1, <3>1, <4>1, ListsGrayKeep
    <3>3. FinMarked'
      BY <1>0, <2>1, <3>1, FinMarkedKeep
    <3> QED BY <3>1, <3>2, <3>3 DEF Colours
  <2> QED BY <2>3, <2>4, <2>5
<1>4. CASE Resurrect
  <2> DEFINE S == Elems(list.tobefnz)
  <2>1. UNCHANGED <<list, key, val>> /\ mark' = ReallyMark(S) /\ linked' = [linked EXCEPT !.gray = @ \cup Grayed(S)]
    BY <1>4 DEF Resurrect, heapVars
  <2>2. FieldsKept
    BY <2>1 DEF FieldsKept
  <2>a. S \subseteq Objs
    BY <1>0 DEF Types, Lists, Elems
  <2> HIDE DEF S
  <2>3. BlackDone' /\ Darkens /\ (\A x \in S \cap Objs : ~White(mark', x)) /\ (\A x \in Objs : mark[x] = Gray => mark'[x] = Gray)
        /\ Grayed(S) = {x \in Objs : mark[x] \in {0, 1} /\ mark'[x] = Gray}
    BY <1>0, <2>1, <2>2, MarksColours
  <2>4. ListsGray'
    <3>1. \A l \in GrayLists : \A t \in linked'[l] \ linked[l] : t = Main \/ mark'[t] = Gray
      BY <1>0, <2>1, <2>3 DEF GrayLists
    <3>2. Main \notin linked'.weak \cup linked'.allweak \cup linked'.ephemeron
      BY <1>0, <2>1 DEF ListsGray, GrayLists
    <3> QED BY <1>0, <2>3, <3>1, <3>2, ListsGrayKeep
  <2>5. FinMarked'
    BY <2>1, <2>3, <2>a DEF FinMarked, NotWhite, S
  <2> QED BY <2>3, <2>4, <2>5 DEF Colours
<1> QED BY <1>1, <1>2, <1>3, <1>4
-----------------------------------------------------------------------------
\* Steps of the program while the collector marks.
LEMMA ColoursProgram ==
  ASSUME GcAssumption, Static, References, Types', Control', MarkingNow, MarkingNow', New \/ SetTable \/ SetUservalue
  PROVE  Colours'
<1>b. Types /\ Shape /\ Listed /\ Colours
  BY DEF Static
<1>c. Elems(list.tobefnz) \subseteq Objs
  BY <1>b DEF Types, Elems, Lists
<1>0. /\ Types /\ Shape /\ Listed /\ Colours /\ BlackDone /\ ListsGray /\ FinMarked /\ Objs \subseteq Nat \ {0}
      /\ linked \in [GrayLists -> SUBSET (Objs \cup {Main})] /\ mark \in [Objs -> Marks] /\ white \in {0, 1}
      /\ val \in [Objs -> Objs \cup {0}] /\ key \in [Objs -> Objs \cup {0}] /\ roots \subseteq Objs
      /\ Elems(list.tobefnz) \subseteq Objs
  BY <1>b, <1>c, MarkTypes DEF Colours, GcAssumption, Types
<1>a. pc = "program"
  <2>1. New => Operation
    BY DEF New
  <2>2. SetTable => Operation
    BY DEF SetTable
  <2>3. SetUservalue => Operation
    BY DEF SetUservalue
  <2> QED BY <2>1, <2>2, <2>3 DEF Operation
<1>1. pc = "program" /\ KeepInvariant
  BY <1>a DEF MarkingNow, Loops
<1>2. pc' = pc
  BY DEF New, SetTable, SetUservalue
<1>3. \A l \in GrayLists : StillHolding(l) => Holding(l)
  BY <1>2 DEF StillHolding, Holding
<1>4. Main \notin linked.weak /\ Main \notin linked.allweak /\ Main \notin linked.ephemeron
  BY <1>0 DEF ListsGray
<1>5. CASE New
  <2>1. PICK o \in Objs :
           /\ mark[o] = Free /\ mark' = [mark EXCEPT ![o] = white]
           /\ key' = [key EXCEPT ![o] = 0] /\ val' = [val EXCEPT ![o] = 0]
           /\ list'.tobefnz = list.tobefnz /\ UNCHANGED linked /\ (\A l \in Lists : o \notin Elems(list[l]))
    BY <1>0, <1>5, NewFacts
  <2>2. \A x \in Objs : x # o => mark'[x] = mark[x] /\ val'[x] = val[x] /\ key'[x] = key[x]
    BY <1>0, <2>1
  <2>3. mark'[o] = white /\ mark'[o] # Black /\ ~Live(o) /\ mark[o] # Gray
    BY <1>0, <2>1 DEF Black, Live, Free, Gray
  <2>4. ASSUME NEW x \in Objs, mark'[x] = Black, val'[x] # 0 PROVE ~White(mark', val'[x]) /\ ~White(mark', key'[x])
    <3>1. x # o /\ mark[x] = Black /\ val[x] # 0 /\ val'[x] = val[x] /\ key'[x] = key[x]
      BY <2>2, <2>3, <2>4
    <3>2. Live(x)
      BY <3>1 DEF Live
    <3>3. val[x] # o /\ key[x] # o
      BY <1>0, <2>3, <3>1, <3>2 DEF References
    <3>4. ~White(mark, val[x]) /\ ~White(mark, key[x]) /\ val[x] \in Objs \cup {0} /\ key[x] \in Objs \cup {0}
      BY <1>0, <3>1 DEF BlackDone, NotWhite
    <3> QED BY <2>2, <3>1, <3>3, <3>4 DEF White
  <2>5. BlackDone'
    BY <2>4 DEF BlackDone, NotWhite
  <2>6. ListsGray'
    <3>1. \A t \in Objs : mark[t] = Gray => mark'[t] = Gray
      BY <2>2, <2>3
    <3>2. Main \notin linked'.weak \cup linked'.allweak \cup linked'.ephemeron
      BY <1>4, <2>1
    <3> QED BY <1>0, <1>3, <2>1, <3>1, <3>2, ListsGrayKeep
  <2>7. FinMarked'
    <3>1. o \notin Elems(list.tobefnz)
      BY <2>1 DEF Lists
    <3>2. \A x \in Elems(list.tobefnz) : ~White(mark, x)
      BY <1>0, <1>1 DEF FinMarked, NotWhite
    <3> QED BY <1>0, <2>1, <2>2, <3>1, <3>2 DEF FinMarked, NotWhite, White
  <2> QED BY <2>5, <2>6, <2>7 DEF Colours
<1>6. CASE SetTable
  <2>1. PICK t \in roots, k \in roots \cup {0}, v \in roots \cup {0} :
           /\ t \in Objs /\ (val[t] = 0 \/ key[t] = k)
           /\ val' = [val EXCEPT ![t] = v] /\ key' = IF val[t] = 0 /\ v # 0 THEN [key EXCEPT ![t] = k] ELSE key
           /\ \/ UNCHANGED <<mark, linked>> /\ (mark[t] # Black \/ (~White(mark, v) /\ (val[t] = 0 /\ v # 0 => ~White(mark, k))))
              \/ /\ mark[t] = Black /\ mark' = [mark EXCEPT ![t] = Gray]
                 /\ linked' = [linked EXCEPT !.grayagain = @ \cup {t}]
           /\ UNCHANGED list
    BY <1>0, <1>6, TableFacts
  <2>2. /\ \A x \in Objs : x # t => mark'[x] = mark[x] /\ val'[x] = val[x] /\ key'[x] = key[x]
        /\ mark'[t] = mark[t] \/ mark'[t] = Gray
        /\ val'[t] = v /\ (key'[t] = IF val[t] = 0 /\ v # 0 THEN k ELSE key[t])
    BY <1>0, <2>1
  <2>3. \A x \in Objs \cup {0} : ~White(mark, x) => ~White(mark', x)
    BY <2>2 DEF White, Gray
  <2>4. ASSUME NEW x \in Objs, mark'[x] = Black, val'[x] # 0 PROVE ~White(mark', val'[x]) /\ ~White(mark', key'[x])
    <3>1. mark[x] = Black
      BY <2>2, <2>4 DEF Gray, Black
    <3>2. val[x] # 0 => ~White(mark, val[x]) /\ ~White(mark, key[x])
      BY <1>0, <3>1 DEF BlackDone, NotWhite
    <3>3. CASE x # t
      BY <1>0, <2>2, <2>3, <2>4, <3>2, <3>3
    <3>4. CASE x = t
      <4>1. UNCHANGED <<mark, linked>> /\ ~White(mark, v) /\ (val[t] = 0 /\ v # 0 => ~White(mark, k))
        BY <1>0, <2>1, <2>4, <3>1, <3>4 DEF Gray, Black
      <4>2. val'[x] = v /\ v # 0 /\ (val[t] # 0 => key'[x] = key[x]) /\ (val[t] = 0 => key'[x] = k)
        BY <2>2, <2>4, <3>4
      <4>3. ~White(mark, key'[x])
        BY <3>2, <3>4, <4>1, <4>2
      <4> QED BY <4>1, <4>2, <4>3
    <3> QED BY <3>3, <3>4
  <2>5. BlackDone'
    BY <2>4 DEF BlackDone, NotWhite
  <2>6. ListsGray'
    <3>1. \A x \in Objs : mark[x] = Gray => mark'[x] = Gray
      BY <2>2
    <3>2. Main \notin linked'.weak \cup linked'.allweak \cup linked'.ephemeron
      BY <1>0, <1>4, <2>1 DEF GrayLists
    <3>3. \A l \in GrayLists : \A x \in linked'[l] \ linked[l] : x = Main \/ mark'[x] = Gray
      BY <1>0, <2>1 DEF GrayLists
    <3> QED BY <1>0, <1>3, <3>1, <3>2, <3>3, ListsGrayKeep
  <2>7. FinMarked'
    BY <1>0, <1>1, <2>1, <2>3 DEF FinMarked, NotWhite
  <2> QED BY <2>5, <2>6, <2>7 DEF Colours
<1>7. CASE SetUservalue
  <2>1. PICK u \in roots, v \in roots \cup {0} :
           /\ u \in Objs /\ val' = [val EXCEPT ![u] = v] /\ Kind[u] = "udata"
           /\ \/ UNCHANGED <<mark, linked>> /\ (mark[u] # Black \/ ~White(mark, v))
              \/ /\ mark' = ReallyMark({v})
                 /\ linked' = [linked EXCEPT !.gray = @ \cup Grayed({v})]
           /\ UNCHANGED <<key, list>>
    BY <1>0, <1>1, <1>7, UservalueFacts
  <2>2. key[u] = 0
    BY <1>0, <2>1 DEF Shape
  <2>3. CASE UNCHANGED <<mark, linked>> /\ (mark[u] # Black \/ ~White(mark, v))
    <3>1. ASSUME NEW x \in Objs, mark'[x] = Black, val'[x] # 0 PROVE ~White(mark', val'[x]) /\ ~White(mark', key'[x])
      <4>1. CASE x = u
        BY <1>0, <2>1, <2>2, <2>3, <3>1, <4>1 DEF White
      <4>2. CASE x # u
        <5>1. val'[x] = val[x] /\ key'[x] = key[x] /\ mark[x] = Black
          BY <1>0, <2>1, <2>3, <3>1, <4>2
        <5>2. ~White(mark, val[x]) /\ ~White(mark, key[x])
          BY <1>0, <3>1, <5>1 DEF BlackDone, NotWhite
        <5> QED BY <2>3, <5>1, <5>2
      <4> QED BY <4>1, <4>2
    <3>2. BlackDone'
      BY <3>1 DEF BlackDone, NotWhite
    <3>3. ListsGray'
      <4>1. Main \notin linked'.weak \cup linked'.allweak \cup linked'.ephemeron
        BY <1>4, <2>3
      <4> QED BY <1>0, <1>3, <2>3, <4>1, ListsGrayKeep
    <3>4. FinMarked'
      BY <1>0, <1>1, <2>1, <2>3 DEF FinMarked, NotWhite, White
    <3> QED BY <3>2, <3>3, <3>4 DEF Colours
  <2>4. CASE mark' = ReallyMark({v}) /\ linked' = [linked EXCEPT !.gray = @ \cup Grayed({v})]
    <3>1. /\ MarksOf({v}, mark') /\ Grayed({v}) = {x \in Objs : mark[x] \in {0, 1} /\ mark'[x] = Gray}
          /\ Darkens
      BY <1>0, <2>4, MarkFacts, MarkDarkens
    <3>2. \A x \in Objs : mark[x] = Gray => mark'[x] = Gray
      BY <3>1 DEF MarksOf, Gray
    <3>3. ~White(mark', v)
      BY <1>0, <3>1 DEF MarksOf, White
    <3>4. ASSUME NEW x \in Objs, mark'[x] = Black, val'[x] # 0 PROVE ~White(mark', val'[x]) /\ ~White(mark', key'[x])
      <4>1. CASE x = u
        BY <1>0, <2>1, <2>2, <3>3, <4>1 DEF White
      <4>2. CASE x # u
        <5>1. val'[x] = val[x] /\ key'[x] = key[x] /\ val[x] \in Objs \cup {0} /\ key[x] \in Objs \cup {0}
          BY <1>0, <2>1, <4>2
        <5>2. CASE mark[x] = Black
          <6>1. ~White(mark, val[x]) /\ ~White(mark, key[x])
            BY <1>0, <3>4, <5>1, <5>2 DEF BlackDone, NotWhite
          <6> QED BY <3>1, <5>1, <6>1, DarkensNotWhite
        <5>3. CASE mark[x] # Black
          <6>1. mark[x] \in {0, 1} /\ (mark'[x] = IF Kind[x] = "table" THEN Gray ELSE Black)
            BY <3>1, <3>4, <5>3 DEF MarksOf
          <6>2. val[x] \in Objs => Kind[x] = "string" \/ mark'[val[x]] \notin {0, 1}
            BY <3>1, <3>4, <6>1 DEF MarksOf
          <6> QED BY <1>0, <3>4, <5>1, <6>1, <6>2, NewBlack
        <5> QED BY <5>2, <5>3
      <4> QED BY <4>1, <4>2
    <3>5. BlackDone'
      BY <3>4 DEF BlackDone, NotWhite
    <3>6. ListsGray'
      <4>1. \A l \in GrayLists : \A t \in linked'[l] \ linked[l] : t = Main \/ mark'[t] = Gray
        BY <1>0, <2>4, <3>1 DEF GrayLists
      <4>2. Main \notin linked'.weak \cup linked'.allweak \cup linked'.ephemeron
        BY <1>0, <1>4, <2>4 DEF GrayLists
      <4> QED BY <1>0, <1>3, <3>2, <4>1, <4>2, ListsGrayKeep
    <3>7. FinMarked'
      BY <1>0, <1>1, <2>1, <3>1, FinMarkedKeep
    <3> QED BY <3>5, <3>6, <3>7 DEF Colours
  <2> QED BY <2>1, <2>3, <2>4
<1> QED BY <1>5, <1>6, <1>7
-----------------------------------------------------------------------------
\* restartcollection marks what awaits a finalizer, in a heap that is white.
LEMMA RestartFacts ==
  ASSUME GcAssumption, Types, Shape, Whites, RestartCollection
  PROVE  /\ BlackDone' /\ ListsGray' /\ FinMarked' /\ GrayOnce' /\ KeepInvariant' /\ pc' = "check"
<1> DEFINE S == Elems(list.tobefnz)
<1>0. /\ mark' = ReallyMark(S) /\ UNCHANGED <<key, val, list>> /\ gcstate = "pause" /\ gcstate' = "propagate" /\ pc' = "check"
      /\ linked' = [l \in GrayLists |-> IF l = "gray" THEN {Main} \cup Grayed(S) ELSE {}]
  BY DEF RestartCollection, heapVars
<1>a. S \subseteq Objs
  BY DEF Types, Lists, Elems
<1>b. Objs \subseteq Nat \ {0} /\ Main = -1 /\ white \in {0, 1}
  BY DEF GcAssumption, Main, Types
<1> HIDE DEF S
<1>1. \A o \in Objs : mark[o] \in {white, Free}
  BY <1>0 DEF Whites
<1>2. \A o \in Objs : mark[o] \notin Marked
  BY <1>b, <1>1 DEF Marked, Gray, Black, Free
<1>3. BlackDone
  BY <1>2 DEF BlackDone, Marked
<1>4. FieldsKept
  BY <1>0 DEF FieldsKept
<1>5. /\ BlackDone' /\ Darkens /\ \A x \in S \cap Objs : ~White(mark', x)
      /\ Grayed(S) = {x \in Objs : mark[x] \in {0, 1} /\ mark'[x] = Gray}
  BY <1>0, <1>3, <1>4, MarksColours
<1>6. FinMarked'
  BY <1>0, <1>a, <1>5 DEF FinMarked, NotWhite, S
<1>7. linked'["gray"] = {Main} \cup Grayed(S) /\ \A l \in GrayLists \ {"gray"} : linked'[l] = {}
  BY <1>0 DEF GrayLists
<1>8. ListsGray'
  BY <1>5, <1>7 DEF ListsGray, GrayLists
<1>9. \A o \in Objs : mark'[o] = Gray => o \in Grayed(S)
  <2>1. \A o \in Objs : mark'[o] = Gray => mark[o] \in {0, 1}
    BY <1>1, <1>2, <1>5, <1>b DEF Darkens, Marked, Free, Gray
  <2> QED BY <1>5, <2>1
<1>10. GrayOnce'
  BY <1>7, <1>9 DEF GrayOnce, GrayLists
<1> QED BY <1>0, <1>5, <1>6, <1>8, <1>10 DEF KeepInvariant

\* The colours are kept by every step.
LEMMA ColoursStep ==
  ASSUME GcAssumption, Static, Whites, References, GrayOnce, Types', Control', Next
  PROVE  Colours'
<1>1. SUFFICES ASSUME MarkingNow' PROVE Colours'
  BY DEF Colours
<1>2. CASE RestartCollection
  BY <1>2, RestartFacts DEF Colours, Static
<1>3. CASE ~RestartCollection
  <2>1. MarkingNow /\ ~IsSweepPhase /\ ~EnterSweep /\ ~SweepList /\ ~SweepToLive /\ ~SweptToLive /\ ~SweepNext /\ ~Flip
    BY <1>1, <1>3, MarkingNowStep
  <2>2. \A l \in GrayLists : StillHolding(l) => Holding(l)
    BY <1>1, <2>1, NextHolding
  <2>3. pc = "separate" /\ ~Resurrect => pc' = "separate"
    BY <1>1, <2>1, NextHolding
  <2>0. Types /\ Listed /\ Phases /\ Colours /\ Shape /\ AtomicPhase
    BY DEF Static
  <2>4. CASE PropagateOne \/ PropagateAll \/ Revisit \/ ClearEntry \/ Resurrect
    BY <2>1, <2>2, <2>4, ColoursMarking
  <2>5. CASE New \/ SetTable \/ SetUservalue
    BY <1>1, <2>1, <2>5, ColoursProgram
  <2>6. CASE ~Resurrect /\ UNCHANGED <<mark, key, val, linked>> /\ Elems(list'.tobefnz) \subseteq Elems(list.tobefnz)
    BY <2>0, <2>1, <2>2, <2>3, <2>6, ColoursKeep DEF FieldsKept
  <2>7. CASE Step \/ FullGc \/ StepGoesOn \/ FullGoesOn \/ Paused \/ EnterAtomic \/ NextEphemeron \/ ClearGone \/ ClearKeys \/ ClearNewer
         \/ Separate \/ SweepStep \/ SweepEnd \/ CallRemaining \/ FinalizersDone
    <3>1. Quiet
      BY <2>7, QuietSteps
    <3>2. CASE ~Resurrect
      BY <2>6, <3>1, <3>2 DEF Quiet
    <3>3. CASE Resurrect
      BY <2>4, <3>3
    <3> QED BY <3>2, <3>3
  <2>8. CASE Return \/ Raise \/ GetTable \/ Pop \/ SetMode
    <3>1. UNCHANGED <<mark, key, val, linked, list>>
      BY <2>8, OtherSteps
    <3>2. CASE ~Resurrect
      BY <2>6, <3>1, <3>2
    <3>3. CASE Resurrect
      BY <2>4, <3>3
    <3> QED BY <3>2, <3>3
  <2>9. CASE GrayAgain \/ Converge
    <3>1. Still
      BY <2>9, StillSteps
    <3>2. ~Resurrect
      BY <2>9 DEF GrayAgain, Converge, Resurrect
    <3>3. CASE Converge
      <4>1. linked' = [linked EXCEPT !.ephemeron = {}]
        BY <3>3 DEF Converge, Pass
      <4>2. \A l \in GrayLists : linked'[l] \subseteq linked[l]
        BY <2>0, <4>1 DEF Types, GrayLists
      <4> QED BY <2>0, <2>1, <2>2, <2>3, <3>1, <3>2, <4>2, ColoursKeep DEF Still, FieldsKept
    <3>4. CASE GrayAgain
      <4>1. linked' = [linked EXCEPT !.gray = linked.grayagain] /\ pc = "atomic" /\ pc' = "again"
        BY <3>4 DEF GrayAgain
      <4>2. UNCHANGED <<mark, key, val, list>> /\ BlackDone /\ ListsGray /\ FinMarked
        BY <2>0, <2>1, <3>1 DEF Still, Colours
      <4>3. \A l \in GrayLists \ {"grayagain"} : \A t \in linked'[l] : t = Main \/ mark'[t] = Gray
        BY <2>0, <4>1, <4>2 DEF ListsGray, Types, GrayLists
      <4>4. Main \notin linked'.weak \cup linked'.allweak \cup linked'.ephemeron
        BY <2>0, <4>1, <4>2 DEF ListsGray, Types, GrayLists
      <4>5. ListsGray'
        BY <4>1, <4>3, <4>4 DEF ListsGray, Loops
      <4>6. BlackDone'
        BY <4>2 DEF BlackDone, NotWhite, White
      <4>7. FinMarked'
        BY <4>1, <4>2 DEF FinMarked, NotWhite, White
      <4> QED BY <4>5, <4>6, <4>7 DEF Colours
    <3> QED BY <2>9, <3>3, <3>4
  <2>10. CASE CallFinalizer
    <3>1. UNCHANGED <<mark, key, val, linked>> /\ ~Resurrect
      BY <2>1, <2>10 DEF CallFinalizer, Resurrect
    <3>2. Elems(list'.tobefnz) \subseteq Elems(list.tobefnz)
      BY <2>0, <2>10, CallFacts DEF Moves
    <3> QED BY <2>6, <3>1, <3>2
  <2>11. CASE SeparateOne
    <3>1. UNCHANGED <<mark, key, val, linked>> /\ pc = "separate" /\ pc' = "separate"
      BY <2>11 DEF SeparateOne, heapVars
    <3>2. BlackDone /\ ListsGray
      BY <2>0, <2>1 DEF Colours
    <3>3. BlackDone'
      BY <3>1, <3>2 DEF BlackDone, NotWhite, White
    <3>4. ListsGray'
      BY <3>1, <3>2 DEF ListsGray
    <3>5. FinMarked'
      BY <3>1 DEF FinMarked
    <3> QED BY <3>3, <3>4, <3>5 DEF Colours
  <2>12. CASE CheckFinalizer
    <3>1. UNCHANGED <<mark, key, val, linked>> /\ list'.tobefnz = list.tobefnz
      BY <2>0, <2>1, <2>12, CheckFacts, FinobjFacts
    <3>2. ~Resurrect
      BY <2>12 DEF CheckFinalizer, Operation, Resurrect
    <3> QED BY <2>6, <3>1, <3>2
  <2> QED
    BY <2>1, <2>4, <2>5, <2>7, <2>8, <2>9, <2>10, <2>11, <2>12, <1>3
    DEF Next, Collector, Marking, Atomic, Sweeping, Program
<1> QED BY <1>2, <1>3
-----------------------------------------------------------------------------
\* propagatemark keeps every gray table in one list.
LEMMA GrayOncePropagate ==
  ASSUME GcAssumption, Static, GrayOnce, PropagateOne
  PROVE  GrayOnce'
<1>0. Types /\ Shape /\ Colours /\ Objs \subseteq Nat \ {0} /\ Main = -1 /\ pc = "single" /\ gcstate = "propagate"
      /\ linked \in [GrayLists -> SUBSET (Objs \cup {Main})] /\ PropagateMark
  BY DEF Static, GcAssumption, Main, PropagateOne, Types
<1>1. MarkingNow /\ ListsGray /\ KeepInvariant
  BY <1>0 DEF MarkingNow, KeepInvariant, Colours
<1>2. /\ linked.weak = {} /\ linked.ephemeron = {} /\ Main \in linked.gray \cup linked.grayagain
      /\ \A o \in Objs : mark[o] = Gray => o \in linked.gray \cup linked.grayagain \cup linked.allweak
      /\ linked.gray \cap linked.allweak = {} /\ linked.grayagain \cap linked.allweak = {}
      /\ linked.gray \cap linked.grayagain \subseteq {Main}
  BY <1>0, <1>1 DEF GrayOnce
<1>3. \A l \in GrayLists : \A t \in linked[l] : t = Main \/ mark[t] = Gray
  BY <1>0, <1>1 DEF ListsGray, Loops
<1>4. \A l \in GrayLists : \A t \in linked[l] : t \in Objs => mark[t] \notin {0, 1}
  BY <1>0, <1>3 DEF Gray
<1>5. CASE Main \in linked.gray /\ TraverseThread
  <2> DEFINE N == Grayed(roots)
  <2>1. linked' = [linked EXCEPT !.gray = (@ \ {Main}) \cup N, !.grayagain = @ \cup {Main}]
    BY <1>5 DEF TraverseThread
  <2>2. N = {o \in Objs : mark[o] \in {0, 1} /\ mark'[o] = Gray} /\ MarksOf(roots, mark')
    BY <1>0, <1>5, MarkFacts, MarkTypes DEF TraverseThread, Types
  <2> HIDE DEF N
  <2>3. \A l \in GrayLists : linked[l] \cap N = {}
    BY <1>4, <2>2
  <2>4. \A o \in Objs : mark'[o] = Gray => mark[o] = Gray \/ o \in N
    BY <2>2 DEF MarksOf
  <2>5. linked'.gray = (linked.gray \ {Main}) \cup N /\ linked'.grayagain = linked.grayagain \cup {Main}
        /\ linked'.allweak = linked.allweak /\ linked'.weak = linked.weak /\ linked'.ephemeron = linked.ephemeron
    BY <1>0, <2>1 DEF GrayLists
  <2>6. Main \notin linked.allweak /\ Main \notin N /\ \A o \in Objs : o # Main
    BY <1>0, <1>1, <2>2 DEF ListsGray
  <2>7. linked.grayagain \cap N = {} /\ linked.allweak \cap N = {}
    BY <2>3 DEF GrayLists
  <2>8. \A o \in Objs : mark'[o] = Gray => o \in linked'.gray \cup linked'.grayagain \cup linked'.allweak
    BY <1>2, <2>4, <2>5, <2>6
  <2>9. /\ linked'.gray \cap linked'.allweak = {} /\ linked'.grayagain \cap linked'.allweak = {}
        /\ linked'.gray \cap linked'.grayagain \subseteq {Main}
    BY <1>2, <2>5, <2>6, <2>7
  <2> QED BY <1>2, <2>5, <2>8, <2>9 DEF GrayOnce
<1>6. ASSUME NEW t \in linked.gray \ {Main}, t \in Objs, mark[t] = Gray, mode[t] \in Modes,
             Traversed(t, mode[t], [linked EXCEPT !.gray = @ \ {t}])
      PROVE  GrayOnce'
  <2> DEFINE as == mode[t]
             lists == [linked EXCEPT !.gray = @ \ {t}]
             N == {o \in Objs : mark[o] \in {0, 1} /\ mark'[o] = Gray}
             place == Place(t, as, mark')
             One(l) == IF l = place THEN {t} ELSE {}
  <2>0. \A l \in GrayLists : lists[l] = IF l = "gray" THEN linked[l] \ {t} ELSE linked[l]
    BY <1>0 DEF GrayLists
  <2>1. place \in {"none", "allweak", "grayagain"} /\ (place = "none" => as = "")
    BY <1>0, <1>6 DEF Place, Modes
  <2>2. \A l \in GrayLists : linked'[l] = lists[l] \cup (IF l = "gray" THEN N ELSE {}) \cup One(l)
    BY <1>6, Zenon DEF Traversed
  <2>3. \A o \in Objs : mark'[o] = Gray => o = t \/ mark[o] = Gray \/ o \in N
    BY <1>6, TraversedMarks
  <2>4. \A l \in GrayLists : linked[l] \cap N = {}
    BY <1>4
  <2>c. as = "" => mark'[t] = Black
    BY <1>6, Zenon DEF Traversed
  <2> HIDE DEF N, lists, place, as
  <2>5. mark'[t] = Gray => place # "none"
    <3> SUFFICES ASSUME mark'[t] = Gray, place = "none" PROVE FALSE
      OBVIOUS
    <3>1. as = ""
      BY <2>1, Zenon
    <3>2. mark'[t] = Black
      BY <2>c, <3>1, Zenon
    <3> QED BY <3>2 DEF Gray, Black
  <2>6. /\ linked'["gray"] = (linked["gray"] \ {t}) \cup N
        /\ linked'["grayagain"] = linked["grayagain"] \cup One("grayagain") /\ linked'["allweak"] = linked["allweak"] \cup One("allweak")
        /\ linked'["weak"] = linked["weak"] /\ linked'["ephemeron"] = linked["ephemeron"]
    BY <2>0, <2>1, <2>2 DEF GrayLists
  <2>7. t \notin N /\ t \notin linked["grayagain"] /\ t \notin linked["allweak"]
    BY <1>2, <1>6, <2>4 DEF GrayLists
  <2>8. linked["grayagain"] \cap N = {} /\ linked["allweak"] \cap N = {}
    BY <2>4 DEF GrayLists
  <2>9. \A o \in Objs : mark'[o] = Gray => o \in linked'["gray"] \cup linked'["grayagain"] \cup linked'["allweak"]
    <3> TAKE o \in Objs
    <3>1. CASE o = t
      BY <2>1, <2>5, <2>6, <3>1
    <3>2. CASE o # t
      BY <1>2, <2>3, <2>6, <3>2
    <3> QED BY <3>1, <3>2
  <2>10. linked'["gray"] \cap linked'["allweak"] = {}
    BY <1>2, <2>6, <2>7, <2>8
  <2>11. linked'["grayagain"] \cap linked'["allweak"] = {}
    BY <1>2, <2>6, <2>7
  <2>12. linked'["gray"] \cap linked'["grayagain"] \subseteq {Main}
    BY <1>2, <2>6, <2>7, <2>8
  <2>13. Main \in linked'["gray"] \cup linked'["grayagain"]
    BY <1>2, <1>6, <2>6
  <2> QED BY <1>2, <2>6, <2>9, <2>10, <2>11, <2>12, <2>13 DEF GrayOnce
<1> QED BY <1>0, <1>1, <1>5, <1>6, PropagateFacts

\* Every gray table stays in one list until the atomic phase.
LEMMA GrayOnceStep ==
  ASSUME GcAssumption, Static, Whites, GrayOnce, Types', Control', Next
  PROVE  GrayOnce'
<1>1. SUFFICES ASSUME KeepInvariant', pc' # "atomic" PROVE GrayOnce'
  BY DEF GrayOnce
<1>0. Types /\ Shape /\ Listed /\ Control /\ Colours /\ Phases /\ linked \in [GrayLists -> SUBSET (Objs \cup {Main})]
      /\ Objs \subseteq Nat \ {0} /\ Main = -1 /\ mark \in [Objs -> Marks] /\ white \in {0, 1}
      /\ Loops = {"atomic", "again", "converge", "changed", "values", "separate", "resurrect", "keys", "newer"}
  BY MarkTypes DEF Static, Phases, Types, GcAssumption, Main, Loops
<1>2. CASE RestartCollection
  BY <1>0, <1>2, RestartFacts
<1>3. CASE PropagateOne
  BY <1>3, GrayOncePropagate
<1>4. CASE ~RestartCollection /\ ~PropagateOne
  <2>1. MarkingNow /\ ~IsSweepPhase /\ ~EnterSweep /\ ~SweepList /\ ~SweepToLive /\ ~SweptToLive /\ ~SweepNext /\ ~Flip
    BY <1>1, <1>4, MarkingNowStep DEF MarkingNow
  <2>2. pc \notin Loops
    <3>1. SUFFICES ASSUME pc \in Loops PROVE FALSE
      OBVIOUS
    <3>2. PropagateAll \/ Atomic
      BY <3>1, LoopActions
    <3>3. gcstate = IF pc = "atomic" THEN "atomic" ELSE "insideatomic"
      BY <1>0, <3>1 DEF Control
    <3>4. CASE PropagateAll
      BY <1>1, <3>3, <3>4 DEF PropagateAll, KeepInvariant
    <3>5. CASE Atomic
      <4>1. pc = "atomic" => GrayAgain
        BY <3>5 DEF Atomic, GrayAgain, Converge, Revisit, NextEphemeron, ClearGone, ClearKeys, ClearNewer, ClearEntry,
          Separate, SeparateOne, Resurrect, Flip
      <4>2. GrayAgain => gcstate' = "insideatomic"
        BY DEF GrayAgain
      <4>3. ~GrayAgain => gcstate' = gcstate
        BY <3>5 DEF Atomic, Converge, Pass, Revisit, NextEphemeron, ClearGone, ClearKeys, ClearNewer, Clear, ClearEntry,
          Separate, SeparateOne, Resurrect, Flip
      <4> QED BY <1>1, <3>3, <4>1, <4>2, <4>3 DEF KeepInvariant
    <3> QED BY <3>2, <3>4, <3>5
  <2>3. KeepInvariant /\ pc # "atomic" /\ ~PropagateAll /\ ~Atomic
    BY <1>0, <2>1, <2>2 DEF MarkingNow, PropagateAll, Atomic, GrayAgain, Converge, Pass, Revisit, NextEphemeron, ClearGone, ClearKeys,
      ClearNewer, ClearEntry, Separate, SeparateOne, Resurrect, Flip
  <2>4. CASE UNCHANGED <<mark, linked>>
    BY <2>3, <2>4 DEF GrayOnce
  <2>5. CASE Step \/ FullGc \/ StepGoesOn \/ FullGoesOn \/ Paused \/ EnterAtomic \/ SweepStep \/ SweepEnd \/ CallRemaining \/ FinalizersDone
    BY <2>4, <2>5, QuietSteps DEF Quiet
  <2>6. CASE Return \/ Raise \/ GetTable \/ Pop \/ SetMode
    BY <2>4, <2>6, OtherSteps
  <2>7. CASE CallFinalizer
    BY <2>1, <2>4, <2>7 DEF CallFinalizer
  <2>8. CASE CheckFinalizer
    BY <1>0, <2>1, <2>4, <2>8, CheckFacts
  <2>a. /\ linked.weak = {} /\ linked.ephemeron = {} /\ Main \in linked.gray \cup linked.grayagain
        /\ \A o \in Objs : mark[o] = Gray => o \in linked.gray \cup linked.grayagain \cup linked.allweak
        /\ linked.gray \cap linked.allweak = {} /\ linked.grayagain \cap linked.allweak = {}
        /\ linked.gray \cap linked.grayagain \subseteq {Main}
    BY <2>3 DEF GrayOnce
  <2>b. \A l \in GrayLists : \A t \in linked[l] : t = Main \/ mark[t] = Gray
    BY <1>0, <2>1, <2>2 DEF Colours, ListsGray
  <2>9. CASE New
    <3>1. UNCHANGED linked
      BY <2>9 DEF New
    <3>2. \A o \in Objs : mark'[o] = Gray => mark[o] = Gray
      <4>1. PICK o \in Objs : mark' = [mark EXCEPT ![o] = white]
        BY <1>0, <2>9, NewFacts
      <4> QED BY <1>0, <4>1 DEF Gray
    <3> QED BY <2>a, <3>1, <3>2 DEF GrayOnce
  <2>10. CASE SetTable
    <3>1. PICK t \in Objs : \/ UNCHANGED <<mark, linked>>
                            \/ /\ mark[t] = Black /\ mark' = [mark EXCEPT ![t] = Gray]
                               /\ linked' = [linked EXCEPT !.grayagain = @ \cup {t}]
      BY <1>0, <2>10, TableFacts
    <3>2. CASE mark[t] = Black /\ mark' = [mark EXCEPT ![t] = Gray] /\ linked' = [linked EXCEPT !.grayagain = @ \cup {t}]
      <4>1. t # Main /\ \A l \in GrayLists : t \notin linked[l]
        BY <1>0, <2>b, <3>2 DEF Gray, Black
      <4>2. linked'.grayagain = linked.grayagain \cup {t} /\ linked'.gray = linked.gray /\ linked'.allweak = linked.allweak
            /\ linked'.weak = linked.weak /\ linked'.ephemeron = linked.ephemeron
        BY <1>0, <3>2 DEF GrayLists
      <4>3. t \notin linked.gray /\ t \notin linked.allweak
        BY <4>1 DEF GrayLists
      <4>4. \A o \in Objs : mark'[o] = Gray => o \in linked'.gray \cup linked'.grayagain \cup linked'.allweak
        BY <1>0, <2>a, <3>2, <4>2
      <4> QED BY <2>a, <4>2, <4>3, <4>4 DEF GrayOnce
    <3> QED BY <2>4, <3>1, <3>2
  <2>11. CASE SetUservalue
    <3>1. PICK v \in roots \cup {0} : \/ UNCHANGED <<mark, linked>>
                                      \/ mark' = ReallyMark({v}) /\ linked' = [linked EXCEPT !.gray = @ \cup Grayed({v})]
      BY <1>0, <2>3, <2>11, UservalueFacts
    <3>2. CASE mark' = ReallyMark({v}) /\ linked' = [linked EXCEPT !.gray = @ \cup Grayed({v})]
      <4>1. MarksOf({v}, mark') /\ Grayed({v}) = {x \in Objs : mark[x] \in {0, 1} /\ mark'[x] = Gray}
        BY <1>0, <3>2, MarkFacts
      <4>2. \A o \in Objs : mark'[o] = Gray => mark[o] = Gray \/ o \in Grayed({v})
        BY <4>1 DEF MarksOf
      <4>a. \A l \in GrayLists : \A t \in linked[l] : t \in Objs => mark[t] \notin {0, 1}
        BY <1>0, <2>b DEF Gray
      <4>3. \A l \in GrayLists : linked[l] \cap Grayed({v}) = {}
        BY <4>1, <4>a
      <4>4. linked'.gray = linked.gray \cup Grayed({v}) /\ linked'.grayagain = linked.grayagain /\ linked'.allweak = linked.allweak
            /\ linked'.weak = linked.weak /\ linked'.ephemeron = linked.ephemeron
        BY <1>0, <3>2 DEF GrayLists
      <4>5. linked.grayagain \cap Grayed({v}) = {} /\ linked.allweak \cap Grayed({v}) = {}
        BY <4>3 DEF GrayLists
      <4> QED BY <2>a, <4>2, <4>4, <4>5 DEF GrayOnce
    <3> QED BY <2>4, <3>1, <3>2
  <2> QED
    BY <1>4, <2>1, <2>3, <2>5, <2>6, <2>7, <2>8, <2>9, <2>10, <2>11
    DEF Next, Collector, Marking, Sweeping, Program
<1> QED BY <1>2, <1>3, <1>4
-----------------------------------------------------------------------------
\* A marking that meets no white object but strings marks those only.
LEMMA StringMarks ==
  ASSUME GcAssumption, Types, NEW S, \A x \in S \cap Objs : White(mark, x) => Kind[x] = "string"
  PROVE  /\ Grayed(S) = {}
         /\ \A o \in Objs : ReallyMark(S)[o] = mark[o] \/ (o \in S /\ Kind[o] = "string")
<1> DEFINE whites == {o \in Objs : White(mark, o)}
           Closed(T) == (S \cap whites) \cup ({val[u] : u \in {x \in T : Kind[x] = "udata"}} \cap whites) \subseteq T
<1>1. Chain(S) = {o \in whites : \A T \in SUBSET whites : Closed(T) => o \in T}
  BY Zenon DEF Chain
<1>2. \A x \in S \cap whites : Kind[x] = "string"
  OBVIOUS
<1>3. Closed(S \cap whites)
  BY <1>2
<1>4. Chain(S) \subseteq S \cap whites
  BY <1>1, <1>3
<1>5. ReallyMark(S) = [o \in Objs |-> IF o \in Chain(S) THEN IF Kind[o] = "table" THEN Gray ELSE Black ELSE mark[o]]
  BY DEF ReallyMark
<1>6. Grayed(S) = {}
  BY <1>2, <1>4 DEF Grayed
<1> QED BY <1>2, <1>4, <1>5, <1>6

\* The steps of the atomic phase that change neither the heap nor the lists.
AtomicQuiet == UNCHANGED <<mark, key, val, roots, linked>>

\* Steps of the atomic phase that traverse nothing.
LEMMA AtomicQuietSteps ==
  ASSUME EnterAtomic \/ NextEphemeron \/ ClearGone \/ ClearKeys \/ ClearNewer \/ Separate \/ SeparateOne
  PROVE  AtomicQuiet
<1>1. CASE SeparateOne
  BY <1>1 DEF SeparateOne, heapVars, AtomicQuiet
<1>2. CASE EnterAtomic \/ NextEphemeron \/ ClearGone \/ ClearKeys \/ ClearNewer \/ Separate
  BY <1>2, QuietSteps DEF Quiet, AtomicQuiet
<1> QED BY <1>1, <1>2

\* What was covered stays so while nothing is traversed.
LEMMA QuietCovered ==
  ASSUME AtomicQuiet, UNCHANGED <<rest, pc>>, NEW t, Covered(t)
  PROVE  Covered(t)'
BY DEF AtomicQuiet, Covered, NotWhite, White

\* The atomic phase begins with every gray table covered.
LEMMA EnterAtomicPhase ==
  ASSUME GcAssumption, Static, GrayOnce, EnterAtomic
  PROVE  AtomicPhase'
<1>0. AtomicQuiet /\ pc = "single" /\ gcstate = "atomic" /\ pc' = "atomic" /\ Types
  BY AtomicQuietSteps DEF EnterAtomic, Static
<1>1. /\ linked.weak = {} /\ linked.ephemeron = {} /\ Main \in linked.gray \cup linked.grayagain
      /\ \A o \in Objs : mark[o] = Gray => o \in linked.gray \cup linked.grayagain \cup linked.allweak
      /\ linked.gray \cap linked.allweak = {} /\ linked.grayagain \cap linked.allweak = {}
      /\ linked.gray \cap linked.grayagain \subseteq {Main}
  BY <1>0 DEF GrayOnce, KeepInvariant
<1>2. mark' = mark /\ linked' = linked
  BY <1>0 DEF AtomicQuiet
<1>3. Apart'
  BY <1>0, <1>1, <1>2 DEF Apart
<1>4. StackDone' /\ TablesCovered'
  BY <1>0, <1>1, <1>2 DEF StackDone, TablesCovered, Covered
<1>5. LoopLists' /\ Cleaned'
  BY <1>0 DEF LoopLists, Cleaned, Late
<1> QED BY <1>3, <1>4, <1>5 DEF AtomicPhase

\* Steps that traverse nothing keep what holds in the atomic phase.
LEMMA AtomicQuietStep ==
  ASSUME GcAssumption, Static, Types', pc \in Loops,
         NextEphemeron \/ ClearGone \/ ClearKeys \/ ClearNewer \/ Separate \/ SeparateOne
  PROVE  AtomicPhase'
<1>0. /\ AtomicQuiet /\ Types /\ Apart /\ StackDone /\ TablesCovered /\ LoopLists /\ Cleaned /\ ListsGray
      /\ linked \in [GrayLists -> SUBSET (Objs \cup {Main})] /\ roots \subseteq Objs
  BY AtomicQuietSteps DEF Static, AtomicPhase, Colours, MarkingNow, Types
<1>1. UNCHANGED <<mark, key, val, roots, linked>>
  BY <1>0 DEF AtomicQuiet
<1>2. /\ (\A x : White(mark, x) <=> White(mark', x))
      /\ \A x : Cleared(mark, x) <=> Cleared(mark', x)
  BY <1>1
<1>3. /\ \A t \in linked.weak \cup linked.allweak \cup linked.ephemeron : mark[t] = Gray
  BY <1>0 DEF ListsGray, GrayLists
<1>4. pc # "atomic" /\ pc' # "atomic" /\ linked.gray = {}
  BY <1>0 DEF NextEphemeron, ClearGone, ClearKeys, ClearNewer, Clear, Separate, SeparateOne, LoopLists
<1>5. StackDone'
  BY <1>0, <1>1, <1>2, <1>4 DEF StackDone, NotWhite
<1>6. Apart'
  BY <1>0, <1>1, <1>4 DEF Apart
<1>7. CASE NextEphemeron
  <2>1. pc = "changed" /\ pc' = "converge" /\ UNCHANGED <<rest, again, round, cleared>>
    BY <1>7 DEF NextEphemeron, loopVars
  <2>2. TablesCovered'
    BY <1>0, <1>1, <1>2, <2>1 DEF TablesCovered, Covered, NotWhite
  <2>3. LoopLists'
    BY <1>0, <1>1, <1>4, <2>1 DEF LoopLists
  <2>4. Cleaned'
    BY <1>0, <1>1, <1>2, <2>1 DEF Cleaned, Late, LoopLists, NotWhite
  <2> QED BY <1>5, <1>6, <2>2, <2>3, <2>4 DEF AtomicPhase
<1>8. CASE ClearGone
  <2>1. pc = "converge" /\ rest = {} /\ ~again /\ pc' = "values" /\ rest' = linked.weak \cup linked.allweak
    BY <1>8 DEF ClearGone, Clear
  <2>2. TablesCovered'
    BY <1>0, <1>1, <1>2, <2>1 DEF TablesCovered, Covered, NotWhite
  <2>3. LoopLists'
    BY <1>0, <1>1, <1>3, <1>4, <2>1 DEF LoopLists
  <2>4. Cleaned'
    BY <1>0, <1>1, <1>2, <2>1 DEF Cleaned, Late
  <2> QED BY <1>5, <1>6, <2>2, <2>3, <2>4 DEF AtomicPhase
<1>9. CASE ClearKeys
  <2>1. pc = "converge" /\ rest = {} /\ ~again /\ round = 2 /\ pc' = "keys" /\ rest' = linked.ephemeron \cup linked.allweak /\ cleared' = cleared
    BY <1>9 DEF ClearKeys, Clear
  <2>2. TablesCovered'
    BY <1>0, <1>1, <1>2, <2>1 DEF TablesCovered, Covered, NotWhite
  <2>3. LoopLists'
    BY <1>0, <1>1, <1>3, <1>4, <2>1 DEF LoopLists
  <2>4. Cleaned'
    BY <1>0, <1>1, <1>2, <2>1 DEF Cleaned, Late, NotWhite
  <2> QED BY <1>5, <1>6, <2>2, <2>3, <2>4 DEF AtomicPhase
<1>10. CASE ClearNewer
  <2>1. pc = "keys" /\ rest = {} /\ pc' = "newer" /\ rest' = (linked.weak \cup linked.allweak) \ cleared /\ cleared' = cleared
    BY <1>10 DEF ClearNewer, Clear
  <2>2. TablesCovered'
    BY <1>0, <1>1, <1>2, <2>1 DEF TablesCovered, Covered, NotWhite
  <2>3. LoopLists'
    BY <1>0, <1>1, <1>3, <1>4, <2>1 DEF LoopLists
  <2>4. \A t \in linked.ephemeron : val[t] = 0
    BY <1>0, <2>1 DEF Cleaned, Cleared, NotWhite
  <2>5. Cleaned'
    BY <1>0, <1>1, <1>2, <2>1, <2>4 DEF Cleaned, Late, NotWhite
  <2> QED BY <1>5, <1>6, <2>2, <2>3, <2>5 DEF AtomicPhase
<1>11. CASE Separate
  <2>1. pc = "values" /\ rest = {} /\ pc' = "separate" /\ cleared' = linked.weak \cup linked.allweak
    BY <1>11 DEF Separate
  <2>2. TablesCovered'
    BY <1>0, <1>1, <1>2, <2>1 DEF TablesCovered, Covered, NotWhite
  <2>3. LoopLists'
    BY <1>0, <1>1, <1>4, <2>1 DEF LoopLists
  <2>4. Cleaned'
    BY <1>0, <1>1, <1>2, <2>1 DEF Cleaned, Late, NotWhite
  <2> QED BY <1>5, <1>6, <2>2, <2>3, <2>4 DEF AtomicPhase
<1>12. CASE SeparateOne
  <2>1. pc = "separate" /\ pc' = "separate" /\ UNCHANGED <<rest, again, round, cleared>>
    BY <1>12 DEF SeparateOne
  <2>2. TablesCovered'
    BY <1>0, <1>1, <1>2, <2>1 DEF TablesCovered, Covered, NotWhite
  <2>3. LoopLists'
    BY <1>0, <1>1, <1>4, <2>1 DEF LoopLists
  <2>4. Cleaned'
    BY <1>0, <1>1, <1>2, <2>1 DEF Cleaned, Late, NotWhite
  <2> QED BY <1>5, <1>6, <2>2, <2>3, <2>4 DEF AtomicPhase
<1> QED BY <1>7, <1>8, <1>9, <1>10, <1>11, <1>12
-----------------------------------------------------------------------------
\* So does the return to the objects that were turned gray again.
LEMMA GrayAgainPhase ==
  ASSUME GcAssumption, Static, GrayAgain
  PROVE  AtomicPhase'
<1>0. /\ Types /\ Still /\ pc = "atomic" /\ pc' = "again" /\ linked.gray = {} /\ linked' = [linked EXCEPT !.gray = linked.grayagain]
      /\ linked \in [GrayLists -> SUBSET (Objs \cup {Main})]
  BY StillSteps DEF Static, GrayAgain, Types
<1>1. Apart /\ StackDone /\ TablesCovered
  BY <1>0 DEF Static, AtomicPhase, Loops
<1>2. /\ linked'.gray = linked.grayagain /\ linked'.weak = linked.weak /\ linked'.allweak = linked.allweak
      /\ linked'.ephemeron = linked.ephemeron /\ UNCHANGED <<mark, key, val, roots>>
  BY <1>0 DEF GrayLists, Still
<1>3. Apart'
  BY <1>0, <1>1, <1>2 DEF Apart
<1>4. StackDone'
  BY <1>0, <1>1, <1>2 DEF StackDone
<1>5. TablesCovered'
  BY <1>0, <1>1, <1>2 DEF TablesCovered, Covered, NotWhite, White
<1>6. LoopLists' /\ Cleaned'
  BY <1>0 DEF LoopLists, Cleaned, Late
<1> QED BY <1>3, <1>4, <1>5, <1>6 DEF AtomicPhase

\* A pass of convergeephemerons begins.
LEMMA ConvergePhase ==
  ASSUME GcAssumption, Static, Converge
  PROVE  AtomicPhase'
<1>0. /\ Types /\ Still /\ pc \in {"again", "resurrect", "converge"} /\ pc' = "converge" /\ rest' = linked.ephemeron
      /\ linked' = [linked EXCEPT !.ephemeron = {}] /\ again' = FALSE /\ linked \in [GrayLists -> SUBSET (Objs \cup {Main})]
      /\ (round' = 2 => pc = "resurrect" \/ (pc = "converge" /\ round = 2)) /\ cleared' = cleared
      /\ (pc \in {"again", "resurrect"} => linked.gray = {}) /\ (pc = "converge" => rest = {})
  <2>1. Types /\ Still /\ linked \in [GrayLists -> SUBSET (Objs \cup {Main})]
    BY StillSteps DEF Static, Types
  <2>2. PICK r : Pass(r) /\ ((pc = "again" /\ linked.gray = {} /\ r = 1) \/ (pc = "resurrect" /\ linked.gray = {} /\ r = 2)
                             \/ (pc = "converge" /\ rest = {} /\ r = round))
    BY Zenon DEF Converge
  <2>3. /\ rest' = linked.ephemeron /\ linked' = [linked EXCEPT !.ephemeron = {}] /\ again' = FALSE
        /\ round' = r /\ pc' = "converge" /\ cleared' = cleared
    BY <2>2 DEF Pass
  <2> QED BY <2>1, <2>2, <2>3
<1>1. Apart /\ StackDone /\ TablesCovered /\ LoopLists /\ Cleaned /\ ListsGray
  BY <1>0 DEF Static, AtomicPhase, Colours, MarkingNow, Loops
<1>2. /\ linked'.gray = linked.gray /\ linked'.weak = linked.weak /\ linked'.allweak = linked.allweak
      /\ linked'.ephemeron = {} /\ UNCHANGED <<mark, key, val, roots>>
  BY <1>0 DEF GrayLists, Still
<1>3. linked.gray = {}
  BY <1>0, <1>1 DEF LoopLists
<1>4. Apart'
  BY <1>0, <1>2, <1>3 DEF Apart
<1>5. StackDone'
  BY <1>0, <1>1, <1>2, <1>3 DEF StackDone, NotWhite, White
<1>6. TablesCovered'
  BY <1>0, <1>1, <1>2, <1>3 DEF TablesCovered, Covered, NotWhite, White
<1>7. LoopLists'
  <2>1. \A t \in linked.ephemeron : mark[t] = Gray
    BY <1>1 DEF ListsGray, GrayLists
  <2> QED BY <1>0, <1>2, <1>3, <2>1 DEF LoopLists
<1>8. Cleaned'
  BY <1>0, <1>1, <1>2 DEF Cleaned, Late, NotWhite, White
<1> QED BY <1>4, <1>5, <1>6, <1>7, <1>8 DEF AtomicPhase

\* What a step of propagateall or of convergeephemerons leaves covered: all
\* but the table t that it went through.
LEMMA CoveredKeep ==
  ASSUME Types, Darkens, NEW x \in Objs, val[x] # 0, Covered(x), val'[x] = val[x], key'[x] = key[x],
         x \in linked.gray => x \in linked'.gray, x \in linked.grayagain /\ pc = "atomic" => x \in linked'.grayagain,
         pc = "atomic" <=> pc' = "atomic",
         linked.weak \subseteq linked'.weak, linked.allweak \subseteq linked'.allweak, linked.ephemeron \subseteq linked'.ephemeron,
         x \in rest /\ pc \in {"converge", "changed"} => x \in rest' /\ pc' \in {"converge", "changed"}
  PROVE  Covered(x)'
<1>1. NotWhite(val[x]) => NotWhite(val[x])'
  <2>1. val[x] \in Objs \cup {0}
    BY DEF Types
  <2>2. \A v \in Objs \cup {0} : ~White(mark, v) => ~White(mark', v)
    BY DarkensNotWhite
  <2> QED BY <2>1, <2>2 DEF NotWhite
<1>2. NotWhite(key[x]) => NotWhite(key[x])'
  <2>1. key[x] \in Objs \cup {0} /\ key'[x] = key[x]
    BY DEF Types
  <2>2. \A v \in Objs \cup {0} : ~White(mark, v) => ~White(mark', v)
    BY DarkensNotWhite
  <2> QED BY <2>1, <2>2 DEF NotWhite
<1> QED BY <1>1, <1>2 DEF Covered

\* A gray table that has been gone through is where it belongs.
LEMMA TraversedCovered ==
  ASSUME GcAssumption, Types, gcstate # "propagate", NEW t \in Objs, NEW as \in Modes, NEW lists, Traversed(t, as, lists), Darkens,
         val[t] # 0, mark'[t] = Gray, UNCHANGED val
  PROVE  Covered(t)'
<1> DEFINE place == Place(t, as, mark')
<1>0. val[t] \in Objs /\ key[t] \in Objs \cup {0} /\ Objs \subseteq Nat \ {0} /\ key'[t] = key[t]
  <2>1. val[t] \in Objs /\ key[t] \in Objs \cup {0} /\ Objs \subseteq Nat \ {0}
    BY DEF Types, GcAssumption
  <2>2. key'[t] = key[t]
    BY Zenon DEF Traversed
  <2> QED BY <2>1, <2>2
<1>1. \A o \in Children(t, as) \cap Objs : mark'[o] \notin {0, 1}
  BY Zenon DEF Traversed
<1>2. \A l \in GrayLists : l = place => t \in linked'[l]
  <2>1. \A l \in GrayLists : linked'[l] = lists[l] \cup (IF l = "gray" THEN {o \in Objs : mark[o] \in {0, 1} /\ mark'[o] = Gray} ELSE {})
                                                \cup (IF l = place THEN {t} ELSE {})
    BY Zenon DEF Traversed
  <2> HIDE DEF place
  <2> QED BY <2>1
<1>3. as # ""
  <2>1. as = "" => mark'[t] = Black
    BY Zenon DEF Traversed
  <2>2. Gray # Black
    BY DEF Gray, Black
  <2> QED BY <2>1, <2>2, Zenon
<1>4. /\ as = "v" => Children(t, as) = {key[t]} \cup Strings({val[t]})
      /\ as = "k" => Children(t, as) = IF Cleared(mark, key[t]) THEN {} ELSE {key[t], val[t]}
  BY DEF Children
<1>5. CASE as = "kv"
  <2>1. place = "allweak"
    BY <1>5 DEF Place
  <2>2. t \in linked'["allweak"]
    BY <1>2, <2>1 DEF GrayLists
  <2> QED BY <2>2 DEF Covered
<1>6. CASE as = "v"
  <2>1. Children(t, as) = {key[t]} \cup Strings({val[t]})
    BY <1>4, <1>6
  <2>2. ~White(mark', key[t])
    BY <1>0, <1>1, <2>1 DEF White
  <2>3. CASE Cleared(mark', val[t])
    <3>1. place = "weak"
      BY <1>6, <2>3 DEF Place
    <3>2. t \in linked'["weak"]
      BY <1>2, <3>1 DEF GrayLists
    <3> QED BY <1>0, <2>2, <3>2 DEF Covered, NotWhite
  <2>4. CASE ~Cleared(mark', val[t])
    <3>1. ~White(mark', val[t])
      <4>1. CASE Kind[val[t]] = "string"
        <5>1. val[t] \in Children(t, as)
          BY <1>0, <2>1, <4>1 DEF Strings
        <5> QED BY <1>0, <1>1, <5>1 DEF White
      <4>2. CASE Kind[val[t]] # "string"
        BY <2>4, <4>2 DEF Cleared
      <4> QED BY <4>1, <4>2
    <3> QED BY <1>0, <2>2, <3>1 DEF Covered, NotWhite
  <2> QED BY <2>3, <2>4
<1>7. CASE as = "k"
  <2>1. CASE ~Cleared(mark, key[t])
    <3>1. Children(t, as) = {key[t], val[t]}
      BY <1>4, <1>7, <2>1
    <3>2. ~White(mark', key[t]) /\ ~White(mark', val[t])
      BY <1>0, <1>1, <3>1 DEF White
    <3> QED BY <1>0, <3>2 DEF Covered, NotWhite
  <2>2. CASE Cleared(mark, key[t])
    <3>1. place \in {"ephemeron", "allweak"}
      BY <1>7, <2>2 DEF Place
    <3>2. t \in linked'["ephemeron"] \/ t \in linked'["allweak"]
      BY <1>2, <3>1 DEF GrayLists
    <3> QED BY <3>2 DEF Covered
  <2> QED BY <2>1, <2>2
<1> QED BY <1>3, <1>5, <1>6, <1>7 DEF Modes
-----------------------------------------------------------------------------
Newly == {o \in Objs : mark[o] \in {0, 1} /\ mark'[o] = Gray}

\* A gray table t is gone through in the atomic phase, by propagateall or by
\* convergeephemerons.
Visited(t, as, lists) ==
  /\ t \in Objs /\ mark[t] = Gray /\ as \in Modes /\ Darkens /\ Traversed(t, as, lists)
  /\ \A l \in GrayLists : lists[l] = IF l = "gray" THEN linked[l] \ {t} ELSE linked[l]
  /\ pc = "atomic" => t \notin linked.grayagain
  /\ UNCHANGED <<val, roots, round, cleared>>
  /\ rest' \subseteq rest /\ rest \subseteq rest' \cup {t} /\ (pc \in {"converge", "changed"} => t \notin rest')
  /\ pc = "atomic" <=> pc' = "atomic"
  /\ pc \in {"converge", "changed"} <=> pc' \in {"converge", "changed"}

\* What a traversal in the atomic phase leaves behind.
LEMMA VisitedFacts ==
  ASSUME GcAssumption, Static, pc \in Loops, gcstate # "propagate", NEW t, NEW as, NEW lists, Visited(t, as, lists)
  PROVE  /\ linked'.gray = (linked.gray \ {t}) \cup Newly /\ linked'.grayagain = linked.grayagain
         /\ linked.weak \subseteq linked'.weak /\ linked'.weak \subseteq linked.weak \cup {t}
         /\ linked.allweak \subseteq linked'.allweak /\ linked'.allweak \subseteq linked.allweak \cup {t}
         /\ linked.ephemeron \subseteq linked'.ephemeron /\ linked'.ephemeron \subseteq linked.ephemeron \cup {t}
         /\ t \notin Newly
<1> DEFINE place == Place(t, as, mark')
           One(l) == IF l = place THEN {t} ELSE {}
<1>1. \A l \in GrayLists : lists[l] = IF l = "gray" THEN linked[l] \ {t} ELSE linked[l]
  BY Zenon DEF Visited
<1>2. \A l \in GrayLists : linked'[l] = lists[l] \cup (IF l = "gray" THEN Newly ELSE {}) \cup One(l)
  BY Zenon DEF Visited, Traversed, Newly
<1>3. place \in {"none", "allweak", "weak", "ephemeron"}
  BY DEF Place, Modes, Visited
<1>4. t \notin Newly
  BY DEF Newly, Visited, Gray
<1> HIDE DEF place
<1>5. linked'["gray"] = (linked["gray"] \ {t}) \cup Newly /\ linked'["grayagain"] = linked["grayagain"]
  BY <1>1, <1>2, <1>3 DEF GrayLists
<1>6. \A l \in {"weak", "allweak", "ephemeron"} : linked[l] \subseteq linked'[l] /\ linked'[l] \subseteq linked[l] \cup {t}
  BY <1>1, <1>2 DEF GrayLists
<1> QED BY <1>4, <1>5, <1>6

\* What is newly gray is in no list, nor among the ephemerons to be visited.
LEMMA NewlyApart ==
  ASSUME GcAssumption, Static, pc \in Loops
  PROVE  /\ Newly \cap (linked.weak \cup linked.allweak \cup linked.ephemeron) = {}
         /\ pc = "atomic" => Newly \cap linked.grayagain = {}
         /\ pc \in {"converge", "changed"} => Newly \cap rest = {}
         /\ Main \notin Newly
<1>0. /\ ListsGray /\ LoopLists /\ Objs \subseteq Nat \ {0} /\ Main = -1
  BY DEF Static, AtomicPhase, Colours, MarkingNow, GcAssumption, Main
<1>1. \A x \in Newly : x # Main /\ mark[x] # Gray
  BY <1>0 DEF Newly, Gray
<1>2. \A l \in GrayLists : (l = "grayagain" => pc = "atomic") => Newly \cap linked[l] = {}
  BY <1>0, <1>1 DEF ListsGray
<1>3. pc \in {"converge", "changed"} => Newly \cap rest = {}
  BY <1>0, <1>1 DEF LoopLists
<1>4. /\ Newly \cap linked["weak"] = {} /\ Newly \cap linked["allweak"] = {} /\ Newly \cap linked["ephemeron"] = {}
      /\ pc = "atomic" => Newly \cap linked["grayagain"] = {}
  BY <1>2 DEF GrayLists
<1> QED BY <1>1, <1>3, <1>4

\* After it what holds in the atomic phase holds again.
LEMMA VisitedPhase ==
  ASSUME GcAssumption, Static, pc \in Loops, gcstate # "propagate", NEW t, NEW as, NEW lists, Visited(t, as, lists)
  PROVE  /\ Apart' /\ StackDone' /\ TablesCovered'
         /\ pc \in {"converge", "changed"} => \A x \in rest' : mark'[x] = Gray
         /\ Late' /\ Late => \A x \in cleared' : val'[x] # 0 => NotWhite(val[x])'
<1>0. /\ Types /\ Apart /\ StackDone /\ TablesCovered /\ LoopLists /\ Cleaned /\ ListsGray /\ Objs \subseteq Nat \ {0} /\ Main = -1
      /\ roots \subseteq Objs /\ cleared \subseteq Objs /\ val \in [Objs -> Objs \cup {0}] /\ rest \subseteq Objs
  BY DEF Static, AtomicPhase, Colours, MarkingNow, Types, GcAssumption, Main
<1>1. /\ linked'.gray = (linked.gray \ {t}) \cup Newly /\ linked'.grayagain = linked.grayagain
      /\ linked.weak \subseteq linked'.weak /\ linked'.weak \subseteq linked.weak \cup {t}
      /\ linked.allweak \subseteq linked'.allweak /\ linked'.allweak \subseteq linked.allweak \cup {t}
      /\ linked.ephemeron \subseteq linked'.ephemeron /\ linked'.ephemeron \subseteq linked.ephemeron \cup {t}
      /\ t \notin Newly
  BY VisitedFacts
<1>2. /\ Newly \cap (linked.weak \cup linked.allweak \cup linked.ephemeron) = {}
      /\ pc = "atomic" => Newly \cap linked.grayagain = {}
      /\ pc \in {"converge", "changed"} => Newly \cap rest = {}
      /\ Main \notin Newly
  BY NewlyApart
<1>3. /\ t \in Objs /\ mark[t] = Gray /\ as \in Modes /\ Darkens /\ Traversed(t, as, lists)
      /\ pc = "atomic" => t \notin linked.grayagain
      /\ UNCHANGED <<val, roots, round, cleared>>
      /\ rest' \subseteq rest /\ rest \subseteq rest' \cup {t} /\ (pc \in {"converge", "changed"} => t \notin rest')
      /\ (pc = "atomic" <=> pc' = "atomic")
      /\ (pc \in {"converge", "changed"} <=> pc' \in {"converge", "changed"})
  BY Zenon DEF Visited
<1>4. Apart'
  <2>1. linked'.gray \cap (linked'.weak \cup linked'.allweak \cup linked'.ephemeron) = {}
    BY <1>0, <1>1, <1>2 DEF Apart
  <2>2. ASSUME pc' = "atomic"
        PROVE  linked'.grayagain \cap (linked'.weak \cup linked'.allweak \cup linked'.ephemeron \cup (linked'.gray \ {Main})) = {}
    BY <1>0, <1>1, <1>2, <1>3, <2>2 DEF Apart
  <2>3. ASSUME pc' \in {"converge", "changed"} PROVE linked'.gray \cap rest' = {}
    <3>1. pc \in {"converge", "changed"}
      BY <1>3, <2>3
    <3> QED BY <1>0, <1>1, <1>2, <1>3, <3>1 DEF Apart
  <2> QED BY <2>1, <2>2, <2>3 DEF Apart
<1>5. \A v \in Objs \cup {0} : ~White(mark, v) => ~White(mark', v)
  BY <1>3, DarkensNotWhite
<1>6. StackDone'
  BY <1>0, <1>1, <1>3, <1>5 DEF StackDone, NotWhite
<1>7. TablesCovered'
  <2>1. SUFFICES ASSUME NEW x \in Objs, mark'[x] = Gray, val[x] # 0 PROVE Covered(x)'
    BY <1>3 DEF TablesCovered
  <2>2. CASE x = t
    BY <1>0, <1>3, <2>1, <2>2, TraversedCovered
  <2>3. CASE x # t /\ mark[x] # Gray
    <3>1. x \in Newly
      BY <1>3, <2>1, <2>3, TraversedMarks DEF Newly
    <3> QED BY <1>1, <3>1 DEF Covered
  <2>4. CASE x # t /\ mark[x] = Gray
    <3>1. Covered(x)
      BY <1>0, <2>1, <2>4 DEF TablesCovered
    <3>2. key'[x] = key[x] /\ val'[x] = val[x]
      <4>1. \A o \in Objs : key'[o] = key[o] \/ (o = t /\ key'[o] = 0 /\ val[o] = 0)
        BY <1>3, Zenon DEF Traversed
      <4> QED BY <1>3, <2>4, <4>1
    <3> HIDE DEF Newly
    <3>a. (x \in linked.gray => x \in linked'.gray) /\ (x \in linked.grayagain /\ pc = "atomic" => x \in linked'.grayagain)
          /\ (x \in rest /\ pc \in {"converge", "changed"} => x \in rest' /\ pc' \in {"converge", "changed"})
      BY <1>1, <1>3, <2>4
    <3> QED BY <1>0, <1>1, <1>3, <2>1, <3>1, <3>2, <3>a, CoveredKeep
  <2> QED BY <2>2, <2>3, <2>4
<1>8. ASSUME pc \in {"converge", "changed"}, NEW x \in rest' PROVE mark'[x] = Gray
  <2>1. x \in Objs \ {t} /\ mark[x] = Gray
    BY <1>0, <1>3, <1>8 DEF LoopLists
  <2> QED BY <1>3, <2>1, TraversedMarks
<1>9. ASSUME Late, NEW x \in cleared', val'[x] # 0 PROVE NotWhite(val[x])'
  <2>1. x \in cleared /\ val'[x] = val[x] /\ val[x] \in Objs \cup {0} /\ ~White(mark, val[x])
    BY <1>0, <1>3, <1>9 DEF Cleaned, NotWhite
  <2> QED BY <1>5, <2>1 DEF NotWhite
<1> QED BY <1>4, <1>6, <1>7, <1>8, <1>9
-----------------------------------------------------------------------------
\* The thread is traversed in the atomic phase.
LEMMA ThreadPhase ==
  ASSUME GcAssumption, Static, PropagateAll, Main \in linked.gray, TraverseThread
  PROVE  AtomicPhase'
<1>0. /\ Types /\ Shape /\ Apart /\ StackDone /\ TablesCovered /\ LoopLists /\ Cleaned /\ ListsGray /\ BlackDone
      /\ Objs \subseteq Nat \ {0} /\ Main = -1 /\ pc \in Loops
      /\ roots \subseteq Objs /\ cleared \subseteq Objs /\ val \in [Objs -> Objs \cup {0}] /\ rest \subseteq Objs
      /\ linked \in [GrayLists -> SUBSET (Objs \cup {Main})]
  BY DEF Static, AtomicPhase, Colours, MarkingNow, Types, GcAssumption, Main, PropagateAll, Loops
<1>1. /\ UNCHANGED <<key, val, roots, pc, rest, again, round, cleared>> /\ pc \in {"atomic", "again", "changed", "resurrect"}
      /\ mark' = ReallyMark(roots)
      /\ linked' = [linked EXCEPT !.gray = (@ \ {Main}) \cup Grayed(roots), !.grayagain = @ \cup {Main}]
  BY DEF PropagateAll, TraverseThread, loopVars
<1>2. /\ Darkens /\ \A x \in roots : ~White(mark', x)
      /\ \A x \in Objs : mark[x] = Gray => mark'[x] = Gray
      /\ Grayed(roots) = Newly
  <2>1. FieldsKept
    BY <1>1 DEF FieldsKept
  <2> QED BY <1>0, <1>1, <2>1, MarksColours DEF Newly
<1>3. /\ linked'.gray = (linked.gray \ {Main}) \cup Newly /\ linked'.grayagain = linked.grayagain \cup {Main}
      /\ linked'.weak = linked.weak /\ linked'.allweak = linked.allweak /\ linked'.ephemeron = linked.ephemeron
  BY <1>0, <1>1, <1>2 DEF GrayLists
<1>4. /\ Newly \cap (linked.weak \cup linked.allweak \cup linked.ephemeron) = {}
      /\ pc = "atomic" => Newly \cap linked.grayagain = {}
      /\ pc \in {"converge", "changed"} => Newly \cap rest = {}
      /\ Main \notin Newly
  BY <1>0, NewlyApart
<1>5. Main \notin linked.weak \cup linked.allweak \cup linked.ephemeron
  BY <1>0 DEF ListsGray
<1>6. Apart'
  <2>1. linked'.gray \cap (linked'.weak \cup linked'.allweak \cup linked'.ephemeron) = {}
    BY <1>0, <1>3, <1>4 DEF Apart
  <2>2. ASSUME pc' = "atomic"
        PROVE  linked'.grayagain \cap (linked'.weak \cup linked'.allweak \cup linked'.ephemeron \cup (linked'.gray \ {Main})) = {}
    BY <1>0, <1>1, <1>3, <1>4, <1>5, <2>2 DEF Apart
  <2>3. ASSUME pc' \in {"converge", "changed"} PROVE linked'.gray \cap rest' = {}
    BY <1>0, <1>1, <1>3, <1>4, <2>3 DEF Apart
  <2> QED BY <2>1, <2>2, <2>3 DEF Apart
<1>7. StackDone'
  BY <1>1, <1>2, <1>3 DEF StackDone, NotWhite
<1>8. TablesCovered'
  <2>1. SUFFICES ASSUME NEW x \in Objs, mark'[x] = Gray, val[x] # 0 PROVE Covered(x)'
    BY <1>1 DEF TablesCovered
  <2>2. CASE mark[x] # Gray
    <3>1. mark[x] \in {0, 1}
      <4>1. mark \in [Objs -> Marks]
        BY <1>0, MarkTypes DEF Types
      <4>2. MarksOf(roots, mark')
        BY <1>0, <1>1, <4>1, MarkFacts
      <4> QED BY <2>1, <2>2, <4>2 DEF MarksOf
    <3>2. x \in Newly
      BY <2>1, <3>1 DEF Newly
    <3> QED BY <1>3, <3>2 DEF Covered
  <2>3. CASE mark[x] = Gray
    <3>1. Covered(x)
      BY <1>0, <2>1, <2>3 DEF TablesCovered
    <3>2. x # Main
      BY <1>0
    <3> HIDE DEF Newly
    <3>a. (x \in linked.gray => x \in linked'.gray) /\ (x \in linked.grayagain /\ pc = "atomic" => x \in linked'.grayagain)
      BY <1>3, <3>2
    <3> QED BY <1>0, <1>1, <1>2, <1>3, <2>1, <3>1, <3>a, CoveredKeep
  <2> QED BY <2>2, <2>3
<1>9. LoopLists'
  BY <1>0, <1>1, <1>2 DEF LoopLists
<1>10. Cleaned'
  <2>1. ASSUME Late', NEW x \in cleared, val[x] # 0 PROVE ~White(mark', val[x])
    <3>1. Late
      BY <1>1, <2>1 DEF Late
    <3>2. val[x] \in Objs \cup {0} /\ ~White(mark, val[x])
      BY <1>0, <2>1, <3>1 DEF Cleaned, NotWhite
    <3> QED BY <1>2, <3>2, DarkensNotWhite
  <2> QED BY <1>1, <2>1 DEF Cleaned, NotWhite
<1> QED BY <1>6, <1>7, <1>8, <1>9, <1>10 DEF AtomicPhase

\* propagateall in the atomic phase.
LEMMA PropagateAllPhase ==
  ASSUME GcAssumption, Static, PropagateAll
  PROVE  AtomicPhase'
<1>0. /\ Types /\ Shape /\ Phases /\ Colours /\ MarkingNow /\ Apart /\ LoopLists /\ pc \in Loops /\ gcstate # "propagate"
      /\ rest \subseteq Objs /\ linked \in [GrayLists -> SUBSET (Objs \cup {Main})]
  BY DEF Static, AtomicPhase, MarkingNow, Types, PropagateAll, Loops, Phases, Control
<1>1. /\ UNCHANGED <<val, roots, pc, rest, again, round, cleared>> /\ pc \in {"atomic", "again", "changed", "resurrect"} /\ PropagateMark
  BY DEF PropagateAll, loopVars
<1>2. CASE Main \in linked.gray /\ TraverseThread
  BY <1>2, ThreadPhase
<1>3. ASSUME NEW t \in linked.gray \ {Main}, t \in Objs, mark[t] = Gray, mode[t] \in Modes, Darkens,
             Traversed(t, mode[t], [linked EXCEPT !.gray = @ \ {t}])
      PROVE  AtomicPhase'
  <2> DEFINE lists == [linked EXCEPT !.gray = @ \ {t}]
  <2>1. \A l \in GrayLists : lists[l] = IF l = "gray" THEN linked[l] \ {t} ELSE linked[l]
    BY <1>0 DEF GrayLists
  <2>2. Traversed(t, mode[t], lists)
    BY <1>3
  <2> HIDE DEF lists
  <2>3. pc = "atomic" => t \notin linked.grayagain
    BY <1>0, <1>3 DEF Apart
  <2>4. pc \in {"converge", "changed"} => t \notin rest
    BY <1>0, <1>3 DEF Apart
  <2>5. Visited(t, mode[t], lists)
    BY <1>1, <1>3, <2>1, <2>2, <2>3, <2>4, Zenon DEF Visited
  <2>6. /\ Apart' /\ StackDone' /\ TablesCovered'
        /\ pc \in {"converge", "changed"} => \A x \in rest' : mark'[x] = Gray
        /\ Late' /\ Late => \A x \in cleared' : val'[x] # 0 => NotWhite(val[x])'
    BY <1>0, <2>5, VisitedPhase
  <2>7. LoopLists'
    BY <1>0, <1>1, <2>6 DEF LoopLists
  <2>8. Late' => Late
    BY <1>1 DEF Late
  <2>9. Cleaned'
    BY <1>1, <2>6, <2>8 DEF Cleaned
  <2> QED BY <2>6, <2>7, <2>9 DEF AtomicPhase
<1> QED BY <1>0, <1>1, <1>2, <1>3, PropagateFacts

\* convergeephemerons visits an ephemeron.
LEMMA RevisitPhase ==
  ASSUME GcAssumption, Static, Revisit
  PROVE  AtomicPhase'
<1>0. /\ Types /\ Shape /\ Phases /\ Colours /\ MarkingNow /\ Apart /\ LoopLists /\ Cleaned /\ pc = "converge" /\ pc \in Loops /\ gcstate # "propagate"
      /\ rest \subseteq Objs /\ linked \in [GrayLists -> SUBSET (Objs \cup {Main})] /\ linked.gray = {}
      /\ Objs \subseteq Nat \ {0} /\ key \in [Objs -> Objs \cup {0}] /\ val \in [Objs -> Objs \cup {0}] /\ mark \in [Objs -> Marks]
  BY MarkTypes DEF Static, AtomicPhase, MarkingNow, Types, Revisit, Loops, Phases, Control, LoopLists, GcAssumption
<1>1. PICK t \in rest : /\ rest' = rest \ {t} /\ Traverse(t, "k", linked)
                        /\ IF val[t] # 0 /\ ~Cleared(mark, key[t]) /\ White(mark, val[t]) /\ val[t] # key[t]
                             THEN pc' = "changed" /\ again' = TRUE ELSE UNCHANGED <<pc, again>>
  BY DEF Revisit
<1>2. UNCHANGED <<val, roots, round, cleared>>
  BY DEF Revisit
<1>3. t \in Objs /\ mark[t] = Gray /\ Kind[t] = "table" /\ t \notin linked.gray
  BY <1>0 DEF LoopLists, Shape
<1>4. Darkens /\ Traversed(t, "k", linked) /\ "k" \in Modes
  BY <1>0, <1>1, <1>3, TraverseFacts DEF Modes
<1>5. \A l \in GrayLists : linked[l] = IF l = "gray" THEN linked[l] \ {t} ELSE linked[l]
  BY <1>3
<1>6. Visited(t, "k", linked)
  <2>1. pc' \in {"converge", "changed"}
    BY <1>0, <1>1
  <2>2. pc # "atomic" /\ pc' # "atomic" /\ pc \in {"converge", "changed"}
    BY <1>0, <2>1
  <2>3. rest' \subseteq rest /\ rest \subseteq rest' \cup {t} /\ t \notin rest'
    BY <1>1
  <2> QED BY <1>2, <1>3, <1>4, <1>5, <2>1, <2>2, <2>3, Zenon DEF Visited
<1>7. /\ Apart' /\ StackDone' /\ TablesCovered'
      /\ \A x \in rest' : mark'[x] = Gray
      /\ Late' /\ Late => \A x \in cleared' : val'[x] # 0 => NotWhite(val[x])'
  BY <1>0, <1>6, VisitedPhase
<1>8. Late' => Late
  BY <1>0, <1>1, <1>2 DEF Late
<1> DEFINE S == Children(t, "k")
           Marks1 == val[t] # 0 /\ ~Cleared(mark, key[t]) /\ White(mark, val[t]) /\ val[t] # key[t]
\* Where no value is marked.
<1>9. ASSUME ~Marks1 PROVE Newly = {} /\ \A o \in Objs : mark'[o] = mark[o] \/ Kind[o] = "string"
  <2>1. S = IF val[t] = 0 \/ Cleared(mark, key[t]) THEN {} ELSE {key[t], val[t]}
    BY DEF Children
  <2>2. \A x \in S \cap Objs : White(mark, x) => Kind[x] = "string"
    BY <1>9, <2>1 DEF Cleared
  <2>3. mark' = [ReallyMark(S) EXCEPT ![t] = Gray]
    BY <1>1 DEF Traverse
  <2> HIDE DEF S
  <2>4. Grayed(S) = {} /\ \A o \in Objs : ReallyMark(S)[o] = mark[o] \/ (o \in S /\ Kind[o] = "string")
    BY <1>0, <2>2, StringMarks
  <2>5. ReallyMark(S) \in [Objs -> Marks] /\ Grayed(S) = {o \in Objs : mark[o] \in {0, 1} /\ ReallyMark(S)[o] = Gray}
    BY <1>0, MarkFacts DEF MarksOf
  <2>6. \A o \in Objs : mark'[o] = IF o = t THEN Gray ELSE ReallyMark(S)[o]
    BY <2>3, <2>5
  <2> QED BY <1>3, <2>4, <2>5, <2>6 DEF Newly, Gray
<1>10. linked'.gray = Newly
  BY <1>0, <1>6, VisitedFacts
<1>11. LoopLists'
  <2>1. pc' = "converge" => linked'.gray = {}
    BY <1>0, <1>1, <1>9, <1>10
  <2>2. pc' = "changed" => again'
    BY <1>0, <1>1
  <2>3. pc' \in {"converge", "changed"}
    BY <1>0, <1>1
  <2> QED BY <1>7, <2>1, <2>2, <2>3 DEF LoopLists
<1>12. ASSUME pc' = "converge", ~again', NEW x \in linked'.ephemeron, val'[x] # 0 PROVE Cleared(mark', key'[x])
  <2>1. ~Marks1 /\ ~again
    BY <1>1, <1>12
  <2>2. x \in Objs /\ val[x] # 0
    <3>1. x \in linked.ephemeron \/ x = t
      BY <1>0, <1>6, <1>12, VisitedFacts
    <3>2. Main \notin linked.ephemeron
      BY <1>0 DEF Colours, ListsGray
    <3> QED BY <1>0, <1>2, <1>3, <1>12, <3>1, <3>2 DEF GrayLists
  <2>3. key'[x] = key[x]
    <3>1. \A o \in Objs : key'[o] = key[o] \/ (o = t /\ key'[o] = 0 /\ val[o] = 0)
      BY <1>4, Zenon DEF Traversed
    <3> QED BY <2>2, <3>1
  <2>4. Cleared(mark, key[x])
    <3>1. CASE x \in linked.ephemeron
      BY <1>0, <2>1, <2>2, <3>1 DEF Cleaned
    <3>2. CASE x \notin linked.ephemeron
      <4>1. "ephemeron" \in GrayLists /\ "ephemeron" # "gray"
        BY DEF GrayLists
      <4>2. "ephemeron" = Place(t, "k", mark') /\ x = t
        BY <1>3, <1>4, <1>12, <3>2, <4>1, TraversedLists
      <4>3. Cleared(mark, key[t])
        BY <1>0, <4>2 DEF Place
      <4> QED BY <4>2, <4>3
    <3> QED BY <3>1, <3>2
  <2>5. key[x] \in Objs /\ mark'[key[x]] = mark[key[x]]
    BY <1>0, <1>9, <2>1, <2>2, <2>4 DEF Cleared, White
  <2> QED BY <2>3, <2>4, <2>5 DEF Cleared, White
<1>13. pc' \in {"converge", "changed"}
  BY <1>0, <1>1
<1>14. Cleaned'
  BY <1>7, <1>8, <1>12, <1>13 DEF Cleaned
<1> QED BY <1>7, <1>11, <1>14 DEF AtomicPhase
-----------------------------------------------------------------------------
\* clearvalues and clearkeys visit a table.
LEMMA ClearEntryPhase ==
  ASSUME GcAssumption, Static, ClearEntry
  PROVE  AtomicPhase'
<1>0. /\ Types /\ Shape /\ Apart /\ StackDone /\ TablesCovered /\ LoopLists /\ Cleaned
      /\ Objs \subseteq Nat \ {0} /\ pc \in {"values", "keys", "newer"} /\ linked.gray = {}
      /\ roots \subseteq Objs /\ cleared \subseteq Objs /\ val \in [Objs -> Objs \cup {0}] /\ key \in [Objs -> Objs \cup {0}] /\ rest \subseteq Objs
      /\ linked \in [GrayLists -> SUBSET (Objs \cup {Main})] /\ mark \in [Objs -> Marks] /\ Main = -1
      /\ Main \notin linked.weak \cup linked.allweak \cup linked.ephemeron
      /\ \A o \in linked.weak \cup linked.allweak \cup linked.ephemeron : o \in Objs
  <2>1. /\ Types /\ Shape /\ Apart /\ StackDone /\ TablesCovered /\ LoopLists /\ Cleaned /\ ListsGray /\ pc \in {"values", "keys", "newer"}
    BY DEF Static, AtomicPhase, Colours, MarkingNow, ClearEntry, Loops
  <2>2. linked.gray = {}
    BY <2>1 DEF LoopLists
  <2>3. Main \notin linked.weak \cup linked.allweak \cup linked.ephemeron
    BY <2>1 DEF ListsGray
  <2>4. linked \in [GrayLists -> SUBSET (Objs \cup {Main})]
    BY <2>1 DEF Types
  <2>5. \A o \in linked.weak \cup linked.allweak \cup linked.ephemeron : o \in Objs
    BY <2>3, <2>4 DEF GrayLists
  <2> QED BY <2>1, <2>2, <2>3, <2>4, <2>5, MarkTypes DEF Types, GcAssumption, Main
<1>1. UNCHANGED <<roots, linked, pc, again, round, cleared>>
  BY DEF ClearEntry
<1> DEFINE X(t) == IF pc = "keys" THEN key[t] ELSE val[t]
<1>2. PICK t \in rest : /\ rest' = rest \ {t}
                        /\ mark' = IF val[t] = 0 THEN mark ELSE ReallyMark(Strings({X(t)}))
                        /\ IF val[t] # 0 /\ Cleared(mark, X(t)) THEN val' = [val EXCEPT ![t] = 0] /\ RemoveEntry(t) ELSE UNCHANGED <<key, val>>
  BY DEF ClearEntry
<1> DEFINE x == X(t)
           S == Strings({x})
<1>a. t \in Objs /\ x \in Objs \cup {0}
  BY <1>0
<1>b. /\ \A v \in S : v \in Objs /\ Kind[v] = "string"
      /\ x # 0 /\ Kind[x] = "string" => x \in S
  BY <1>a DEF Strings
<1>c. mark' = mark \/ mark' = ReallyMark(S)
  BY <1>2
<1>d. val[t] # 0 => mark' = ReallyMark(S)
  BY <1>2
<1>e. IF val[t] # 0 /\ Cleared(mark, x) THEN val' = [val EXCEPT ![t] = 0] /\ RemoveEntry(t) ELSE UNCHANGED <<key, val>>
  BY <1>2
<1>x. (pc = "keys" => x = key[t]) /\ (pc # "keys" => x = val[t])
  OBVIOUS
<1> HIDE DEF S, x
<1>3. /\ \A o \in Objs : mark'[o] = mark[o] \/ (mark[o] \in {0, 1} /\ Kind[o] = "string" /\ mark'[o] = Black)
      /\ val[t] # 0 /\ x \in S => mark'[x] \notin {0, 1}
  <2>1. CASE mark' = mark
    <3>1. val[t] # 0 /\ x \in S => mark'[x] \notin {0, 1}
      <4>1. val[t] # 0 => MarksOf(S, mark')
        BY <1>0, <1>d, MarkFacts
      <4> QED BY <1>b, <4>1 DEF MarksOf
    <3> QED BY <2>1, <3>1
  <2>2. CASE mark' = ReallyMark(S)
    <3>1. MarksOf(S, mark')
      BY <1>0, <2>2, MarkFacts
    <3>2. \A o \in Objs : mark'[o] = mark[o] \/ (o \in S /\ Kind[o] = "string")
      BY <1>0, <1>b, <2>2, StringMarks
    <3>3. \A o \in Objs : mark'[o] = mark[o] \/ (mark[o] \in {0, 1} /\ Kind[o] = "string" /\ mark'[o] = Black)
      BY <3>1, <3>2 DEF MarksOf
    <3>4. val[t] # 0 /\ x \in S => mark'[x] \notin {0, 1}
      BY <1>b, <3>1 DEF MarksOf
    <3> QED BY <3>3, <3>4
  <2> QED BY <1>c, <2>1, <2>2
<1>4. /\ \A v \in Objs \cup {0} : ~White(mark, v) => ~White(mark', v)
      /\ \A v \in Objs \cup {0} : Cleared(mark, v) => Cleared(mark', v)
      /\ \A o \in Objs : mark[o] = Gray <=> mark'[o] = Gray
  <2>1. \A v \in Objs \cup {0} : ~White(mark, v) => ~White(mark', v)
    BY <1>3 DEF White, Black
  <2>2. \A v \in Objs \cup {0} : Cleared(mark, v) => Cleared(mark', v)
    BY <1>3 DEF White, Cleared
  <2>3. \A o \in Objs : mark[o] = Gray <=> mark'[o] = Gray
    BY <1>3 DEF Gray, Black
  <2> QED BY <2>1, <2>2, <2>3
<1>5. \A o \in Objs : val'[o] # 0 => val'[o] = val[o] /\ key'[o] = key[o]
  BY <1>0, <1>a, <1>e DEF RemoveEntry
<1>6. val'[t] # 0 => ~White(mark', x)
  <2>1. SUFFICES ASSUME val'[t] # 0, White(mark', x) PROVE FALSE
    OBVIOUS
  <2>2. val[t] # 0
    BY <1>5, <1>a, <2>1
  <2>3. ~Cleared(mark, x)
    BY <1>0, <1>a, <1>e, <2>1, <2>2
  <2>4. White(mark, x)
    BY <1>4, <1>a, <2>1
  <2>5. Kind[x] = "string"
    BY <2>3, <2>4 DEF Cleared
  <2>6. x # 0
    BY <2>1 DEF White
  <2>7. mark'[x] \notin {0, 1}
    BY <1>3, <1>b, <2>2, <2>5, <2>6
  <2> QED BY <2>1, <2>7 DEF White
<1>7. Darkens
  BY <1>0, <1>c, MarkDarkens DEF Darkens
<1>8. Apart'
  BY <1>0, <1>1 DEF Apart
<1>9. StackDone'
  BY <1>0, <1>1, <1>4 DEF StackDone, NotWhite
<1>10. TablesCovered'
  <2>1. SUFFICES ASSUME NEW o \in Objs, mark'[o] = Gray, val'[o] # 0 PROVE Covered(o)'
    BY DEF TablesCovered
  <2>2. val'[o] = val[o] /\ key'[o] = key[o] /\ mark[o] = Gray /\ val[o] # 0
    BY <1>4, <1>5, <2>1
  <2>3. Covered(o)
    BY <1>0, <2>2 DEF TablesCovered
  <2>4. pc \notin {"converge", "changed", "atomic"}
    BY <1>0
  <2> QED BY <1>0, <1>1, <1>7, <2>2, <2>3, <2>4, CoveredKeep
<1>11. LoopLists'
  <2>1. rest' \subseteq rest /\ \A o \in rest : mark'[o] = Gray
    BY <1>0, <1>2, <1>4 DEF LoopLists
  <2> QED BY <1>0, <1>1, <2>1 DEF LoopLists
<1>12. Cleaned'
  <2>0. \A o \in Objs : val'[o] # 0 =>
          /\ val'[o] = val[o] /\ key'[o] = key[o] /\ val[o] # 0
          /\ (NotWhite(val[o]) => NotWhite(val[o])') /\ (NotWhite(key[o]) => NotWhite(key[o])')
          /\ (Cleared(mark, key[o]) => Cleared(mark', key'[o]))
    BY <1>0, <1>4, <1>5 DEF NotWhite
  <2>a. val'[t] # 0 => (pc = "keys" => NotWhite(key[t])') /\ (pc # "keys" => NotWhite(val[t])')
    BY <1>6, <1>x, <1>a, <2>0 DEF NotWhite
  <2>1. \A o \in linked.ephemeron : pc \in {"values", "keys"} /\ val'[o] # 0 => Cleared(mark', key'[o])
    BY <1>0, <2>0 DEF Cleaned
  <2>2. pc = "values" => \A o \in (linked.weak \cup linked.allweak) \ rest' : val'[o] # 0 => NotWhite(val[o])'
    <3>1. SUFFICES ASSUME pc = "values", NEW o \in (linked.weak \cup linked.allweak) \ rest', val'[o] # 0 PROVE NotWhite(val[o])'
      OBVIOUS
    <3>2. CASE o = t
      BY <2>a, <3>1, <3>2
    <3>3. CASE o # t
      BY <1>0, <1>2, <2>0, <3>1, <3>3 DEF Cleaned
    <3> QED BY <3>2, <3>3
  <2>3. Late => \A o \in cleared : val'[o] # 0 => NotWhite(val[o])'
    BY <1>0, <2>0 DEF Cleaned
  <2>4. pc = "keys" => \A o \in (linked.ephemeron \cup linked.allweak) \ rest' : val'[o] # 0 => NotWhite(key[o])'
    <3>1. SUFFICES ASSUME pc = "keys", NEW o \in (linked.ephemeron \cup linked.allweak) \ rest', val'[o] # 0 PROVE NotWhite(key[o])'
      OBVIOUS
    <3>2. CASE o = t
      BY <2>a, <3>1, <3>2
    <3>3. CASE o # t
      BY <1>0, <1>2, <2>0, <3>1, <3>3 DEF Cleaned
    <3> QED BY <3>2, <3>3
  <2>5. pc = "newer" => /\ \A o \in linked.ephemeron \cup linked.allweak : val'[o] # 0 => NotWhite(key[o])'
                        /\ \A o \in linked.ephemeron : val'[o] = 0
                        /\ \A o \in (linked.weak \cup linked.allweak) \ (cleared \cup rest') : val'[o] # 0 => NotWhite(val[o])'
    <3>1. ASSUME pc = "newer", NEW o \in (linked.weak \cup linked.allweak) \ (cleared \cup rest'), val'[o] # 0 PROVE NotWhite(val[o])'
      <4>2. CASE o = t
        BY <2>a, <3>1, <4>2
      <4>3. CASE o # t
        BY <1>0, <1>2, <2>0, <3>1, <4>3 DEF Cleaned
      <4> QED BY <4>2, <4>3
    <3>2. ASSUME pc = "newer", NEW o \in linked.ephemeron \cup linked.allweak, val'[o] # 0 PROVE NotWhite(key[o])'
      BY <1>0, <2>0, <3>2 DEF Cleaned
    <3>3. ASSUME pc = "newer", NEW o \in linked.ephemeron PROVE val'[o] = 0
      BY <1>0, <2>0, <3>3 DEF Cleaned
    <3> QED BY <3>1, <3>2, <3>3
  <2>6. pc # "converge" /\ (Late' => Late)
    BY <1>0, <1>1 DEF Late
  <2>7. UNCHANGED <<linked, pc, cleared>>
    BY <1>1
  <2>8. pc' \in {"values", "keys"} => \A o \in linked'.ephemeron : val'[o] # 0 => Cleared(mark', key'[o])
    BY <2>1, <2>7
  <2>9. Late' => \A o \in cleared' : val'[o] # 0 => NotWhite(val[o])'
    BY <2>3, <2>6, <2>7
  <2>10. pc' = "values" => \A o \in (linked'.weak \cup linked'.allweak) \ rest' : val'[o] # 0 => NotWhite(val[o])'
    BY <2>2, <2>7
  <2>11. pc' = "keys" => \A o \in (linked'.ephemeron \cup linked'.allweak) \ rest' : val'[o] # 0 => NotWhite(key[o])'
    BY <2>4, <2>7
  <2>12. pc' = "newer" => /\ \A o \in linked'.ephemeron \cup linked'.allweak : val'[o] # 0 => NotWhite(key[o])'
                          /\ \A o \in linked'.ephemeron : val'[o] = 0
                          /\ \A o \in (linked'.weak \cup linked'.allweak) \ (cleared' \cup rest') : val'[o] # 0 => NotWhite(val[o])'
    BY <2>5, <2>7
  <2>13. pc' \notin {"converge", "separate"}
    BY <1>0, <2>7
  <2> QED BY <2>8, <2>9, <2>10, <2>11, <2>12, <2>13 DEF Cleaned
<1> QED BY <1>8, <1>9, <1>10, <1>11, <1>12 DEF AtomicPhase

\* What is to be finalized is marked.
LEMMA ResurrectPhase ==
  ASSUME GcAssumption, Static, Resurrect
  PROVE  AtomicPhase'
<1> DEFINE S == Elems(list.tobefnz)
<1>0. /\ Types /\ Shape /\ Apart /\ StackDone /\ TablesCovered /\ LoopLists /\ Cleaned /\ BlackDone /\ pc = "separate" /\ pc \in Loops
      /\ roots \subseteq Objs /\ cleared \subseteq Objs /\ val \in [Objs -> Objs \cup {0}] /\ linked.gray = {}
      /\ linked \in [GrayLists -> SUBSET (Objs \cup {Main})] /\ mark \in [Objs -> Marks]
  BY MarkTypes DEF Static, AtomicPhase, Colours, MarkingNow, Types, Resurrect, Loops, LoopLists
<1>1. /\ UNCHANGED <<key, val, roots, rest, again, round, cleared>> /\ pc' = "resurrect"
      /\ mark' = ReallyMark(S) /\ linked' = [linked EXCEPT !.gray = @ \cup Grayed(S)]
  BY DEF Resurrect, loopVars, heapVars
<1> HIDE DEF S
<1>2. MarksOf(S, mark') /\ Grayed(S) = Newly /\ Darkens
  BY <1>0, <1>1, MarkFacts, MarkDarkens DEF Newly
<1>3. /\ linked'.gray = Newly /\ linked'.grayagain = linked.grayagain
      /\ linked'.weak = linked.weak /\ linked'.allweak = linked.allweak /\ linked'.ephemeron = linked.ephemeron
  BY <1>0, <1>1, <1>2 DEF GrayLists
<1>4. Newly \cap (linked.weak \cup linked.allweak \cup linked.ephemeron) = {}
  BY <1>0, NewlyApart
<1>5. Apart'
  BY <1>1, <1>3, <1>4 DEF Apart
<1>6. \A v \in Objs \cup {0} : ~White(mark, v) => ~White(mark', v)
  BY <1>2, DarkensNotWhite
<1>7. StackDone'
  BY <1>0, <1>1, <1>6 DEF StackDone, NotWhite
<1>8. TablesCovered'
  <2>1. SUFFICES ASSUME NEW x \in Objs, mark'[x] = Gray, val[x] # 0 PROVE Covered(x)'
    BY <1>1 DEF TablesCovered
  <2>2. CASE mark[x] # Gray
    <3>1. mark[x] \in {0, 1}
      BY <1>2, <2>1, <2>2 DEF MarksOf
    <3>2. x \in Newly
      BY <2>1, <3>1 DEF Newly
    <3> QED BY <1>3, <3>2 DEF Covered
  <2>3. CASE mark[x] = Gray
    <3>1. Covered(x)
      BY <1>0, <2>1, <2>3 DEF TablesCovered
    <3> QED BY <1>0, <1>1, <1>2, <1>3, <2>1, <3>1, CoveredKeep
  <2> QED BY <2>2, <2>3
<1>9. LoopLists'
  BY <1>1 DEF LoopLists
<1>10. Cleaned'
  <2>1. ASSUME NEW x \in cleared, val[x] # 0 PROVE ~White(mark', val[x])
    <3>1. Late
      BY <1>0 DEF Late
    <3>2. val[x] \in Objs \cup {0} /\ ~White(mark, val[x])
      BY <1>0, <2>1, <3>1 DEF Cleaned, NotWhite
    <3> QED BY <1>6, <3>2
  <2> QED BY <1>1, <2>1 DEF Cleaned, NotWhite
<1> QED BY <1>5, <1>7, <1>8, <1>9, <1>10 DEF AtomicPhase

\* Where the atomic phase begins.
LEMMA EntersLoops ==
  ASSUME Next, pc \notin Loops, pc' \in Loops
  PROVE  EnterAtomic
<1>0. Loops = {"atomic", "again", "converge", "changed", "values", "separate", "resurrect", "keys", "newer"}
  BY DEF Loops
<1>1. ~Step /\ ~FullGc /\ ~StepGoesOn /\ ~FullGoesOn /\ ~Paused /\ ~RestartCollection /\ ~PropagateOne /\ ~PropagateAll
  BY <1>0 DEF Step, FullGc, StepGoesOn, FullGoesOn, Paused, Leave, RestartCollection, PropagateOne, PropagateAll
<1>2. ~EnterSweep /\ ~SweepStep /\ ~SweepList /\ ~SweepNext /\ ~SweepEnd /\ ~SweepToLive /\ ~SweptToLive
  BY <1>0 DEF EnterSweep, SweepStep, SweepList, SweepNext, SweepEnd, SweepToLive, SweptToLive
<1>3. ~CallRemaining /\ ~CallFinalizer /\ ~FinalizersDone /\ ~Return /\ ~Raise
  BY <1>0 DEF CallRemaining, CallFinalizer, FinalizersDone, Return, Raise, Leave
<1>4. ~New /\ ~SetTable /\ ~GetTable /\ ~Pop /\ ~SetUservalue /\ ~SetMode /\ ~CheckFinalizer
  BY <1>0 DEF New, SetTable, GetTable, Pop, SetUservalue, SetMode, CheckFinalizer, Operation
<1>5. ~Atomic
  BY <1>0 DEF Atomic, GrayAgain, Converge, Pass, Revisit, NextEphemeron, ClearGone, ClearKeys, ClearNewer, ClearEntry, Separate, SeparateOne, Resurrect, Flip
<1> QED BY <1>1, <1>2, <1>3, <1>4, <1>5, Zenon DEF Next, Collector, Marking, Sweeping, Program

\* What holds in the atomic phase is kept by every step.
LEMMA AtomicPhaseStep ==
  ASSUME GcAssumption, Static, GrayOnce, Types', Next
  PROVE  AtomicPhase'
<1>1. CASE pc' \notin Loops
  BY <1>1 DEF AtomicPhase
<1>2. CASE pc' \in Loops /\ pc \notin Loops
  BY <1>2, EntersLoops, EnterAtomicPhase
<1>3. CASE pc' \in Loops /\ pc \in Loops
  <2>1. PropagateAll \/ Atomic
    BY <1>3, LoopActions
  <2>2. ~Flip
    BY <1>3 DEF Flip, Loops
  <2> QED BY <1>3, <2>1, <2>2, PropagateAllPhase, GrayAgainPhase, ConvergePhase, RevisitPhase, AtomicQuietStep, ClearEntryPhase, ResurrectPhase
      DEF Atomic
<1> QED BY <1>1, <1>2, <1>3
-----------------------------------------------------------------------------
\* The invariant holds of every heap to start from.
LEMMA InitGood ==
  ASSUME GcAssumption, Init
  PROVE  IInv
<1>1. PICK h \in Heaps : StartFrom(h)
  BY DEF Init
<1> DEFINE used == Elems(h.allgc) \cup Elems(h.finobj)
<1>2. /\ h.mode \in [Objs -> Modes] /\ h.key \in [Objs -> Objs \cup {0}] /\ h.val \in [Objs -> Objs \cup {0}]
      /\ h.allgc \in Seq(Objs) /\ h.finobj \in Seq(Objs) /\ Distinct(h.allgc) /\ Distinct(h.finobj)
      /\ Elems(h.allgc) \cap Elems(h.finobj) = {} /\ h.roots \subseteq used /\ h.ops \in Nat
      /\ \A o \in used : {h.key[o], h.val[o]} \subseteq used \cup {0}
      /\ \A o \in Objs : (Kind[o] # "table" => h.key[o] = 0) /\ (Kind[o] = "string" => h.val[o] = 0)
      /\ Objs \subseteq Nat \ {0}
  BY DEF GcAssumption, WellFormed
<1>3. /\ mode = h.mode /\ key = h.key /\ val = h.val /\ roots = h.roots /\ ops = h.ops
      /\ list = [allgc |-> h.allgc, finobj |-> h.finobj, tobefnz |-> <<>>]
      /\ mark = [o \in Objs |-> IF o \in used THEN 0 ELSE Free]
      /\ linked = [l \in GrayLists |-> {}]
      /\ gcstate = "pause" /\ white = 0 /\ sweepgc = NullPtr /\ finnum = 0 /\ emergency = FALSE
      /\ pc = "program" /\ frames = <<>> /\ overtaken = FALSE
      /\ rest = {} /\ again = FALSE /\ round = 1 /\ cleared = {} /\ count = 0 /\ moved = 0
  BY <1>1, Zenon DEF StartFrom
<1>4. used \subseteq Objs /\ Elems(<<>>) = {} /\ Distinct(<<>>)
  BY <1>2 DEF Elems, Distinct
<1> HIDE DEF used
<1>5. /\ list.allgc = h.allgc /\ list.finobj = h.finobj /\ list.tobefnz = <<>> /\ Lists = {"allgc", "finobj", "tobefnz"}
      /\ list \in [Lists -> Seq(Objs)]
  <2>1. list.allgc = h.allgc /\ list.finobj = h.finobj /\ list.tobefnz = <<>> /\ list \in [{"allgc", "finobj", "tobefnz"} -> Seq(Objs)]
    <3>1. <<>> \in Seq(Objs)
      OBVIOUS
    <3>2. list = [allgc |-> h.allgc, finobj |-> h.finobj, tobefnz |-> <<>>]
      BY <1>3
    <3>3. h.allgc \in Seq(Objs) /\ h.finobj \in Seq(Objs)
      BY <1>2
    <3>4. \A a, b, c : LET r == [allgc |-> a, finobj |-> b, tobefnz |-> c]
                       IN r.allgc = a /\ r.finobj = b /\ r.tobefnz = c /\ \A Q : a \in Q /\ b \in Q /\ c \in Q => r \in [{"allgc", "finobj", "tobefnz"} -> Q]
      OBVIOUS
    <3> QED BY <3>1, <3>2, <3>3, <3>4
  <2> QED BY <2>1 DEF Lists
<1>6. Types
  <2>1. mark \in [Objs -> {0, 1} \cup Marked \cup {Free}]
    BY <1>3 DEF Marked
  <2>2. linked \in [GrayLists -> SUBSET (Objs \cup {Main})]
    BY <1>3
  <2>3. roots \subseteq Objs
    BY <1>2, <1>3, <1>4 DEF used
  <2>4. gcstate \in States /\ sweepgc \in Pointers
    BY <1>3 DEF States, NullPtr, Pointers
  <2>5. mode \in [Objs -> Modes] /\ key \in [Objs -> Objs \cup {0}] /\ val \in [Objs -> Objs \cup {0}] /\ ops \in Nat
    BY <1>2, <1>3
  <2>6. white \in {0, 1} /\ finnum \in Nat /\ emergency \in BOOLEAN /\ pc = "program" /\ rest \subseteq Objs /\ again \in BOOLEAN
        /\ round \in {1, 2} /\ cleared \subseteq Objs /\ count \in Nat /\ moved \in Objs \cup {0}
    BY <1>3
  <2>7. frames \in Seq(Calls)
    BY <1>3
  <2> QED BY <1>5, <2>1, <2>2, <2>3, <2>4, <2>5, <2>6, <2>7 DEF Types
<1>7. Shape
  BY <1>2, <1>3 DEF Shape, Gray, Free
<1>8. Listed
  <2>1. \A l \in Lists : Distinct(list[l])
    BY <1>2, <1>4, <1>5
  <2>2. \A l, m \in Lists : l # m => Elems(list[l]) \cap Elems(list[m]) = {}
    BY <1>2, <1>4, <1>5
  <2>3. \A o \in Objs : mark[o] # Free <=> o \in used
    BY <1>3 DEF Free
  <2>4. \A o \in Objs : o \in used <=> \E l \in Lists : o \in Elems(list[l])
    BY <1>4, <1>5 DEF used
  <2> QED BY <2>1, <2>2, <2>3, <2>4 DEF Listed
<1>9. References
  <2>1. \A o \in used : Live(o)
    BY <1>3, <1>4 DEF Live
  <2>2. \A o \in Objs : Live(o) => o \in used
    BY <1>3 DEF Live, Gray, Black, Free
  <2>3. \A o \in roots : Live(o)
    BY <1>2, <1>3, <2>1 DEF used
  <2>4. \A o \in used : val[o] \in used \cup {0} /\ key[o] \in used \cup {0}
    BY <1>2, <1>3 DEF used
  <2>5. \A o \in Objs : Live(o) /\ val[o] # 0 => Live(val[o]) /\ (key[o] # 0 => Live(key[o]))
    BY <2>1, <2>2, <2>4
  <2> QED BY <1>4, <1>5, <2>3, <2>5 DEF References
<1>10. Phases
  BY <1>3 DEF Phases, Control, Moving, Loops, SweepStates
<1>11. Whites
  BY <1>3 DEF Whites, KeepInvariant, Loops
<1>12. Sweeps
  BY <1>3 DEF Sweeps
<1>13. Colours /\ GrayOnce /\ AtomicPhase
  BY <1>3 DEF Colours, MarkingNow, GrayOnce, AtomicPhase, KeepInvariant, Loops
<1> QED BY <1>6, <1>7, <1>8, <1>9, <1>10, <1>11, <1>12, <1>13 DEF IInv, Good

\* It speaks of the variables of the specification only.
LEMMA StutterGood ==
  ASSUME Good, UNCHANGED gcVars
  PROVE  Good'
<1>0. /\ UNCHANGED <<mark, mode, key, val, roots, list, linked, gcstate, white, sweepgc, finnum, emergency, pc, frames>>
      /\ UNCHANGED <<rest, again, round, cleared, count, moved, overtaken, ops>>
  BY DEF gcVars
<1>1. Types'
  BY <1>0 DEF Good, Types
<1>2. Shape' /\ Listed'
  BY <1>0 DEF Good, Shape, Listed
<1>3. References'
  BY <1>0 DEF Good, References, Live
<1>4. Phases' /\ Whites'
  BY <1>0 DEF Good, Phases, Control, Moving, Whites, KeepInvariant, OtherWhite
<1>5. Sweeps'
  BY <1>0 DEF Good, Sweeps, Swept, SweptTo
<1>6. Colours'
  BY <1>0 DEF Good, Colours, MarkingNow, KeepInvariant, BlackDone, ListsGray, FinMarked, NotWhite, White
<1>7. GrayOnce'
  BY <1>0 DEF Good, GrayOnce, KeepInvariant
<1>8. AtomicPhase'
  <2>1. Apart' <=> Apart
    BY <1>0 DEF Apart
  <2>2. StackDone' <=> StackDone
    BY <1>0 DEF StackDone, NotWhite, White
  <2>3. TablesCovered' <=> TablesCovered
    BY <1>0 DEF TablesCovered, Covered, NotWhite, White
  <2>4. LoopLists' <=> LoopLists
    BY <1>0 DEF LoopLists
  <2>5. Cleaned' <=> Cleaned
    BY <1>0 DEF Cleaned, Late, NotWhite, White, Cleared
  <2> QED BY <1>0, <2>1, <2>2, <2>3, <2>4, <2>5 DEF Good, AtomicPhase
<1> QED BY <1>1, <1>2, <1>3, <1>4, <1>5, <1>6, <1>7, <1>8 DEF Good

\* It is kept by every step that does not get past the sweep.
LEMMA NextGood ==
  ASSUME GcAssumption, Good, Next, ~overtaken'
  PROVE  Good'
<1>1. Types /\ Listed /\ Phases /\ Sweeps /\ Colours /\ Whites /\ References /\ GrayOnce /\ Static
  BY DEF Good, Static
<1>2. Types'
  BY <1>1, TypesStep
<1>3. Listed' /\ Shape' /\ Control' /\ Moving'
  BY <1>1, <1>2, ListedStep, ShapeStep, ControlStep, MovingStep
<1>4. Whites' /\ Sweeps' /\ References' /\ Colours' /\ GrayOnce' /\ AtomicPhase'
  BY <1>1, <1>2, <1>3, WhitesStep, SweepsStep, ReferencesStep, ColoursStep, GrayOnceStep, AtomicPhaseStep
<1> QED BY <1>2, <1>3, <1>4 DEF Good, Phases

\* A cycle that has been overtaken stays so.
LEMMA OvertakenStep ==
  ASSUME Next
  PROVE  overtaken => overtaken'
<1>1. CASE CallFinalizer
  BY <1>1 DEF CallFinalizer
<1>2. CASE Step \/ FullGc \/ StepGoesOn \/ FullGoesOn \/ Paused \/ Marking
  BY <1>2 DEF Step, FullGc, StepGoesOn, FullGoesOn, Paused, Marking, RestartCollection, PropagateOne, EnterAtomic, PropagateAll
<1>3. CASE Atomic
  BY <1>3 DEF Atomic, GrayAgain, Converge, Pass, Revisit, NextEphemeron, ClearGone, ClearKeys, ClearNewer, Clear, ClearEntry,
    Separate, SeparateOne, Resurrect, Flip
<1>4. CASE Sweeping \/ CallRemaining \/ FinalizersDone \/ Return
  BY <1>4 DEF Sweeping, EnterSweep, SweepStep, SweepList, SweepNext, SweepEnd, SweepToLive, SweptToLive, collectorVars,
    CallRemaining, FinalizersDone, Return
<1>5. CASE Program
  BY <1>5 DEF Program, New, SetTable, GetTable, Pop, SetUservalue, SetMode, CheckFinalizer, FullGc, Raise, collectorVars
<1> QED BY <1>1, <1>2, <1>3, <1>4, <1>5, Zenon DEF Next, Collector

(***************************************************************************)
(* IInv is inductive: whatever the program does between the steps of the   *)
(* collector and in finalizers.                                            *)
(***************************************************************************)
THEOREM GcInductive == Spec => []IInv
<1>0. GcAssumption
  BY GcAssumption
<1>1. Init => IInv
  BY <1>0, InitGood
<1>2. IInv /\ [Next]_gcVars => IInv'
  <2>1. ASSUME IInv, Next PROVE IInv'
    BY <1>0, <2>1, NextGood, OvertakenStep DEF IInv
  <2>2. ASSUME IInv, UNCHANGED gcVars PROVE IInv'
    <3>1. overtaken' = overtaken
      BY <2>2 DEF gcVars
    <3> QED BY <2>2, <3>1, StutterGood DEF IInv
  <2> QED BY <2>1, <2>2
<1> QED BY <1>1, <1>2, PTL DEF Spec

\* It implies the type invariant.
LEMMA GoodTypeOK ==
  ASSUME IInv
  PROVE  TypeOK
<1>1. SUFFICES ASSUME Types, Shape, Listed
      PROVE /\ \A l, m \in Lists : Distinct(list[l]) /\ (l # m => Elems(list[l]) \cap Elems(list[m]) = {})
            /\ UNION {Elems(list[l]) : l \in Lists} = {o \in Objs : mark[o] # Free}
            /\ \A o \in Objs : (Kind[o] # "table" => key[o] = 0 /\ mark[o] # Gray) /\ (Kind[o] = "string" => val[o] = 0)
  BY DEF IInv, Good, TypeOK
<1>2. \A l \in Lists : Elems(list[l]) \subseteq Objs
  BY <1>1 DEF Types, Elems
<1>3. UNION {Elems(list[l]) : l \in Lists} = {o \in Objs : mark[o] # Free}
  BY <1>1, <1>2 DEF Listed
<1> QED BY <1>1, <1>3 DEF Listed, Shape

\* What is live holds all that can be read.
LEMMA GoodReads ==
  ASSUME GcAssumption, IInv
  PROVE  NothingDangling
<1>1. SUFFICES ASSUME Types, References, NEW o \in Objs, CanRead(o) PROVE mark[o] # Free
  BY DEF IInv, Good, NothingDangling
<1> DEFINE T == {x \in Objs : Live(x)}
<1>2. roots \cup Elems(list.tobefnz) \subseteq T
  BY <1>1 DEF References, Live
<1>3. Readable(T) \subseteq T
  <2>1. \A x \in T : Kind[x] # "string" /\ val[x] # 0 => {key[x], val[x]} \ {0} \subseteq T
    BY <1>1 DEF References, Live
  <2> HIDE DEF T
  <2> QED BY <2>1 DEF Readable
<1>4. o \in T
  BY <1>1, <1>2, <1>3 DEF CanRead
<1> QED BY <1>1, <1>4 DEF Live, Types, Gray, Black, Free

\* Every object that is allocated is in one of allgc, finobj and tobefnz, once.
THEOREM GcTypes == Spec => []TypeOK
<1>1. IInv => TypeOK
  BY GoodTypeOK
<1> QED BY <1>1, GcInductive, PTL

(***************************************************************************)
(* What the program can read, from the stack, through weak references and  *)
(* in finalizers to come, has not been freed.                              *)
(***************************************************************************)
THEOREM NothingDangles == Spec => []NothingDangling
<1>1. IInv => NothingDangling
  BY GoodReads, GcAssumption
<1> QED BY <1>1, GcInductive, PTL

\* While the collector marks no black object refers to a white one (luaC_barrier_,
\* luaC_barrierback_).
THEOREM BlackSeesNoWhite == Spec => []BlackToWhite
<1>1. IInv => BlackToWhite
  BY DEF IInv, Good, BlackToWhite, Colours, MarkingNow, BlackDone, NotWhite
<1> QED BY <1>1, GcInductive, PTL

\* Between two steps every gray table is in exactly one list of gray objects.
THEOREM GrayIsListed == Spec => []GrayListed
<1>1. IInv => GrayListed
  <2>1. SUFFICES ASSUME IInv, ~overtaken, KeepInvariant, pc # "atomic", NEW o \in Objs, mark[o] = Gray
                 PROVE  \E l \in GrayLists : o \in linked[l] /\ \A m \in GrayLists \ {l} : o \notin linked[m]
    BY DEF GrayListed
  <2>2. /\ linked["weak"] = {} /\ linked["ephemeron"] = {}
        /\ o \in linked["gray"] \cup linked["grayagain"] \cup linked["allweak"]
        /\ linked["gray"] \cap linked["allweak"] = {} /\ linked["grayagain"] \cap linked["allweak"] = {}
        /\ linked["gray"] \cap linked["grayagain"] \subseteq {Main}
    BY <2>1 DEF IInv, Good, GrayOnce
  <2>3. o # Main
    BY GcAssumption, <2>1 DEF GcAssumption, Main
  <2> QED BY <2>2, <2>3 DEF GrayLists
<1> QED BY <1>1, GcInductive, PTL

\* After the sweep and before the marking all objects are of the current white.
THEOREM WhitesReturn == Spec => []WhiteAgain
<1>1. IInv => WhiteAgain
  BY DEF IInv, Good, WhiteAgain, AllWhiteAgain, Whites
<1> QED BY <1>1, GcInductive, PTL

\* These together: how the collector keeps the heap.
THEOREM HeapKept == Spec => []MarksHold
<1>1. TypeOK /\ BlackToWhite /\ GrayListed /\ WhiteAgain => MarksHold
  BY DEF MarksHold
<1> QED BY <1>1, GcTypes, BlackSeesNoWhite, GrayIsListed, WhitesReturn, PTL
-----------------------------------------------------------------------------
(***************************************************************************)
(* For OnlyLost: the lists of weak tables agree with the modes, as long as *)
(* no table stops being weak in both ways (of which the reference manual   *)
(* of Lua says that it may take effect in the next cycle only).            *)
(***************************************************************************)
StaysWeak == \A c \in ModeChanges : c[1] = "kv" => c[2] = "kv"

AllWeak == KeepInvariant /\ pc # "atomic" => \A t \in linked.allweak : mode[t] = "kv"
LoopWeak ==
  pc \in Loops =>
    /\ \A t \in linked.weak : mode[t] = "v"
    /\ \A t \in linked.ephemeron : mode[t] = "k"
    /\ \A t \in linked.allweak : mode[t] = "kv" \/ (mode[t] = "k" /\ (val[t] = 0 \/ NotWhite(val[t])))
    /\ pc \in {"converge", "changed"} => \A t \in rest : mode[t] = "k"
Final(o) == Kind[o] # "string"
Finals == (\A o \in Elems(list.finobj) : Final(o)) /\ (pc = "tolive" => Final(moved))
Modest == AllWeak /\ LoopWeak /\ Finals

\* Only objects that can have a finalizer are in finobj, or on their way to it.
LEMMA FinalsStep ==
  ASSUME GcAssumption, Static, Types', Finals, Next
  PROVE  Finals'
<1>0. /\ Types /\ Shape /\ Listed /\ Phases /\ Sweeps /\ Colours /\ AtomicPhase
      /\ Lists = {"allgc", "finobj", "tobefnz"} /\ list \in [Lists -> Seq(Objs)]
  BY DEF Static, Types, Lists
<1>1. CASE Elems(list'.finobj) \subseteq Elems(list.finobj) /\ (pc' = "tolive" => pc = "tolive" /\ moved' = moved)
  BY <1>1 DEF Finals, Final
<1>2. CASE Step \/ FullGc \/ StepGoesOn \/ FullGoesOn \/ Paused \/ EnterAtomic \/ NextEphemeron \/ ClearGone \/ ClearKeys \/ ClearNewer
         \/ Separate \/ Flip \/ SweepStep \/ SweepEnd \/ CallRemaining \/ FinalizersDone
  <2>1. UNCHANGED list
    BY <1>2, QuietSteps DEF Quiet
  <2>2. pc' # "tolive"
    BY <1>2 DEF Step, FullGc, StepGoesOn, FullGoesOn, Paused, Leave, EnterAtomic, NextEphemeron, ClearGone, ClearKeys, ClearNewer, Clear,
       Separate, Flip, SweepStep, SweepEnd, CallRemaining, FinalizersDone
  <2> QED BY <1>1, <2>1, <2>2
<1>3. CASE RestartCollection \/ PropagateOne \/ PropagateAll \/ Revisit \/ ClearEntry \/ Resurrect \/ GrayAgain \/ Converge
  <2>1. UNCHANGED list
    BY <1>3 DEF RestartCollection, PropagateOne, PropagateAll, Revisit, ClearEntry, Resurrect, GrayAgain, Converge, Pass
  <2>2. pc' # "tolive"
    BY <1>3 DEF RestartCollection, PropagateOne, PropagateAll, Revisit, ClearEntry, Resurrect, GrayAgain, Converge, Pass
  <2> QED BY <1>1, <2>1, <2>2
<1>4. CASE EnterSweep \/ SweepList \/ SweepToLive
  <2>1. Elems(list'.finobj) \subseteq Elems(list.finobj)
    BY <1>0, <1>4, SweepActionsKeep
  <2>2. pc' = "tolive" => pc = "tolive" /\ moved' = moved
    BY <1>4 DEF EnterSweep, SweepList, SweepToLive, loopVars
  <2> QED BY <1>1, <2>1, <2>2
<1>5. CASE SweepNext \/ Return \/ Raise \/ GetTable \/ Pop \/ SetMode
  <2>1. UNCHANGED <<list, moved>>
    BY <1>5, OtherSteps
  <2>2. pc' = "tolive" => pc = "tolive"
    BY <1>5 DEF SweepNext, Return, Raise, Leave, GetTable, Pop, SetMode
  <2> QED BY <1>1, <2>1, <2>2
<1>6. CASE SeparateOne
  <2>1. pc' # "tolive"
    BY <1>6 DEF SeparateOne
  <2>2. CASE UNCHANGED list
    BY <1>1, <2>1, <2>2
  <2>3. CASE ~UNCHANGED list
    <3>1. Moves(list.finobj[count], "finobj", "tobefnz")
      BY <1>0, <1>6, <2>3, SeparateFacts
    <3> QED BY <1>1, <2>1, <3>1 DEF Moves
  <2> QED BY <2>2, <2>3
<1>7. CASE SweptToLive
  <2>1. moved \in Elems(list.allgc) /\ ToFinobj(moved) /\ pc' = "program" /\ Final(moved)
    BY <1>0, <1>7 DEF SweptToLive, Phases, Moving, Finals
  <2>2. Moves(moved, "allgc", "finobj")
    BY <1>0, <2>1, FinobjFacts
  <2>3. Elems(list'.finobj) = Elems(list.finobj) \cup {moved}
    BY <2>2 DEF Moves
  <2> QED BY <2>1, <2>3 DEF Finals, Final
<1>8. CASE CallFinalizer
  <2>1. list'.finobj = list.finobj /\ pc' = "program"
    BY <1>0, <1>8, CallFacts DEF CallFinalizer
  <2> QED BY <1>1, <2>1
<1>9. CASE CheckFinalizer
  <2>1. PICK o \in roots \cap Elems(list.allgc) :
           /\ Kind[o] # "string"
           /\ \/ pc' = "tolive" /\ moved' = o /\ UNCHANGED list
              \/ ToFinobj(o) /\ UNCHANGED <<pc, moved>>
    BY <1>9 DEF CheckFinalizer
  <2>2. CASE pc' = "tolive" /\ moved' = o /\ UNCHANGED list
    BY <2>1, <2>2 DEF Finals, Final
  <2>3. CASE ToFinobj(o) /\ UNCHANGED <<pc, moved>>
    <3>1. Moves(o, "allgc", "finobj")
      BY <1>0, <2>1, <2>3, FinobjFacts
    <3>2. Elems(list'.finobj) = Elems(list.finobj) \cup {o}
      BY <3>1 DEF Moves
    <3> QED BY <2>1, <2>3, <3>2 DEF Finals, Final
  <2> QED BY <2>1, <2>2, <2>3
<1>10. CASE New
  <2>1. list'.finobj = list.finobj /\ pc' # "tolive"
    BY <1>0, <1>10 DEF New, Operation
  <2> QED BY <1>1, <2>1
<1>11. CASE SetTable \/ SetUservalue
  <2>1. UNCHANGED list /\ pc' # "tolive"
    BY <1>11 DEF SetTable, SetUservalue, Operation
  <2> QED BY <1>1, <2>1
<1> QED
  BY <1>2, <1>3, <1>4, <1>5, <1>6, <1>7, <1>8, <1>9, <1>10, <1>11
  DEF Next, Collector, Marking, Atomic, Sweeping, Program
-----------------------------------------------------------------------------
\* While the collector goes on from step to step, allweak holds tables that are weak in both ways.
LEMMA AllWeakStep ==
  ASSUME GcAssumption, StaysWeak, Static, Whites, GrayOnce, AllWeak, Types', Control', Next
  PROVE  AllWeak'
<1>1. SUFFICES ASSUME KeepInvariant', pc' # "atomic", NEW t \in linked'.allweak PROVE mode'[t] = "kv"
  BY DEF AllWeak
<1>0. Types /\ Shape /\ Listed /\ Control /\ Colours /\ Phases /\ linked \in [GrayLists -> SUBSET (Objs \cup {Main})]
      /\ Objs \subseteq Nat \ {0} /\ Main = -1 /\ mark \in [Objs -> Marks] /\ white \in {0, 1} /\ mode \in [Objs -> Modes]
      /\ Loops = {"atomic", "again", "converge", "changed", "values", "separate", "resurrect", "keys", "newer"}
  BY MarkTypes DEF Static, Phases, Types, GcAssumption, Main, Loops
<1>2. CASE RestartCollection
  BY <1>1, <1>2 DEF RestartCollection, GrayLists
<1>3. ~RestartCollection => MarkingNow /\ ~IsSweepPhase /\ ~EnterSweep /\ ~SweepList /\ ~SweepToLive /\ ~SweptToLive /\ ~SweepNext /\ ~Flip
  BY <1>1, MarkingNowStep DEF MarkingNow
<1>4. pc \notin Loops
  <2>1. SUFFICES ASSUME pc \in Loops PROVE FALSE
    OBVIOUS
  <2>2. PropagateAll \/ Atomic
    BY <2>1, LoopActions
  <2>3. gcstate = IF pc = "atomic" THEN "atomic" ELSE "insideatomic"
    BY <1>0, <2>1 DEF Control
  <2>4. CASE PropagateAll
    BY <1>1, <2>3, <2>4 DEF PropagateAll, KeepInvariant
  <2>5. CASE Atomic
    <3>1. pc = "atomic" => GrayAgain
      BY <2>5 DEF Atomic, GrayAgain, Converge, Revisit, NextEphemeron, ClearGone, ClearKeys, ClearNewer, ClearEntry,
        Separate, SeparateOne, Resurrect, Flip
    <3>2. GrayAgain => gcstate' = "insideatomic"
      BY DEF GrayAgain
    <3>3. ~GrayAgain => gcstate' = gcstate
      BY <2>5 DEF Atomic, Converge, Pass, Revisit, NextEphemeron, ClearGone, ClearKeys, ClearNewer, Clear, ClearEntry,
        Separate, SeparateOne, Resurrect, Flip
    <3> QED BY <1>1, <2>3, <3>1, <3>2, <3>3 DEF KeepInvariant
  <2> QED BY <2>2, <2>4, <2>5
<1>5. CASE ~RestartCollection
  <2>1. KeepInvariant /\ MarkingNow /\ pc # "atomic" /\ ~PropagateAll /\ ~Atomic
    BY <1>0, <1>3, <1>4, <1>5 DEF MarkingNow, PropagateAll, Atomic, GrayAgain, Converge, Pass, Revisit, NextEphemeron, ClearGone, ClearKeys,
      ClearNewer, ClearEntry, Separate, SeparateOne, Resurrect, Flip
  <2>2. \A o \in linked.allweak : mode[o] = "kv" /\ o \in Objs /\ mark[o] = Gray
    <3>1. \A o \in linked.allweak : mode[o] = "kv"
      BY <2>1 DEF AllWeak
    <3>2. ListsGray
      BY <1>0, <2>1 DEF Colours
    <3>3. \A o \in linked.allweak : o = Main \/ mark[o] = Gray
      BY <3>2 DEF ListsGray, GrayLists
    <3>4. Main \notin linked.allweak
      BY <3>2 DEF ListsGray
    <3>5. \A o \in linked.allweak : o \in Objs \cup {Main}
      BY <1>0 DEF GrayLists
    <3> QED BY <3>1, <3>3, <3>4, <3>5
  <2>3. CASE linked'.allweak = linked.allweak /\ UNCHANGED mode
    BY <1>1, <2>2, <2>3
  <2>4. CASE Step \/ FullGc \/ StepGoesOn \/ FullGoesOn \/ Paused \/ EnterAtomic \/ SweepStep \/ SweepEnd \/ CallRemaining \/ FinalizersDone
    BY <2>3, <2>4, QuietSteps DEF Quiet
  <2>5. CASE Return \/ Raise \/ GetTable \/ Pop
    BY <2>3, <2>5 DEF Return, Raise, GetTable, Pop
  <2>6. CASE CallFinalizer \/ CheckFinalizer
    BY <2>3, <2>6 DEF CallFinalizer, CheckFinalizer, heapVars
  <2>7. CASE New
    <3>1. PICK o \in Objs : mark[o] = Free /\ mode' = [mode EXCEPT ![o] = ""] /\ UNCHANGED linked
      BY <1>0, <2>7, NewFacts
    <3>2. t \in linked.allweak
      BY <1>1, <3>1, Zenon
    <3>3. t \in Objs /\ mode[t] = "kv" /\ mark[t] = Gray
      BY <2>2, <3>2
    <3>4. t # o
      <4>1. Gray # Free
        BY DEF Gray, Free
      <4> QED BY <3>1, <3>3, <4>1, Zenon
    <3> QED BY <1>0, <3>1, <3>3, <3>4
  <2>8. CASE SetTable
    <3>1. PICK o \in Objs : \/ UNCHANGED linked
                            \/ linked' = [linked EXCEPT !.grayagain = @ \cup {o}]
      BY <1>0, <2>8, TableFacts
    <3>2. linked'.allweak = linked.allweak
      BY <1>0, <3>1 DEF GrayLists
    <3>3. UNCHANGED mode
      BY <2>8 DEF SetTable
    <3> QED BY <2>3, <3>2, <3>3
  <2>9. CASE SetUservalue
    <3>1. PICK v \in roots \cup {0} : \/ UNCHANGED linked
                                      \/ linked' = [linked EXCEPT !.gray = @ \cup Grayed({v})]
      BY <1>0, <2>1, <2>9, UservalueFacts
    <3>2. linked'.allweak = linked.allweak
      BY <1>0, <3>1 DEF GrayLists
    <3>3. UNCHANGED mode
      BY <2>9 DEF SetUservalue
    <3> QED BY <2>3, <3>2, <3>3
  <2>10. CASE SetMode
    <3>1. PICK o \in roots, m \in Modes : <<mode[o], m>> \in ModeChanges /\ mode' = [mode EXCEPT ![o] = m]
      BY <2>10 DEF SetMode
    <3>2. UNCHANGED linked
      BY <2>10 DEF SetMode
    <3>3. t \in Objs /\ mode[t] = "kv"
      BY <1>1, <2>2, <3>2
    <3>4. t = o => m = "kv"
      BY <3>1, <3>3 DEF StaysWeak
    <3> QED BY <1>0, <3>1, <3>3, <3>4
  <2>11. CASE PropagateOne
    <3>1. PropagateMark /\ UNCHANGED mode /\ gcstate = "propagate"
      BY <2>11 DEF PropagateOne
    <3>2. CASE TraverseThread
      <4>1. linked'.allweak = linked.allweak
        BY <1>0, <3>2 DEF TraverseThread, GrayLists
      <4> QED BY <2>3, <3>1, <4>1
    <3>3. ASSUME NEW x \in Objs, mode[x] \in Modes, Traversed(x, mode[x], [linked EXCEPT !.gray = @ \ {x}]) PROVE mode'[t] = "kv"
      <4> DEFINE lists == [linked EXCEPT !.gray = @ \ {x}]
      <4>1. lists.allweak = linked.allweak
        BY <1>0 DEF GrayLists
      <4>2. "allweak" \in GrayLists
        BY DEF GrayLists
      <4>3. Traversed(x, mode[x], lists)
        BY <3>3
      <4> HIDE DEF lists
      <4>4. t \in lists.allweak \/ ("allweak" = Place(x, mode[x], mark') /\ t = x)
        BY <1>1, <4>2, <4>3, TraversedLists
      <4>5. "allweak" = Place(x, mode[x], mark') => mode[x] = "kv"
        BY <3>1, <3>3 DEF Place, Modes
      <4> QED BY <2>2, <3>1, <4>1, <4>4, <4>5
    <3> QED BY <1>0, <2>1, <3>1, <3>2, <3>3, PropagateFacts
  <2> QED
    BY <1>3, <1>5, <2>1, <2>4, <2>5, <2>6, <2>7, <2>8, <2>9, <2>10, <2>11
    DEF Next, Collector, Marking, Sweeping, Program
<1> QED BY <1>2, <1>5
-----------------------------------------------------------------------------
\* In the atomic phase a traversal puts a table into the list of its mode.
LEMMA VisitedWeak ==
  ASSUME GcAssumption, Static, pc \in Loops, gcstate # "propagate", LoopWeak, UNCHANGED mode,
         NEW t, NEW lists, Visited(t, mode[t], lists), pc' \in {"converge", "changed"} => pc \in {"converge", "changed"}
  PROVE  LoopWeak'
<1>0. /\ Types /\ t \in Objs /\ mode[t] \in Modes /\ Darkens /\ Traversed(t, mode[t], lists) /\ rest' \subseteq rest
      /\ UNCHANGED val /\ val \in [Objs -> Objs \cup {0}] /\ Main = -1 /\ ListsGray
      /\ linked \in [GrayLists -> SUBSET (Objs \cup {Main})]
  <2>1. Types /\ ListsGray
    BY DEF Static, Colours, MarkingNow
  <2>2. t \in Objs /\ mode[t] \in Modes /\ Darkens /\ Traversed(t, mode[t], lists) /\ rest' \subseteq rest /\ UNCHANGED val
    BY Zenon DEF Visited
  <2> QED BY <2>1, <2>2 DEF Types, Main
<1>1. /\ linked'.weak \subseteq linked.weak \cup {t} /\ linked'.allweak \subseteq linked.allweak \cup {t}
      /\ linked'.ephemeron \subseteq linked.ephemeron \cup {t}
  BY VisitedFacts
<1>2. \A l \in GrayLists : lists[l] \subseteq linked[l]
  <2>1. \A l \in GrayLists : lists[l] = IF l = "gray" THEN linked[l] \ {t} ELSE linked[l]
    BY Zenon DEF Visited
  <2> QED BY <2>1
<1>3. \A l \in GrayLists \ {"gray"} : t \in linked'[l] => t \in linked[l] \/ l = Place(t, mode[t], mark')
  <2>1. SUFFICES ASSUME NEW l \in GrayLists \ {"gray"}, t \in linked'[l] PROVE t \in linked[l] \/ l = Place(t, mode[t], mark')
    OBVIOUS
  <2> QED BY <1>0, <1>2, <2>1, TraversedLists
<1>4. {"weak", "allweak", "ephemeron"} \subseteq GrayLists \ {"gray"}
  BY DEF GrayLists
<1> DEFINE place == Place(t, mode[t], mark')
<1>5. /\ place = "weak" => mode[t] = "v"
      /\ place = "ephemeron" => mode[t] = "k"
      /\ place = "allweak" => mode[t] = "kv" \/ (mode[t] = "k" /\ NotWhite(val[t]))
  BY <1>0 DEF Place, Modes, NotWhite
<1>6. \A o \in Objs : NotWhite(val[o]) => NotWhite(val[o])'
  <2>1. SUFFICES ASSUME NEW o \in Objs, ~White(mark, val[o]) PROVE ~White(mark', val[o])
    BY <1>0 DEF NotWhite
  <2>2. val[o] \in Objs \cup {0}
    BY <1>0
  <2> QED BY <1>0, <2>1, <2>2, DarkensNotWhite
<1> HIDE DEF place
<1>7. /\ \A o \in linked.weak : mode[o] = "v"
      /\ \A o \in linked.ephemeron : mode[o] = "k"
      /\ \A o \in linked.allweak : mode[o] = "kv" \/ (mode[o] = "k" /\ (val[o] = 0 \/ NotWhite(val[o])))
      /\ pc \in {"converge", "changed"} => \A o \in rest : mode[o] = "k"
  BY DEF LoopWeak
<1>8. ASSUME NEW o \in linked'.weak PROVE mode'[o] = "v"
  BY <1>1, <1>3, <1>4, <1>5, <1>7, <1>8 DEF place
<1>9. ASSUME NEW o \in linked'.ephemeron PROVE mode'[o] = "k"
  BY <1>1, <1>3, <1>4, <1>5, <1>7, <1>9 DEF place
<1>10. ASSUME NEW o \in linked'.allweak PROVE mode'[o] = "kv" \/ (mode'[o] = "k" /\ (val'[o] = 0 \/ NotWhite(val[o])'))
  <2>1. o \in Objs
    <3>1. linked.allweak \subseteq Objs
      BY <1>0 DEF ListsGray, GrayLists
    <3> QED BY <1>0, <1>1, <1>10, <3>1
  <2>2. CASE o \in linked.allweak
    BY <1>0, <1>6, <1>7, <2>1, <2>2
  <2>3. CASE o \notin linked.allweak
    BY <1>0, <1>1, <1>3, <1>4, <1>5, <1>6, <1>10, <2>1, <2>3 DEF place
  <2> QED BY <2>2, <2>3
<1>11. pc' \in {"converge", "changed"} => \A o \in rest' : mode'[o] = "k"
  BY <1>0, <1>7
<1> QED BY <1>8, <1>9, <1>10, <1>11 DEF LoopWeak
-----------------------------------------------------------------------------
\* A turn of propagateall visits a table, or it traverses the thread.
LEMMA PropagateVisits ==
  ASSUME GcAssumption, Static, PropagateAll
  PROVE  \/ TraverseThread
         \/ \E t, lists : Visited(t, mode[t], lists)
<1>0. /\ Types /\ Shape /\ Phases /\ Colours /\ MarkingNow /\ Apart /\ LoopLists /\ pc \in Loops
      /\ rest \subseteq Objs /\ linked \in [GrayLists -> SUBSET (Objs \cup {Main})]
  BY DEF Static, AtomicPhase, MarkingNow, Types, PropagateAll, Loops
<1>1. /\ UNCHANGED <<val, roots, pc, rest, again, round, cleared>> /\ pc \in {"atomic", "again", "changed", "resurrect"} /\ PropagateMark
  BY DEF PropagateAll, loopVars
<1>2. ASSUME NEW t \in linked.gray \ {Main}, t \in Objs, mark[t] = Gray, mode[t] \in Modes, Darkens,
             Traversed(t, mode[t], [linked EXCEPT !.gray = @ \ {t}])
      PROVE  \E lists : Visited(t, mode[t], lists)
  <2> DEFINE lists == [linked EXCEPT !.gray = @ \ {t}]
  <2>1. \A l \in GrayLists : lists[l] = IF l = "gray" THEN linked[l] \ {t} ELSE linked[l]
    BY <1>0 DEF GrayLists
  <2>2. Traversed(t, mode[t], lists)
    BY <1>2
  <2> HIDE DEF lists
  <2>3. pc = "atomic" => t \notin linked.grayagain
    BY <1>0, <1>2 DEF Apart
  <2>4. pc \in {"converge", "changed"} => t \notin rest
    BY <1>0, <1>2 DEF Apart
  <2>5. Visited(t, mode[t], lists)
    BY <1>1, <1>2, <2>1, <2>2, <2>3, <2>4, Zenon DEF Visited
  <2> QED BY <2>5
<1> QED BY <1>0, <1>1, <1>2, PropagateFacts

\* A step of the atomic phase that only darkens marks, clears values, or leaves lists as they are.
LEMMA KeptWeak ==
  ASSUME Types, LoopWeak, pc \in Loops, Darkens \/ UNCHANGED mark, UNCHANGED mode,
         \A o \in Objs : val'[o] = val[o] \/ val'[o] = 0,
         linked'.weak = linked.weak, linked'.allweak = linked.allweak, linked'.allweak \subseteq Objs,
         \A o \in linked'.ephemeron : mode[o] = "k",
         pc' \in {"converge", "changed"} => \A o \in rest' : mode[o] = "k"
  PROVE  LoopWeak'
<1>0. val \in [Objs -> Objs \cup {0}]
  BY DEF Types
<1>1. ASSUME NEW o \in Objs, ~White(mark, val[o]), val'[o] # 0 PROVE ~White(mark', val'[o])
  <2>1. val[o] \in Objs \cup {0} /\ val'[o] = val[o]
    BY <1>0, <1>1
  <2>2. CASE Darkens
    BY <1>1, <2>1, <2>2, DarkensNotWhite
  <2>3. CASE UNCHANGED mark
    BY <1>1, <2>1, <2>3
  <2> QED BY <2>2, <2>3
<1>2. ASSUME NEW o \in linked'.allweak PROVE mode'[o] = "kv" \/ (mode'[o] = "k" /\ (val'[o] = 0 \/ NotWhite(val[o])'))
  <2>1. o \in Objs /\ o \in linked.allweak
    BY <1>2
  <2>2. mode[o] = "kv" \/ (mode[o] = "k" /\ (val[o] = 0 \/ NotWhite(val[o])))
    BY <2>1 DEF LoopWeak
  <2>3. val[o] = 0 => val'[o] = 0
    BY <2>1
  <2> QED BY <1>1, <2>1, <2>2, <2>3 DEF NotWhite
<1>3. \A o \in linked'.weak : mode'[o] = "v"
  BY DEF LoopWeak
<1> QED BY <1>2, <1>3 DEF LoopWeak

\* In the atomic phase the lists agree with the modes.
LEMMA LoopWeakStep ==
  ASSUME GcAssumption, Static, GrayOnce, AllWeak, LoopWeak, Types', Next
  PROVE  LoopWeak'
<1>1. CASE pc' \notin Loops
  BY <1>1 DEF LoopWeak
<1>2. CASE pc' \in Loops /\ pc \notin Loops
  <2>1. EnterAtomic
    BY <1>2, EntersLoops
  <2>2. pc = "single" /\ gcstate = "atomic" /\ pc' = "atomic" /\ UNCHANGED <<linked, mode>>
    BY <2>1 DEF EnterAtomic, heapVars
  <2>3. linked.weak = {} /\ linked.ephemeron = {} /\ \A o \in linked.allweak : mode[o] = "kv"
    BY <2>2 DEF GrayOnce, AllWeak, KeepInvariant
  <2> QED BY <2>2, <2>3 DEF LoopWeak
<1>3. ASSUME pc' \in Loops, pc \in Loops PROVE LoopWeak'
  <2>0. /\ Types /\ Shape /\ Colours /\ ListsGray /\ Phases /\ AtomicPhase /\ LoopLists /\ Apart /\ linked \in [GrayLists -> SUBSET (Objs \cup {Main})]
        /\ rest \subseteq Objs /\ val \in [Objs -> Objs \cup {0}]
    BY <1>3 DEF Static, Colours, MarkingNow, Types, AtomicPhase
  <2>1. PropagateAll \/ Atomic
    BY <1>3, LoopActions
  <2>2. ~Flip
    BY <1>3 DEF Flip, Loops
  <2>3. gcstate # "propagate"
    BY <1>3, <2>0 DEF Phases, Control
  <2>4. linked.allweak \subseteq Objs
    BY <2>0 DEF ListsGray, GrayLists
  <2>5. (\A o \in linked.ephemeron : mode[o] = "k") /\ (pc \in {"converge", "changed"} => \A o \in rest : mode[o] = "k")
    BY <1>3 DEF LoopWeak
  <2>6. CASE PropagateAll
    <3>1. UNCHANGED <<mode, val, pc, rest>>
      BY <2>6 DEF PropagateAll, loopVars
    <3>2. CASE TraverseThread
      <4>1. linked'.weak = linked.weak /\ linked'.allweak = linked.allweak /\ linked'.ephemeron = linked.ephemeron
        BY <2>0, <3>2 DEF TraverseThread, GrayLists
      <4>2. Darkens
        BY <2>0, <3>2, MarkDarkens DEF TraverseThread
      <4> QED BY <1>3, <2>0, <2>4, <2>5, <3>1, <4>1, <4>2, KeptWeak
    <3>3. ASSUME NEW t, NEW lists, Visited(t, mode[t], lists) PROVE LoopWeak'
      BY <1>3, <2>3, <3>1, <3>3, VisitedWeak
    <3> QED BY <2>6, <3>2, <3>3, PropagateVisits
  <2>7. CASE Revisit
    <3>1. PICK t \in rest : rest' = rest \ {t} /\ Traverse(t, "k", linked)
      BY <2>7 DEF Revisit
    <3>2. UNCHANGED <<val, roots, round, cleared, mode>> /\ pc = "converge" /\ pc' \in {"converge", "changed"}
      BY <2>7 DEF Revisit
    <3>3. t \in Objs /\ mark[t] = Gray /\ Kind[t] = "table" /\ t \notin linked.gray /\ mode[t] = "k"
      <4>1. linked.gray = {} /\ mark[t] = Gray
        BY <2>0, <3>1, <3>2 DEF LoopLists
      <4>2. mode[t] = "k" /\ t \in Objs
        BY <2>0, <2>5, <3>1, <3>2
      <4> QED BY <2>0, <4>1, <4>2 DEF Shape
    <3>4. Darkens /\ Traversed(t, "k", linked) /\ "k" \in Modes
      BY <2>0, <3>1, <3>3, TraverseFacts DEF Modes
    <3>5. \A l \in GrayLists : linked[l] = IF l = "gray" THEN linked[l] \ {t} ELSE linked[l]
      BY <3>3
    <3>6. Visited(t, "k", linked)
      <4>1. pc # "atomic" /\ pc' # "atomic" /\ pc \in {"converge", "changed"}
        BY <3>2
      <4>2. rest' \subseteq rest /\ rest \subseteq rest' \cup {t} /\ t \notin rest'
        BY <3>1
      <4> QED BY <3>2, <3>3, <3>4, <3>5, <4>1, <4>2, Zenon DEF Visited
    <3>7. Visited(t, mode[t], linked)
      BY <3>3, <3>6, Zenon
    <3> QED BY <1>3, <2>3, <3>2, <3>7, VisitedWeak
  <2>8. CASE GrayAgain
    <3>1. linked'.weak = linked.weak /\ linked'.allweak = linked.allweak /\ linked'.ephemeron = linked.ephemeron
      BY <2>0, <2>8 DEF GrayAgain, GrayLists
    <3>2. UNCHANGED <<mark, mode, val>> /\ pc' = "again"
      BY <2>8 DEF GrayAgain, heapVars
    <3> QED BY <1>3, <2>0, <2>4, <2>5, <3>1, <3>2, KeptWeak
  <2>9. CASE Converge
    <3>1. /\ rest' = linked.ephemeron /\ linked' = [linked EXCEPT !.ephemeron = {}]
          /\ UNCHANGED <<mark, mode, val>>
      BY <2>9 DEF Converge, Pass, heapVars
    <3>2. linked'.weak = linked.weak /\ linked'.allweak = linked.allweak /\ linked'.ephemeron = {}
      BY <2>0, <3>1 DEF GrayLists
    <3> QED BY <1>3, <2>0, <2>4, <2>5, <3>1, <3>2, KeptWeak
  <2>10. CASE NextEphemeron \/ ClearGone \/ ClearKeys \/ ClearNewer \/ Separate \/ SeparateOne
    <3>1. UNCHANGED <<mark, mode, val, linked>>
      BY <2>10 DEF NextEphemeron, ClearGone, ClearKeys, ClearNewer, Clear, Separate, SeparateOne, heapVars
    <3>2. pc' \in {"converge", "changed"} => pc = "changed" /\ rest' = rest
      BY <2>10 DEF NextEphemeron, ClearGone, ClearKeys, ClearNewer, Clear, Separate, SeparateOne, loopVars
    <3> QED BY <1>3, <2>0, <2>4, <2>5, <3>1, <3>2, KeptWeak
  <2>11. CASE ClearEntry
    <3>0. PICK t \in rest : \E x :
            /\ mark' = IF val[t] = 0 THEN mark ELSE ReallyMark(Strings({x}))
            /\ val' = [val EXCEPT ![t] = 0] \/ UNCHANGED val
      BY <2>11 DEF ClearEntry
    <3>1. PICK x :
            /\ mark' = IF val[t] = 0 THEN mark ELSE ReallyMark(Strings({x}))
            /\ val' = [val EXCEPT ![t] = 0] \/ UNCHANGED val
      BY <3>0
    <3>2. UNCHANGED <<mode, linked>> /\ pc' \notin {"converge", "changed"}
      BY <2>11 DEF ClearEntry
    <3>3. Darkens \/ UNCHANGED mark
      BY <2>0, <3>1, MarkDarkens
    <3>4. \A o \in Objs : val'[o] = val[o] \/ val'[o] = 0
      BY <2>0, <3>1
    <3> QED BY <1>3, <2>0, <2>4, <2>5, <3>2, <3>3, <3>4, KeptWeak
  <2>12. CASE Resurrect
    <3>1. UNCHANGED <<mode, val>> /\ mark' = ReallyMark(Elems(list.tobefnz)) /\ pc' = "resurrect"
          /\ linked' = [linked EXCEPT !.gray = @ \cup Grayed(Elems(list.tobefnz))]
      BY <2>12 DEF Resurrect, heapVars
    <3>2. linked'.weak = linked.weak /\ linked'.allweak = linked.allweak /\ linked'.ephemeron = linked.ephemeron
      BY <2>0, <3>1 DEF GrayLists
    <3>3. Darkens
      BY <2>0, <3>1, MarkDarkens
    <3> QED BY <1>3, <2>0, <2>4, <2>5, <3>1, <3>2, <3>3, KeptWeak
  <2> QED BY <2>1, <2>2, <2>6, <2>7, <2>8, <2>9, <2>10, <2>11, <2>12 DEF Atomic
<1> QED BY <1>1, <1>2, <1>3
-----------------------------------------------------------------------------
\* What is marked, with all strings.
Kept == {o \in Objs : mark[o] \in Marked \/ Kind[o] = "string"}

\* What the collector keeps is closed under strong references: all that can be
\* reached is kept.
LEMMA KeptClosed ==
  ASSUME GcAssumption, Static, References, LoopWeak, pc \in {"values", "separate", "keys", "newer"}
  PROVE  roots \subseteq Kept /\ Strong(Kept) \subseteq Kept
<1>0. /\ Types /\ Shape /\ StackDone /\ TablesCovered /\ LoopLists /\ Cleaned /\ BlackDone /\ ListsGray
      /\ Objs \subseteq Nat \ {0} /\ Kind \in [Objs -> Kinds] /\ pc \in Loops
      /\ roots \subseteq Objs /\ val \in [Objs -> Objs \cup {0}] /\ key \in [Objs -> Objs \cup {0}]
      /\ mark \in [Objs -> Marks] /\ mode \in [Objs -> Modes] /\ linked.gray = {}
  <2>1. pc \in Loops /\ MarkingNow
    BY DEF Loops, MarkingNow
  <2>2. LoopLists /\ linked.gray = {}
    BY <2>1 DEF Static, AtomicPhase, LoopLists
  <2> QED BY <2>1, <2>2, MarkTypes DEF Static, AtomicPhase, Colours, GcAssumption, Types
<1>1. \A o \in Objs : Live(o) /\ NotWhite(o) => mark[o] \in Marked
  BY <1>0 DEF Live, NotWhite, White, Marked, Types, Gray, Black
<1>2. \A o \in Objs : mark[o] \in Marked => Live(o) /\ ~White(mark, o)
  BY DEF Live, White, Marked, Gray, Black
<1>3. roots \subseteq Kept
  <2>1. \A o \in roots : NotWhite(o) /\ Live(o)
    BY <1>0 DEF StackDone, References
  <2> QED BY <1>0, <1>1, <2>1 DEF Kept
<1>4. \A o \in Objs : mark[o] \in Marked /\ val[o] # 0 => Live(val[o]) /\ (key[o] # 0 => Live(key[o]))
  BY <1>2 DEF References
<1>5. ASSUME NEW o \in Objs, mark[o] \in Marked, val[o] # 0
      PROVE /\ NotWhite(val[o]) => val[o] \in Kept
            /\ NotWhite(key[o]) /\ key[o] # 0 => key[o] \in Kept
  BY <1>0, <1>1, <1>4, <1>5 DEF Kept
<1>6. \A S : Strings(S) \cap Objs \subseteq Kept
  BY DEF Strings, Kept
<1> DEFINE Refs(o) == IF Kind[o] = "string" \/ val[o] = 0 THEN {}
                      ELSE IF Kind[o] = "udata" THEN {val[o]}
                      ELSE CASE mode[o] = ""   -> {key[o], val[o]} \ {0}
                             [] mode[o] = "v"  -> ({key[o]} \ {0}) \cup Strings({key[o], val[o]})
                             [] mode[o] = "k"  -> IF key[o] \in Kept \cup {0} \cup Strings({key[o]}) THEN {val[o]} \cup Strings({key[o]}) ELSE Strings({val[o]})
                             [] mode[o] = "kv" -> Strings({key[o], val[o]})
<1>7. ASSUME NEW o \in Kept, Kind[o] # "string", val[o] # 0 PROVE Refs(o) \subseteq Kept
  <2>1. o \in Objs /\ mark[o] \in Marked /\ val[o] \in Objs /\ key[o] \in Objs \cup {0} /\ mode[o] \in Modes /\ Kind[o] \in {"table", "udata"}
    BY <1>0, <1>7 DEF Kept, Kinds
  <2>2. Strings({key[o], val[o]}) \subseteq Kept /\ Strings({key[o]}) \subseteq Kept /\ Strings({val[o]}) \subseteq Kept
    BY <2>1 DEF Strings, Kept
  <2>3. CASE NotWhite(val[o]) /\ NotWhite(key[o])
    <3>1. val[o] \in Kept /\ (key[o] # 0 => key[o] \in Kept)
      BY <1>5, <1>7, <2>1, <2>3
    <3> QED BY <2>1, <2>2, <3>1 DEF Modes
  <2>4. CASE mark[o] = Black
    BY <1>0, <1>7, <2>1, <2>3, <2>4 DEF BlackDone
  <2>5. CASE mark[o] = Gray /\ ~(NotWhite(val[o]) /\ NotWhite(key[o]))
    <3>0. Kind[o] = "table"
      BY <1>0, <2>1, <2>5 DEF Shape
    <3>1. Covered(o)
      BY <1>0, <1>7, <2>1, <2>5 DEF TablesCovered
    <3>2. o \in linked.ephemeron \/ o \in linked.allweak \/ (o \in linked.weak /\ NotWhite(key[o]))
      BY <1>0, <2>5, <3>1 DEF Covered
    <3>3. CASE o \in linked.weak /\ NotWhite(key[o])
      <4>1. mode[o] = "v"
        BY <1>0, <3>3 DEF LoopWeak
      <4>2. key[o] # 0 => key[o] \in Kept
        BY <1>5, <1>7, <2>1, <3>3
      <4>3. Refs(o) = ({key[o]} \ {0}) \cup Strings({key[o], val[o]})
        BY <1>7, <3>0, <4>1
      <4> QED BY <2>2, <4>2, <4>3
    <3>4. CASE o \in linked.ephemeron
      <4>1. mode[o] = "k"
        BY <1>0, <3>4 DEF LoopWeak
      <4>2. Cleared(mark, key[o])
        BY <1>0, <1>7, <3>4 DEF Cleaned
      <4>3. key[o] \notin Kept /\ key[o] # 0 /\ key[o] \notin Strings({key[o]})
        BY <1>2, <2>1, <4>2 DEF Cleared, White, Strings, Kept
      <4>4. Refs(o) = Strings({val[o]})
        BY <1>7, <3>0, <4>1, <4>3
      <4> QED BY <2>2, <4>4
    <3>5. CASE o \in linked.allweak
      <4>1. mode[o] = "kv" \/ (mode[o] = "k" /\ NotWhite(val[o]))
        BY <1>0, <1>7, <3>5 DEF LoopWeak
      <4>2. CASE mode[o] = "kv"
        BY <1>7, <2>2, <3>0, <4>2
      <4>3. CASE mode[o] = "k" /\ NotWhite(val[o])
        <5>1. val[o] \in Kept
          BY <1>5, <1>7, <2>1, <4>3
        <5>2. Refs(o) \subseteq {val[o]} \cup Strings({key[o]}) \cup Strings({val[o]})
          BY <1>7, <3>0, <4>3
        <5> QED BY <2>2, <5>1, <5>2
      <4> QED BY <4>1, <4>2, <4>3
    <3> QED BY <3>2, <3>3, <3>4, <3>5
  <2> QED BY <2>1, <2>3, <2>4, <2>5 DEF Marked
<1>8. \A o \in Kept : Refs(o) \subseteq Kept
  BY <1>7
<1>9. Strong(Kept) = Kept \cup UNION {Refs(o) : o \in Kept}
  BY Zenon DEF Strong
<1> HIDE DEF Refs
<1> QED BY <1>3, <1>8, <1>9

\* What is white and no string cannot be reached.
LEMMA WhiteLost ==
  ASSUME GcAssumption, Static, References, LoopWeak, pc \in {"values", "separate", "keys", "newer"}, NEW o, Cleared(mark, o)
  PROVE  ~Reachable(o)
<1>1. roots \subseteq Kept /\ Strong(Kept) \subseteq Kept
  BY KeptClosed
<1>2. Kept \in SUBSET Objs
  BY DEF Kept
<1>3. o \notin Kept
  BY DEF Kept, Cleared, White, Marked, Gray, Black
<1> QED BY <1>1, <1>2, <1>3 DEF Reachable
-----------------------------------------------------------------------------
\* tobefnz changes at its ends only.
LEMMA DueStep ==
  ASSUME GcAssumption, Static, References, Next
  PROVE  \/ list'.tobefnz = list.tobefnz
         \/ /\ pc = "separate" /\ count \in 1..Len(list.finobj) /\ White(mark, list.finobj[count])
            /\ list'.tobefnz = Append(list.tobefnz, list.finobj[count])
         \/ list.tobefnz # <<>> /\ list'.tobefnz = Tail(list.tobefnz)
<1>0. /\ Types /\ Shape /\ Listed /\ Phases /\ Sweeps /\ Colours /\ AtomicPhase
      /\ Lists = {"allgc", "finobj", "tobefnz"} /\ list \in [Lists -> Seq(Objs)]
  BY DEF Static, Types, Lists
<1>1. CASE UNCHANGED list
  BY <1>1
<1>2. CASE Step \/ FullGc \/ StepGoesOn \/ FullGoesOn \/ Paused \/ EnterAtomic \/ NextEphemeron \/ ClearGone \/ ClearKeys \/ ClearNewer
         \/ Separate \/ Flip \/ SweepStep \/ SweepEnd \/ CallRemaining \/ FinalizersDone
  BY <1>1, <1>2, QuietSteps DEF Quiet
<1>3. CASE RestartCollection \/ PropagateOne \/ PropagateAll \/ Revisit \/ ClearEntry \/ Resurrect \/ GrayAgain \/ Converge
  BY <1>1, <1>3 DEF RestartCollection, PropagateOne, PropagateAll, Revisit, ClearEntry, Resurrect, GrayAgain, Converge, Pass
<1>4. CASE EnterSweep \/ SweepList \/ SweepToLive
  <2>1. ASSUME NEW p, NEW l, NEW k, SweepsTo(p, l, k) PROVE list'.tobefnz = list.tobefnz
    <3>1. l \in Lists /\ k \in 1..(Len(list[l]) + 1)
      BY <2>1 DEF SweepsTo
    <3>2. CASE UNCHANGED list
      BY <3>2
    <3>3. CASE k <= Len(list[l]) /\ mark[list[l][k]] = OtherWhite /\ list' = [list EXCEPT ![l] = Remove(@, k)]
      <4>1. CASE l = "tobefnz"
        <5>1. list.tobefnz \in Seq(Objs) /\ k \in 1..Len(list.tobefnz)
          BY <1>0, <3>1, <3>3, <4>1
        <5>2. list.tobefnz[k] \in Elems(list.tobefnz)
          BY <5>1 DEF Elems
        <5>3. Live(list.tobefnz[k])
          BY <5>2 DEF References
        <5> QED BY <1>0, <3>3, <4>1, <5>3 DEF Live, OtherWhite, Gray, Black, Types
      <4>2. CASE l # "tobefnz"
        BY <1>0, <3>1, <3>3, <4>2
      <4> QED BY <4>1, <4>2
    <3> QED BY <2>1, <3>2, <3>3, Zenon DEF SweepsTo
  <2> QED BY <1>0, <1>1, <1>4, <2>1, SweepActions
<1>5. CASE SweepNext \/ Return \/ Raise \/ GetTable \/ Pop \/ SetMode
  BY <1>1, <1>5, OtherSteps
<1>6. CASE SeparateOne
  <2>1. CASE ~UNCHANGED list
    BY <1>0, <1>6, <2>1, SeparateFacts DEF SeparateOne
  <2> QED BY <1>1, <2>1
<1>7. CASE SweptToLive
  <2>1. moved \in Elems(list.allgc) /\ ToFinobj(moved)
    BY <1>0, <1>7 DEF SweptToLive, Phases, Moving
  <2> QED BY <1>0, <2>1, FinobjFacts
<1>8. CASE CallFinalizer
  BY <1>0, <1>8, CallFacts
<1>9. CASE CheckFinalizer
  <2>1. PICK o \in roots \cap Elems(list.allgc) : UNCHANGED list \/ ToFinobj(o)
    BY <1>9 DEF CheckFinalizer
  <2> QED BY <1>0, <1>1, <2>1, FinobjFacts
<1>10. CASE New
  BY <1>0, <1>10 DEF New
<1>11. CASE SetTable \/ SetUservalue
  BY <1>1, <1>11 DEF SetTable, SetUservalue
<1> QED
  BY <1>2, <1>3, <1>4, <1>5, <1>6, <1>7, <1>8, <1>9, <1>10, <1>11
  DEF Next, Collector, Marking, Atomic, Sweeping, Program

\* A finalizer falls due only for what cannot be reached.
LEMMA LostStep ==
  ASSUME GcAssumption, Static, References, LoopWeak, Finals, Next
  PROVE  FinalizedWhenLost
<1>0. /\ Types /\ list \in [Lists -> Seq(Objs)] /\ list.tobefnz \in Seq(Objs) /\ list.finobj \in Seq(Objs)
  BY DEF Static, Types, Lists
<1>1. SUFFICES ASSUME NEW o \in Elems(list'.tobefnz), o \notin Elems(list.tobefnz) PROVE ~Reachable(o)
  BY DEF FinalizedWhenLost
<1>2. CASE list'.tobefnz = list.tobefnz
  BY <1>1, <1>2
<1>3. CASE list.tobefnz # <<>> /\ list'.tobefnz = Tail(list.tobefnz)
  <2>1. Elems(Tail(list.tobefnz)) \subseteq Elems(list.tobefnz)
    BY <1>0, <1>3, HeadTailProperties DEF Elems
  <2> QED BY <1>1, <1>3, <2>1
<1>4. CASE pc = "separate" /\ count \in 1..Len(list.finobj) /\ White(mark, list.finobj[count])
           /\ list'.tobefnz = Append(list.tobefnz, list.finobj[count])
  <2>1. list.finobj[count] \in Elems(list.finobj)
    BY <1>0, <1>4 DEF Elems
  <2>2. Kind[list.finobj[count]] # "string"
    BY <2>1 DEF Finals, Final
  <2>3. o = list.finobj[count]
    BY <1>0, <1>1, <1>4, AppendProperties DEF Elems
  <2>4. Cleared(mark, o)
    BY <1>4, <2>2, <2>3 DEF Cleared
  <2> QED BY <1>4, <2>4, WhiteLost
<1> QED BY <1>2, <1>3, <1>4, DueStep
-----------------------------------------------------------------------------
\* In what follows two lists without common elements, b and a cannot stand both ways.
LEMMA OneOrder ==
  ASSUME NEW s \in Seq(Objs), NEW f \in Seq(Objs), Distinct(s), Distinct(f), Elems(s) \cap Elems(f) = {}, NEW a, NEW b,
         Before(s \o f, a, b)
  PROVE  /\ ~Before(s, b, a)
         /\ ~(b \in Elems(s) /\ a \in Elems(f))
<1> DEFINE c == s \o f
<1>1. /\ c \in Seq(Objs) /\ Len(c) = Len(s) + Len(f) /\ Len(s) \in Nat /\ Len(f) \in Nat
      /\ DOMAIN c = 1..Len(c) /\ DOMAIN s = 1..Len(s) /\ DOMAIN f = 1..Len(f)
      /\ \A i \in 1..(Len(s) + Len(f)) : c[i] = IF i <= Len(s) THEN s[i] ELSE f[i - Len(s)]
  BY ConcatProperties, LenProperties
<1>2. Before(c, a, b)
  OBVIOUS
<1> HIDE DEF c
<1>3. PICK j \in 1..Len(c), k \in 1..Len(c) : j < k /\ c[j] = a /\ c[k] = b
  BY <1>1, <1>2 DEF Before
<1>4. \A x \in 1..Len(s), y \in 1..Len(f) : s[x] # f[y]
  BY <1>1 DEF Elems
<1>5. \A x, y \in 1..Len(s) : s[x] = s[y] => x = y
  BY <1>1 DEF Distinct
<1>6. \A x, y \in 1..Len(f) : f[x] = f[y] => x = y
  BY <1>1 DEF Distinct
<1>7. \A i \in 1..Len(c) : (i <= Len(s) /\ i \in 1..Len(s) /\ c[i] = s[i]) \/ (i > Len(s) /\ i - Len(s) \in 1..Len(f) /\ c[i] = f[i - Len(s)])
  BY <1>1
<1>8. ASSUME b \in Elems(s) PROVE k <= Len(s) /\ a = s[j] /\ b = s[k] /\ j \in 1..Len(s) /\ k \in 1..Len(s)
  <2>1. PICK x \in 1..Len(s) : b = s[x]
    BY <1>1, <1>8 DEF Elems
  <2>2. k <= Len(s)
    BY <1>3, <1>4, <1>7, <2>1
  <2>3. j <= Len(s)
    BY <1>1, <1>3, <2>2
  <2> QED BY <1>1, <1>3, <1>7, <2>2, <2>3
<1>9. ASSUME Before(s, b, a) PROVE FALSE
  <2>1. PICK x \in 1..Len(s), y \in 1..Len(s) : x < y /\ s[x] = b /\ s[y] = a
    BY <1>1, <1>9 DEF Before
  <2>2. b \in Elems(s)
    BY <1>1, <2>1 DEF Elems
  <2>3. j = y /\ k = x
    BY <1>5, <1>8, <2>1, <2>2
  <2> QED BY <1>1, <1>3, <2>1, <2>3
<1>10. ASSUME b \in Elems(s), a \in Elems(f) PROVE FALSE
  <2>1. a = s[j] /\ j \in 1..Len(s)
    BY <1>8, <1>10
  <2> QED BY <1>1, <1>4, <1>10, <2>1 DEF Elems
<1> QED BY <1>9, <1>10

\* Finalizers are called in the order of tobefnz, and fall due in that of finobj.
LEMMA OrderStep ==
  ASSUME GcAssumption, Static, References, Next
  PROVE  FinalizedInOrder
<1> DEFINE s == list.tobefnz
           f == list.finobj
           t == list'.tobefnz
<1>0. /\ s \in Seq(Objs) /\ f \in Seq(Objs) /\ Distinct(s) /\ Distinct(f) /\ Elems(s) \cap Elems(f) = {}
      /\ Len(s) \in Nat /\ DOMAIN s = 1..Len(s) /\ Len(f) \in Nat /\ DOMAIN f = 1..Len(f)
  BY LenProperties DEF Static, Listed, Types, Lists
<1>1. \/ t = s
      \/ count \in 1..Len(f) /\ t = Append(s, f[count])
      \/ s # <<>> /\ t = Tail(s)
  BY DueStep
<1>2. SUFFICES ASSUME NEW a \in Objs, NEW b \in Objs, Before(s \o f, a, b)
      PROVE /\ ~Before(t, b, a)
            /\ b \in Elems(s) \ Elems(t) => a \notin Elems(t)
  BY DEF FinalizedInOrder
<1> HIDE DEF s, f, t
<1>3. ~Before(s, b, a) /\ ~(b \in Elems(s) /\ a \in Elems(f))
  BY <1>0, <1>2, OneOrder
<1>4. CASE t = s
  BY <1>3, <1>4
<1>5. CASE count \in 1..Len(f) /\ t = Append(s, f[count])
  <2>1. /\ Len(t) = Len(s) + 1 /\ DOMAIN t = 1..Len(t) /\ t[Len(s) + 1] = f[count]
        /\ \A i \in 1..Len(s) : t[i] = s[i]
    <3>1. f[count] \in Objs
      BY <1>0, <1>5
    <3> QED BY <1>0, <1>5, <3>1, AppendProperties, LenProperties
  <2>2. Elems(s) \subseteq Elems(t)
    BY <1>0, <2>1 DEF Elems
  <2>3. ASSUME Before(t, b, a) PROVE FALSE
    <3>1. PICK j \in 1..Len(t), k \in 1..Len(t) : j < k /\ t[j] = b /\ t[k] = a
      BY <2>1, <2>3 DEF Before
    <3>2. j \in 1..Len(s) /\ s[j] = b
      BY <1>0, <2>1, <3>1
    <3>3. CASE k <= Len(s)
      <4>1. k \in 1..Len(s) /\ s[k] = a
        BY <1>0, <2>1, <3>1, <3>3
      <4> QED BY <1>0, <1>3, <3>1, <3>2, <4>1 DEF Before
    <3>4. CASE k > Len(s)
      <4>1. a = f[count]
        BY <1>0, <2>1, <3>1, <3>4
      <4> QED BY <1>0, <1>3, <1>5, <3>2, <4>1 DEF Elems
    <3> QED BY <1>0, <2>1, <3>1, <3>3, <3>4
  <2> QED BY <2>2, <2>3
<1>6. CASE s # <<>> /\ t = Tail(s)
  <2>1. /\ Len(t) = Len(s) - 1 /\ DOMAIN t = 1..Len(t) /\ Len(s) >= 1
        /\ \A i \in 1..Len(t) : i + 1 \in 1..Len(s) /\ t[i] = s[i + 1]
    <3>1. t \in Seq(Objs) /\ Len(t) = Len(s) - 1 /\ \A i \in 1..Len(t) : t[i] = s[i + 1]
      BY <1>0, <1>6, HeadTailProperties
    <3>2. Len(s) # 0
      BY <1>0, <1>6, EmptySeq
    <3> QED BY <1>0, <3>1, <3>2, LenProperties
  <2>2. ASSUME Before(t, b, a) PROVE FALSE
    <3>1. PICK j \in 1..Len(t), k \in 1..Len(t) : j < k /\ t[j] = b /\ t[k] = a
      BY <2>1, <2>2 DEF Before
    <3>2. j + 1 \in 1..Len(s) /\ k + 1 \in 1..Len(s) /\ j + 1 < k + 1 /\ s[j + 1] = b /\ s[k + 1] = a
      BY <2>1, <3>1
    <3> QED BY <1>0, <1>3, <3>2 DEF Before
  <2>3. ASSUME b \in Elems(s), b \notin Elems(t), a \in Elems(t) PROVE FALSE
    <3>1. PICK x \in 1..Len(s) : s[x] = b
      BY <1>0, <2>3 DEF Elems
    <3>2. PICK k \in 1..Len(t) : t[k] = a
      BY <2>1, <2>3 DEF Elems
    <3>3. x = 1
      <4>1. CASE x # 1
        <5>1. x - 1 \in 1..Len(t) /\ t[x - 1] = b
          BY <1>0, <2>1, <3>1, <4>1
        <5> QED BY <2>1, <2>3, <5>1 DEF Elems
      <4> QED BY <4>1
    <3>4. k + 1 \in 1..Len(s) /\ s[k + 1] = a /\ 1 < k + 1 /\ 1 \in 1..Len(s)
      BY <1>0, <2>1, <3>2
    <3> QED BY <1>0, <1>3, <3>1, <3>3, <3>4 DEF Before
  <2> QED BY <2>2, <2>3
<1> QED BY <1>1, <1>4, <1>5, <1>6
-----------------------------------------------------------------------------
\* Only clearvalues and clearkeys take values out of tables, other than the program.
LEMMA OnlyClears ==
  ASSUME Next, pc # "program", ~UNCHANGED val
  PROVE  ClearEntry
<1>1. CASE Step \/ FullGc \/ StepGoesOn \/ FullGoesOn \/ Paused \/ EnterAtomic \/ NextEphemeron \/ ClearGone \/ ClearKeys \/ ClearNewer
         \/ Separate \/ Flip \/ SweepStep \/ SweepEnd \/ CallRemaining \/ FinalizersDone
  BY <1>1, QuietSteps DEF Quiet
<1>2. CASE RestartCollection \/ PropagateOne \/ PropagateAll \/ Revisit \/ Resurrect \/ GrayAgain \/ Converge
  BY <1>2 DEF RestartCollection, PropagateOne, PropagateAll, Revisit, Resurrect, GrayAgain, Converge, Pass, heapVars
<1>3. CASE EnterSweep \/ SweepList \/ SweepToLive \/ SweepNext \/ SweptToLive \/ SeparateOne \/ CallFinalizer
  BY <1>3 DEF EnterSweep, SweepList, SweepToLive, SweepNext, SweptToLive, SeparateOne, CallFinalizer, heapVars
<1>4. CASE Return \/ Raise \/ GetTable \/ Pop \/ SetMode \/ CheckFinalizer \/ New \/ SetTable \/ SetUservalue
  BY <1>4 DEF Return, Raise, GetTable, Pop, SetMode, CheckFinalizer, New, SetTable, SetUservalue, Operation
<1> QED BY <1>1, <1>2, <1>3, <1>4 DEF Next, Collector, Marking, Atomic, Sweeping, Program

\* An entry is cleared because its weak value, or its weak key, cannot be reached.
LEMMA EntriesStep ==
  ASSUME GcAssumption, Static, References, LoopWeak, Next
  PROVE  EntriesKept
<1>1. SUFFICES ASSUME pc # "program", NEW t \in Objs, val[t] # 0, val'[t] = 0
      PROVE \/ mode[t] \in {"k", "kv"} /\ ~Reachable(key[t])
            \/ mode[t] \in {"v", "kv"} /\ ~Reachable(val[t])
  BY DEF EntriesKept
<1>2. ClearEntry
  <2>1. ~UNCHANGED val
    BY <1>1
  <2> QED BY <1>1, <2>1, OnlyClears
<1>3. PICK u \in rest :
        IF val[u] # 0 /\ Cleared(mark, IF pc = "keys" THEN key[u] ELSE val[u])
          THEN val' = [val EXCEPT ![u] = 0] /\ RemoveEntry(u) ELSE UNCHANGED <<key, val>>
  BY <1>2 DEF ClearEntry
<1>4. pc \in {"values", "keys", "newer"} /\ pc \in Loops
  BY <1>2 DEF ClearEntry, Loops
<1>5. Types /\ LoopLists /\ val \in [Objs -> Objs \cup {0}]
  BY <1>4 DEF Static, AtomicPhase, Types
<1>6. Cleared(mark, IF pc = "keys" THEN key[u] ELSE val[u]) /\ val' = [val EXCEPT ![u] = 0]
  BY <1>1, <1>3
<1>7. t = u
  BY <1>1, <1>5, <1>6
<1>8. /\ \A o \in linked.weak : mode[o] = "v"
      /\ \A o \in linked.ephemeron : mode[o] = "k"
      /\ \A o \in linked.allweak : mode[o] = "kv" \/ (mode[o] = "k" /\ (val[o] = 0 \/ NotWhite(val[o])))
  BY <1>4 DEF LoopWeak
<1>9. CASE pc = "keys"
  <2>1. t \in linked.ephemeron \cup linked.allweak
    BY <1>5, <1>7, <1>9 DEF LoopLists
  <2>2. mode[t] \in {"k", "kv"}
    BY <1>8, <2>1
  <2>3. ~Reachable(key[t])
    BY <1>4, <1>6, <1>7, <1>9, WhiteLost
  <2> QED BY <2>2, <2>3
<1>10. CASE pc \in {"values", "newer"}
  <2>1. t \in linked.weak \cup linked.allweak
    BY <1>5, <1>7, <1>10 DEF LoopLists
  <2>2. Cleared(mark, val[t])
    BY <1>6, <1>7, <1>10
  <2>3. ~NotWhite(val[t])
    BY <2>2 DEF Cleared, NotWhite
  <2>4. mode[t] \in {"v", "kv"}
    BY <1>1, <1>8, <2>1, <2>3
  <2>5. ~Reachable(val[t])
    BY <1>4, <2>2, WhiteLost
  <2> QED BY <2>4, <2>5
<1> QED BY <1>4, <1>9, <1>10

\* No table is weak, and no string has a finalizer, in the heap the program starts from.
LEMMA InitModest ==
  ASSUME GcAssumption, Init
  PROVE  Modest
<1>1. PICK h \in Heaps : StartFrom(h)
  BY DEF Init
<1>2. linked = [l \in GrayLists |-> {}] /\ gcstate = "pause" /\ pc = "program" /\ list.finobj = h.finobj
  BY <1>1 DEF StartFrom
<1>3. \A o \in Elems(h.finobj) : Kind[o] # "string"
  BY <1>1, Zenon DEF GcAssumption, WellFormed
<1> QED BY <1>2, <1>3 DEF Modest, AllWeak, LoopWeak, Finals, Final, KeepInvariant, Loops

\* It speaks of the variables of the specification only.
LEMMA StutterModest ==
  ASSUME Modest, UNCHANGED gcVars
  PROVE  Modest'
<1>1. UNCHANGED <<mark, mode, val, list, linked, gcstate, pc, rest, moved>>
  BY DEF gcVars
<1>2. AllWeak'
  BY <1>1 DEF Modest, AllWeak, KeepInvariant
<1>3. LoopWeak'
  BY <1>1 DEF Modest, LoopWeak, NotWhite, White
<1>4. Finals'
  BY <1>1 DEF Modest, Finals, Final
<1> QED BY <1>2, <1>3, <1>4 DEF Modest

ModestInv == ~overtaken => Modest
\* The lists of weak tables agree with the modes after every step.
LEMMA NextModest ==
  ASSUME GcAssumption, StaysWeak, IInv, IInv', ModestInv, [Next]_gcVars
  PROVE  ModestInv'
<1>1. ASSUME Next, ~overtaken' PROVE Modest'
  <2>1. ~overtaken /\ Good /\ Good' /\ Modest
    BY <1>1, OvertakenStep DEF IInv, ModestInv
  <2>2. Static /\ Whites /\ GrayOnce /\ Types' /\ Control'
    BY <2>1 DEF Good, Static, Phases
  <2> QED BY <1>1, <2>1, <2>2, FinalsStep, AllWeakStep, LoopWeakStep DEF Modest
<1>2. ASSUME UNCHANGED gcVars PROVE ModestInv'
  <2>1. overtaken' = overtaken
    BY <1>2 DEF gcVars
  <2> QED BY <1>2, <2>1, StutterModest DEF ModestInv
<1> QED BY <1>1, <1>2 DEF ModestInv

(***************************************************************************)
(* Finalizers fall due for what is lost and are called in order, and weak  *)
(* entries are cleared when their key or value is lost, where no table     *)
(* stops being weak in both ways.                                          *)
(***************************************************************************)
THEOREM OnlyTheLost ==
  ASSUME StaysWeak
  PROVE  Spec => OnlyLost
<1>0. GcAssumption
  BY GcAssumption
<1>1. Init => ModestInv
  BY <1>0, InitModest DEF ModestInv
<1>2. IInv /\ IInv' /\ ModestInv /\ [Next]_gcVars => ModestInv'
  BY <1>0, NextModest
<1>3. IInv /\ ModestInv /\ [Next]_gcVars => [~overtaken => FinalizedWhenLost /\ FinalizedInOrder /\ EntriesKept]_gcVars
  <2>1. SUFFICES ASSUME IInv, ModestInv, Next, ~overtaken PROVE FinalizedWhenLost /\ FinalizedInOrder /\ EntriesKept
    OBVIOUS
  <2>2. Static /\ References /\ LoopWeak /\ Finals
    BY <2>1 DEF IInv, Good, Static, ModestInv, Modest
  <2> QED BY <1>0, <2>1, <2>2, LostStep, OrderStep, EntriesStep
<1> QED BY <1>1, <1>2, <1>3, GcInductive, PTL DEF Spec, OnlyLost
=============================================================================
