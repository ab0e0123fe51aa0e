------------------------------- MODULE LuaGc -------------------------------
(***************************************************************************)
(* The incremental collector of the Lua interpreter (lua/lgc.c) under a    *)
(* program that goes on between its steps: marking with barriers, weak     *)
(* tables and ephemerons, resurrection and finalizers, the sweep that      *)
(* stops inside a list.  A step here is one turn of a loop of the code; a  *)
(* table has one hash node, a userdata one user value; 0 is nil (or a key  *)
(* that is no object).  The order of the lists of gray objects is not      *)
(* modelled, that of the lists that are swept is.                          *)
(***************************************************************************)
EXTENDS Integers, Sequences, FiniteSets

CONSTANTS
  Objs,         \* the objects there can be, positive numbers
  Kind,         \* Kind[o]: "table", "udata" or "string"
  Fresh,        \* those of them that the program may allocate
  Heaps,        \* heaps to start from: [mode, key, val, roots, allgc, finobj, ops]
  ModeChanges,  \* pairs of modes, what setmetatable may change
  SweepMax,     \* GCSWEEPMAX, elements swept in one step
  MaxFrames     \* calls of the collector inside of finalizers

Gray == 2
Black == 3
Free == 4
Marked == {Gray, Black}
Main == -1
Kinds == {"table", "udata", "string"}
Modes == {"", "k", "v", "kv"}
Lists == {"allgc", "finobj", "tobefnz"}
GrayLists == {"gray", "grayagain", "weak", "allweak", "ephemeron"}
Elems(s) == {s[k] : k \in DOMAIN s}
Distinct(s) == \A j, k \in DOMAIN s : s[j] = s[k] => j = k

\* A heap the program may have built before the first collection.
WellFormed(h) ==
  LET used == Elems(h.allgc) \cup Elems(h.finobj)
  IN  /\ h.mode \in [Objs -> Modes] /\ h.key \in [Objs -> Objs \cup {0}] /\ h.val \in [Objs -> Objs \cup {0}]
      /\ h.allgc \in Seq(Objs) /\ h.finobj \in Seq(Objs) /\ Distinct(h.allgc) /\ Distinct(h.finobj)
      /\ Elems(h.allgc) \cap Elems(h.finobj) = {} /\ h.roots \subseteq used /\ h.ops \in Nat
      /\ \A o \in used : {h.key[o], h.val[o]} \subseteq used \cup {0}
      /\ \A o \in Elems(h.finobj) : Kind[o] # "string"
      /\ \A o \in Objs : (Kind[o] # "table" => h.key[o] = 0) /\ (Kind[o] = "string" => h.val[o] = 0)

ASSUME GcAssumption ==
  /\ Objs \subseteq Nat \ {0} /\ Kind \in [Objs -> Kinds] /\ ModeChanges \subseteq Modes \X Modes
  /\ Fresh \subseteq Objs /\ SweepMax \in Nat \ {0} /\ MaxFrames \in Nat
  /\ \A h \in Heaps : WellFormed(h)

VARIABLES
  mark,       \* mark[o]: 0 or 1, the two whites, or Gray, Black, Free
  mode, key, val,
  roots,      \* the stack of the main thread
  list,       \* allgc, finobj and tobefnz
  linked,     \* gray, grayagain, weak, allweak and ephemeron
  gcstate, white, sweepgc, finnum, emergency,
  pc,         \* the loop of the collector that runs, or "program"
  frames,     \* its calls that have not returned, the innermost first
  rest, again, round, cleared, count, moved,  \* variables of the loops
  overtaken,  \* history: finalizers have got past the sweep
  ops         \* operations the program may still do

heapVars == <<mode, key, val, roots>>
loopVars == <<rest, again, round, cleared, count, moved>>
gcVars == <<mark, mode, key, val, roots, list, linked, gcstate, white, sweepgc, finnum, emergency, pc, frames,
            rest, again, round, cleared, count, moved, overtaken, ops>>

White(m, o) == o # 0 /\ m[o] \in {0, 1}
OtherWhite == 1 - white
IsSweepPhase == gcstate \in {"swpallgc", "swpfinobj", "swptobefnz", "swpend"}
KeepInvariant == gcstate \in {"propagate", "atomic"}
-----------------------------------------------------------------------------
\* Marking.  What reallymarkobject goes through from the white ones of a set:
\* the smallest set of white objects that holds them and user values.
Chain(S) ==
  LET whites == {o \in Objs : White(mark, o)}
      Closed(T) == (S \cap whites) \cup ({val[u] : u \in {x \in T : Kind[x] = "udata"}} \cap whites) \subseteq T
  IN  {o \in whites : \A T \in SUBSET whites : Closed(T) => o \in T}
ReallyMark(S) ==
  LET chain == Chain(S)
  IN  [o \in Objs |-> IF o \in chain THEN IF Kind[o] = "table" THEN Gray ELSE Black ELSE mark[o]]
Grayed(S) == {o \in Chain(S) : Kind[o] = "table"}

\* iscleared, but for its marking of strings.
Cleared(m, v) == White(m, v) /\ Kind[v] # "string"
Strings(S) == {v \in S \ {0} : Kind[v] = "string"}

\* What a traversal of table t as one of mode as marks.
Children(t, as) ==
  IF val[t] = 0 THEN {}
  ELSE CASE as = ""   -> {key[t], val[t]}
         [] as = "v"  -> {key[t]} \cup Strings({val[t]})
         [] as = "k"  -> IF Cleared(mark, key[t]) THEN {} ELSE {key[t], val[t]}
         [] as = "kv" -> {}

\* The list into which it then goes, where m is what has been marked.
Place(t, as, m) ==
  CASE as = "" -> "none"
    [] as = "kv" -> "allweak"
    [] as \in {"v", "k"} /\ gcstate = "propagate" -> "grayagain"
    [] as = "v" /\ gcstate # "propagate" -> IF val[t] # 0 /\ Cleared(m, val[t]) THEN "weak" ELSE "none"
    [] as = "k" /\ gcstate # "propagate" ->
         IF val[t] = 0 \/ ~Cleared(mark, key[t]) THEN "none" ELSE IF White(mark, val[t]) THEN "ephemeron" ELSE "allweak"

\* linkgclist.
Link(lists, l, t) == IF l = "none" THEN lists ELSE [lists EXCEPT ![l] = @ \cup {t}]

\* removeentry.
RemoveEntry(t) == key' = IF White(mark, key[t]) THEN [key EXCEPT ![t] = 0] ELSE key

\* traverseweakvalue, traverseephemeron, traversestrongtable.
Traverse(t, as, lists) ==
  /\ mark' = [ReallyMark(Children(t, as)) EXCEPT ![t] = IF as = "" THEN Black ELSE Gray]
  /\ linked' = Link([lists EXCEPT !.gray = @ \cup Grayed(Children(t, as))], Place(t, as, mark'), t)
  /\ IF val[t] = 0 /\ as # "kv" THEN RemoveEntry(t) ELSE UNCHANGED key

\* A thread stays gray and is traversed again in the atomic phase.
TraverseThread ==
  /\ mark' = ReallyMark(roots)
  /\ linked' = [linked EXCEPT !.gray = (@ \ {Main}) \cup Grayed(roots), !.grayagain = @ \cup {Main}]
  /\ UNCHANGED key

PropagateMark ==
  \E o \in linked.gray :
    IF o = Main THEN TraverseThread ELSE Traverse(o, mode[o], [linked EXCEPT !.gray = @ \ {o}])

-----------------------------------------------------------------------------
\* The control of the collector.  A frame is a call of luaC_step, or one of
\* luaC_fullgc that still finishes a cycle or has started its own; i counts
\* the finalizers of runafewfinalizers, last says that luaC_step ends with them.
Frame(call) == [call |-> call, last |-> FALSE, i |-> 0, obj |-> 0]
Call(call) == frames' = <<Frame(call)>> \o frames
Top == Head(frames)
SetTop(f) == frames' = <<f>> \o Tail(frames)
Leave == frames' = Tail(frames) /\ pc' = "program"

\* luaC_step, when the program allocates; in a finalizer, during which the
\* collector does not run by itself, only for collectgarbage("step").
Step ==
  /\ pc = "program" /\ Len(frames) < MaxFrames
  /\ IF frames = <<>> THEN UNCHANGED ops ELSE ops > 0 /\ ops' = ops - 1
  /\ Call("step") /\ pc' = "single"
  /\ UNCHANGED <<mark, heapVars, list, linked, gcstate, white, sweepgc, finnum, emergency, loopVars, overtaken>>

\* luaC_fullgc; an emergency may come with any allocation.
FullGc ==
  /\ pc = "program" /\ ops > 0 /\ ops' = ops - 1 /\ Len(frames) < MaxFrames
  /\ emergency' \in BOOLEAN
  /\ Call("finish") /\ pc' = IF KeepInvariant THEN "enter" ELSE "check"
  /\ UNCHANGED <<mark, heapVars, list, linked, gcstate, white, sweepgc, finnum, loopVars, overtaken>>

\* The conditions of the loops of luaC_step and luaC_runtilstate.
StepGoesOn ==
  /\ pc = "check" /\ Top.call = "step" /\ gcstate # "pause"
  /\ \/ pc' = "single" /\ UNCHANGED frames
     \/ pc' = "finalize" /\ SetTop([Top EXCEPT !.last = TRUE, !.i = 0])
  /\ UNCHANGED <<mark, heapVars, list, linked, gcstate, white, sweepgc, finnum, emergency, loopVars, overtaken, ops>>
FullGoesOn ==
  /\ pc = "check" /\ Top.call # "step" /\ pc' = "single"
  /\ IF gcstate = "pause" THEN Top.call = "finish" /\ SetTop(Frame("cycle")) ELSE UNCHANGED frames
  /\ UNCHANGED <<mark, heapVars, list, linked, gcstate, white, sweepgc, finnum, emergency, loopVars, overtaken, ops>>
Paused ==
  /\ pc = "check" /\ Top.call # "finish" /\ gcstate = "pause"
  /\ Leave /\ emergency' = FALSE
  /\ UNCHANGED <<mark, heapVars, list, linked, gcstate, white, sweepgc, finnum, loopVars, overtaken, ops>>

-----------------------------------------------------------------------------
\* singlestep.
RestartCollection ==
  /\ pc = "single" /\ gcstate = "pause" /\ gcstate' = "propagate" /\ pc' = "check"
  /\ mark' = ReallyMark(Elems(list.tobefnz))
  /\ linked' = [l \in GrayLists |-> IF l = "gray" THEN {Main} \cup Grayed(Elems(list.tobefnz)) ELSE {}]
  /\ UNCHANGED <<heapVars, list, white, sweepgc, finnum, emergency, frames, loopVars, overtaken, ops>>

PropagateOne ==
  /\ pc = "single" /\ gcstate = "propagate" /\ pc' = "check"
  /\ PropagateMark
  /\ gcstate' = IF linked'.gray = {} THEN "atomic" ELSE gcstate
  /\ UNCHANGED <<mode, val, roots, list, white, sweepgc, finnum, emergency, frames, loopVars, overtaken, ops>>

EnterAtomic ==
  /\ pc = "single" /\ gcstate = "atomic" /\ pc' = "atomic"
  /\ UNCHANGED <<mark, heapVars, list, linked, gcstate, white, sweepgc, finnum, emergency, frames, loopVars, overtaken, ops>>

\* propagateall, and where it leads in the atomic phase.
PropagateAll ==
  /\ pc \in {"atomic", "again", "changed", "resurrect"} /\ linked.gray # {}
  /\ PropagateMark
  /\ UNCHANGED <<mode, val, roots, list, gcstate, white, sweepgc, finnum, emergency, pc, frames, loopVars, overtaken, ops>>

\* Faulty: the objects that were turned gray again are not traversed.
GrayForgotten ==
  /\ pc = "atomic" /\ linked.gray = {} /\ pc' = "again" /\ gcstate' = "insideatomic"
  /\ UNCHANGED <<mark, heapVars, list, linked, white, sweepgc, finnum, emergency, frames, loopVars, overtaken, ops>>
\* The objects that were turned gray again.
GrayAgain ==
  /\ pc = "atomic" /\ linked.gray = {} /\ pc' = "again" /\ gcstate' = "insideatomic"
  /\ linked' = [linked EXCEPT !.gray = linked.grayagain]
  /\ UNCHANGED <<mark, heapVars, list, white, sweepgc, finnum, emergency, frames, loopVars, overtaken, ops>>

\* A pass of convergeephemerons over the list there is.
Pass(r) ==
  /\ rest' = linked.ephemeron /\ linked' = [linked EXCEPT !.ephemeron = {}] /\ again' = FALSE
  /\ round' = r /\ pc' = "converge"
  /\ UNCHANGED <<mark, heapVars, list, gcstate, white, sweepgc, finnum, emergency, frames, cleared, count, moved, overtaken, ops>>
Converge ==
  \/ pc = "again" /\ linked.gray = {} /\ Pass(1)
  \/ pc = "resurrect" /\ linked.gray = {} /\ Pass(2)
  \/ pc = "converge" /\ rest = {} /\ again /\ Pass(round)

\* traverseephemeron says whether it marked the value.
Revisit ==
  /\ pc = "converge"
  /\ \E t \in rest :
       /\ rest' = rest \ {t}
       /\ Traverse(t, "k", linked)
       /\ IF val[t] # 0 /\ ~Cleared(mark, key[t]) /\ White(mark, val[t]) /\ val[t] # key[t]
            THEN pc' = "changed" /\ again' = TRUE ELSE UNCHANGED <<pc, again>>
  /\ UNCHANGED <<mode, val, roots, list, gcstate, white, sweepgc, finnum, emergency, frames, round, cleared, count, moved, overtaken, ops>>
NextEphemeron ==
  /\ pc = "changed" /\ linked.gray = {} /\ pc' = "converge"
  /\ UNCHANGED <<mark, heapVars, list, linked, gcstate, white, sweepgc, finnum, emergency, frames, loopVars, overtaken, ops>>

\* The lists through which a loop of clearvalues or clearkeys goes next.
Clear(loop, tables) ==
  /\ pc' = loop /\ rest' = tables
  /\ UNCHANGED <<mark, heapVars, list, linked, gcstate, white, sweepgc, finnum, emergency, frames, again, round, count, moved, overtaken, ops>>
ClearGone == pc = "converge" /\ rest = {} /\ ~again /\ round = 1 /\ UNCHANGED cleared /\ Clear("values", linked.weak \cup linked.allweak)
ClearKeys == pc = "converge" /\ rest = {} /\ ~again /\ round = 2 /\ UNCHANGED cleared /\ Clear("keys", linked.ephemeron \cup linked.allweak)
ClearNewer == pc = "keys" /\ rest = {} /\ UNCHANGED cleared /\ Clear("newer", (linked.weak \cup linked.allweak) \ cleared)

\* The body of clearvalues, and of clearkeys.
ClearEntry ==
  /\ pc \in {"values", "keys", "newer"}
  /\ \E t \in rest : LET x == IF pc = "keys" THEN key[t] ELSE val[t] IN
       /\ rest' = rest \ {t}
       /\ mark' = IF val[t] = 0 THEN mark ELSE ReallyMark(Strings({x}))
       /\ IF val[t] # 0 /\ Cleared(mark, x) THEN val' = [val EXCEPT ![t] = 0] /\ RemoveEntry(t) ELSE UNCHANGED <<key, val>>
  /\ UNCHANGED <<mode, roots, list, linked, gcstate, white, sweepgc, finnum, emergency, pc, frames, again, round, cleared, count, moved, overtaken, ops>>

Remove(s, k) == SubSeq(s, 1, k - 1) \o SubSeq(s, k + 1, Len(s))

\* separatetobefnz(g, 0): unmarked objects with finalizers, in their order;
\* origweak and origall are what the values were cleared of.
Separate ==
  /\ pc = "values" /\ rest = {} /\ pc' = "separate" /\ count' = 1 /\ cleared' = linked.weak \cup linked.allweak
  /\ UNCHANGED <<mark, heapVars, list, linked, gcstate, white, sweepgc, finnum, emergency, frames, rest, again, round, moved, overtaken, ops>>
\* Faulty: they are put at the head of the list, the newest last.
SeparateFirst ==
  /\ pc = "separate" /\ count <= Len(list.finobj)
  /\ IF White(mark, list.finobj[count])
       THEN list' = [list EXCEPT !.finobj = Remove(@, count), !.tobefnz = <<list.finobj[count]>> \o @] /\ UNCHANGED count
       ELSE count' = count + 1 /\ UNCHANGED list
  /\ UNCHANGED <<mark, heapVars, linked, gcstate, white, sweepgc, finnum, emergency, pc, frames, rest, again, round, cleared, moved, overtaken, ops>>
SeparateOne ==
  /\ pc = "separate" /\ count <= Len(list.finobj)
  /\ IF White(mark, list.finobj[count])
       THEN list' = [list EXCEPT !.finobj = Remove(@, count), !.tobefnz = Append(@, list.finobj[count])] /\ UNCHANGED count
       ELSE count' = count + 1 /\ UNCHANGED list
  /\ UNCHANGED <<mark, heapVars, linked, gcstate, white, sweepgc, finnum, emergency, pc, frames, rest, again, round, cleared, moved, overtaken, ops>>
\* Faulty: gcfinnum stays 0.
FinnumForgotten ==
  /\ pc = "separate" /\ count > Len(list.finobj) /\ pc' = "resurrect"
  /\ mark' = ReallyMark(Elems(list.tobefnz))
  /\ linked' = [linked EXCEPT !.gray = @ \cup Grayed(Elems(list.tobefnz))]
  /\ UNCHANGED <<heapVars, list, gcstate, white, sweepgc, finnum, emergency, frames, loopVars, overtaken, ops>>
Resurrect ==
  /\ pc = "separate" /\ count > Len(list.finobj) /\ pc' = "resurrect" /\ finnum' = 1
  /\ mark' = ReallyMark(Elems(list.tobefnz))
  /\ linked' = [linked EXCEPT !.gray = @ \cup Grayed(Elems(list.tobefnz))]
  /\ UNCHANGED <<heapVars, list, gcstate, white, sweepgc, emergency, frames, loopVars, overtaken, ops>>

Flip ==
  /\ pc = "newer" /\ rest = {} /\ pc' = "enter" /\ white' = 1 - white
  /\ UNCHANGED <<mark, heapVars, list, linked, gcstate, sweepgc, finnum, emergency, frames, loopVars, overtaken, ops>>
-----------------------------------------------------------------------------
(***************************************************************************)
(* Sweeping.  sweepgc is a pointer to a next field: of the object at, or   *)
(* the head of a list where at is 0; it stays with its object when that    *)
(* moves to another list.                                                  *)
(***************************************************************************)
HeadOf(l) == [at |-> 0, list |-> l]
NullPtr == [at |-> -1, list |-> "none"]
ListAt(p) == IF p.at = 0 THEN p.list ELSE CHOOSE l \in Lists : p.at \in Elems(list[l])
Index(s, o) == CHOOSE k \in DOMAIN s : s[k] = o
Position(p) == IF p.at = 0 THEN 1 ELSE Index(list[ListAt(p)], p.at) + 1

\* One turn of sweeplist at place k of list l, to which p points.
SweepAt(p, l, k) ==
  IF k > Len(list[l]) THEN sweepgc' = NullPtr /\ UNCHANGED <<mark, list>>
  ELSE LET o == list[l][k]
           dead == mark[o] = OtherWhite
       IN  /\ mark' = [mark EXCEPT ![o] = IF dead THEN Free ELSE white]
           /\ list' = IF dead THEN [list EXCEPT ![l] = Remove(@, k)] ELSE list
           /\ sweepgc' = IF k = Len(list[l]) THEN NullPtr ELSE IF dead THEN p ELSE [at |-> o, list |-> l]
SweepOne(p) == SweepAt(p, ListAt(p), Position(p))

EnterSweep ==
  /\ pc = "enter" /\ pc' = "check" /\ gcstate' = "swpallgc"
  /\ SweepOne(HeadOf("allgc"))
  /\ UNCHANGED <<heapVars, linked, white, finnum, emergency, frames, loopVars, overtaken, ops>>

\* sweepstep: the list that is swept, or the next one.
NextState == [swpallgc |-> "swpfinobj", swpfinobj |-> "swptobefnz", swptobefnz |-> "swpend"]
NextList == [swpallgc |-> HeadOf("finobj"), swpfinobj |-> HeadOf("tobefnz"), swptobefnz |-> NullPtr]
SweepStep ==
  /\ pc = "single" /\ gcstate \in DOMAIN NextState /\ sweepgc # NullPtr
  /\ pc' = "sweep" /\ count' = SweepMax
  /\ UNCHANGED <<mark, heapVars, list, linked, gcstate, white, sweepgc, finnum, emergency, frames, rest, again, round, cleared, moved, overtaken, ops>>
SweepList ==
  /\ pc = "sweep" /\ sweepgc # NullPtr
  /\ IF count = 0 THEN pc' = "check" /\ UNCHANGED <<mark, list, sweepgc, count>>
     ELSE SweepOne(sweepgc) /\ count' = count - 1 /\ UNCHANGED pc
  /\ UNCHANGED <<heapVars, linked, gcstate, white, finnum, emergency, frames, rest, again, round, cleared, moved, overtaken, ops>>
SweepNext ==
  /\ pc \in {"single", "sweep"} /\ gcstate \in DOMAIN NextState /\ sweepgc = NullPtr
  /\ gcstate' = NextState[gcstate] /\ sweepgc' = NextList[gcstate] /\ pc' = "check"
  /\ UNCHANGED <<mark, heapVars, list, linked, white, finnum, emergency, frames, loopVars, overtaken, ops>>
SweepEnd ==
  /\ pc = "single" /\ gcstate = "swpend" /\ gcstate' = "callfin" /\ pc' = "check"
  /\ UNCHANGED <<mark, heapVars, list, linked, white, sweepgc, finnum, emergency, frames, loopVars, overtaken, ops>>

-----------------------------------------------------------------------------
(***************************************************************************)
(* Finalizers.  While one runs the program may do what it does elsewhere;  *)
(* its object may stay on the stack, as if the finalizer had stored it.    *)
(***************************************************************************)
CallRemaining ==
  /\ pc = "single" /\ gcstate = "callfin"
  /\ IF list.tobefnz # <<>> /\ ~emergency
       THEN pc' = "finalize" /\ SetTop([Top EXCEPT !.i = 0]) /\ UNCHANGED gcstate
       ELSE pc' = "check" /\ gcstate' = "pause" /\ UNCHANGED frames
  /\ UNCHANGED <<mark, heapVars, list, linked, white, sweepgc, finnum, emergency, loopVars, overtaken, ops>>

\* udata2finalize, and the call of the finalizer.
CallFinalizer ==
  /\ pc = "finalize" /\ list.tobefnz # <<>> /\ Top.i < finnum
  /\ LET o == Head(list.tobefnz) IN
       /\ list' = [list EXCEPT !.tobefnz = Tail(@), !.allgc = <<o>> \o @]
       /\ mark' = IF IsSweepPhase THEN [mark EXCEPT ![o] = white] ELSE mark
       /\ overtaken' = (overtaken \/ (IsSweepPhase /\ sweepgc.at = o))
       /\ roots' = roots \cup {o}
       /\ SetTop([Top EXCEPT !.i = @ + 1, !.obj = o]) /\ pc' = "program"
  /\ UNCHANGED <<mode, key, val, linked, gcstate, white, sweepgc, finnum, emergency, loopVars, ops>>
FinalizersDone ==
  /\ pc = "finalize" /\ (list.tobefnz = <<>> \/ Top.i >= finnum)
  /\ finnum' = IF list.tobefnz = <<>> THEN 0 ELSE 2 * finnum
  /\ IF Top.last THEN Leave ELSE pc' = "check" /\ UNCHANGED frames
  /\ UNCHANGED <<mark, heapVars, list, linked, gcstate, white, sweepgc, emergency, loopVars, overtaken, ops>>

\* A finalizer returns; or it raises, and the collector is left with its error.
Return ==
  /\ pc = "program" /\ frames # <<>> /\ pc' = "finalize"
  /\ roots' \in {roots, roots \ {Top.obj}}
  /\ UNCHANGED <<mark, mode, key, val, list, linked, gcstate, white, sweepgc, finnum, emergency, frames, loopVars, overtaken, ops>>
Raise ==
  /\ pc = "program" /\ frames # <<>> /\ Leave /\ ops > 0 /\ ops' = ops - 1
  /\ roots' \in {roots, roots \ {Top.obj}}
  /\ UNCHANGED <<mark, mode, key, val, list, linked, gcstate, white, sweepgc, finnum, emergency, loopVars, overtaken>>

-----------------------------------------------------------------------------
\* The program, with the barriers.
Operation == pc = "program" /\ ops > 0 /\ ops' = ops - 1
collectorVars == <<gcstate, white, finnum, emergency, frames, rest, again, round, cleared, count, overtaken>>

New ==
  /\ Operation
  /\ \E o \in Fresh :
       /\ mark[o] = Free /\ mark' = [mark EXCEPT ![o] = white]
       /\ list' = [list EXCEPT !.allgc = <<o>> \o @] /\ roots' = roots \cup {o}
       /\ mode' = [mode EXCEPT ![o] = ""] /\ key' = [key EXCEPT ![o] = 0] /\ val' = [val EXCEPT ![o] = 0]
  /\ UNCHANGED <<linked, sweepgc, pc, moved, collectorVars>>

\* luaC_barrierback of table t for the references in a set.
BarrierBack(t, S) ==
  IF mark[t] = Black /\ \E v \in S : White(mark, v)
    THEN mark' = [mark EXCEPT ![t] = Gray] /\ linked' = Link(linked, "grayagain", t)
    ELSE UNCHANGED <<mark, linked>>

\* t[k] = v, for a key that is there or a free node.
SetTable ==
  /\ Operation
  /\ \E t \in roots : Kind[t] = "table" /\ \E k \in roots \cup {0}, v \in roots \cup {0} :
       /\ val[t] = 0 \/ key[t] = k
       /\ IF val[t] = 0 /\ v # 0 THEN key' = [key EXCEPT ![t] = k] /\ BarrierBack(t, {k, v})
                                 ELSE UNCHANGED key /\ BarrierBack(t, {v})
       /\ val' = [val EXCEPT ![t] = v]
  /\ UNCHANGED <<mode, roots, list, sweepgc, pc, moved, collectorVars>>
GetTable ==
  /\ Operation
  /\ \E t \in roots : val[t] # 0 /\ \E x \in {key[t], val[t]} \ {0} : roots' = roots \cup {x}
  /\ UNCHANGED <<mark, mode, key, val, list, linked, sweepgc, pc, moved, collectorVars>>
Pop ==
  /\ Operation
  /\ \E o \in roots : roots' = roots \ {o}
  /\ UNCHANGED <<mark, mode, key, val, list, linked, sweepgc, pc, moved, collectorVars>>

\* Faulty: a barrier that does nothing while the collector propagates.
NoBarrier(o, v) ==
  IF mark[o] # Black \/ ~White(mark, v) \/ KeepInvariant THEN UNCHANGED <<mark, linked>>
  ELSE mark' = [mark EXCEPT ![o] = white] /\ UNCHANGED linked
\* luaC_barrier of object o for v.
Barrier(o, v) ==
  IF mark[o] # Black \/ ~White(mark, v) THEN UNCHANGED <<mark, linked>>
  ELSE IF KeepInvariant THEN mark' = ReallyMark({v}) /\ linked' = [linked EXCEPT !.gray = @ \cup Grayed({v})]
  ELSE mark' = [mark EXCEPT ![o] = white] /\ UNCHANGED linked
SetUservalue ==
  /\ Operation
  /\ \E u \in roots : Kind[u] = "udata" /\ \E v \in roots \cup {0} : Barrier(u, v) /\ val' = [val EXCEPT ![u] = v]
  /\ UNCHANGED <<mode, key, roots, list, sweepgc, pc, moved, collectorVars>>

\* setmetatable with another __mode, and with a __gc.
SetMode ==
  /\ Operation
  /\ \E t \in roots, m \in Modes : Kind[t] = "table" /\ <<mode[t], m>> \in ModeChanges /\ mode' = [mode EXCEPT ![t] = m]
  /\ UNCHANGED <<mark, key, val, roots, list, linked, sweepgc, pc, moved, collectorVars>>

ToFinobj(o) == list' = [list EXCEPT !.allgc = Remove(@, Index(@, o)), !.finobj = <<o>> \o @]
\* luaC_checkfinalizer: sweepgc must not be on the object that moves.
CheckFinalizer ==
  /\ Operation
  /\ \E o \in roots \cap Elems(list.allgc) :
       /\ Kind[o] # "string"
       /\ mark' = IF IsSweepPhase THEN [mark EXCEPT ![o] = white] ELSE mark
       /\ IF IsSweepPhase /\ sweepgc.at = o THEN pc' = "tolive" /\ moved' = o /\ UNCHANGED list
                                            ELSE ToFinobj(o) /\ UNCHANGED <<pc, moved>>
  /\ UNCHANGED <<heapVars, linked, sweepgc, collectorVars>>
\* sweeptolive.
SweepToLive ==
  /\ pc = "tolive" /\ sweepgc.at = moved /\ SweepOne(sweepgc)
  /\ UNCHANGED <<heapVars, linked, pc, moved, collectorVars, ops>>
SweptToLive ==
  /\ pc = "tolive" /\ sweepgc.at # moved /\ ToFinobj(moved) /\ pc' = "program" /\ moved' = 0
  /\ UNCHANGED <<mark, heapVars, linked, sweepgc, collectorVars, ops>>

-----------------------------------------------------------------------------
StartFrom(h) ==
  /\ mode = h.mode /\ key = h.key /\ val = h.val /\ roots = h.roots /\ ops = h.ops
  /\ list = [allgc |-> h.allgc, finobj |-> h.finobj, tobefnz |-> <<>>]
  /\ mark = [o \in Objs |-> IF o \in Elems(h.allgc) \cup Elems(h.finobj) THEN 0 ELSE Free]
  /\ linked = [l \in GrayLists |-> {}]
  /\ gcstate = "pause" /\ white = 0 /\ sweepgc = NullPtr /\ finnum = 0 /\ emergency = FALSE
  /\ pc = "program" /\ frames = <<>> /\ overtaken = FALSE
  /\ rest = {} /\ again = FALSE /\ round = 1 /\ cleared = {} /\ count = 0 /\ moved = 0
Init == \E h \in Heaps : StartFrom(h)

Marking == RestartCollection \/ PropagateOne \/ EnterAtomic \/ PropagateAll
Atomic ==
  \/ GrayAgain \/ Converge \/ Revisit \/ NextEphemeron \/ ClearGone \/ ClearKeys \/ ClearNewer \/ ClearEntry
  \/ Separate \/ SeparateOne \/ Resurrect \/ Flip
Sweeping == EnterSweep \/ SweepStep \/ SweepList \/ SweepNext \/ SweepEnd \/ SweepToLive \/ SweptToLive
Collector ==
  StepGoesOn \/ FullGoesOn \/ Paused \/ Marking \/ Atomic \/ Sweeping \/ CallRemaining \/ CallFinalizer \/ FinalizersDone
Program == New \/ SetTable \/ GetTable \/ Pop \/ SetUservalue \/ SetMode \/ CheckFinalizer \/ FullGc \/ Raise

Next == Collector \/ Step \/ Return \/ Program
Spec == Init /\ [][Next]_gcVars
-----------------------------------------------------------------------------
Strong(S) ==
  S \cup UNION {IF Kind[o] = "string" \/ val[o] = 0 THEN {}
                ELSE IF Kind[o] = "udata" THEN {val[o]}
                ELSE CASE mode[o] = ""   -> {key[o], val[o]} \ {0}
                       [] mode[o] = "v"  -> ({key[o]} \ {0}) \cup Strings({key[o], val[o]})
                       [] mode[o] = "k"  -> IF key[o] \in S \cup {0} \cup Strings({key[o]}) THEN {val[o]} \cup Strings({key[o]}) ELSE Strings({val[o]})
                       [] mode[o] = "kv" -> Strings({key[o], val[o]}) : o \in S}
Readable(S) == S \cup UNION {IF Kind[o] = "string" \/ val[o] = 0 THEN {} ELSE {key[o], val[o]} \ {0} : o \in S}
\* In every set, hence in the smallest, that holds the stack and is closed.
Reachable(o) == \A T \in SUBSET Objs : roots \subseteq T /\ Strong(T) \subseteq T => o \in T
CanRead(o) == \A T \in SUBSET Objs : roots \cup Elems(list.tobefnz) \subseteq T /\ Readable(T) \subseteq T => o \in T

Loops == {"atomic", "again", "converge", "changed", "values", "separate", "resurrect", "keys", "newer"}
SweepStates == {"swpallgc", "swpfinobj", "swptobefnz"}
States == {"pause", "propagate", "atomic", "insideatomic", "swpend", "callfin"} \cup SweepStates
Calls == [call : {"step", "finish", "cycle"}, last : BOOLEAN, i : Nat, obj : Objs \cup {0}]
Pointers == [at : Objs \cup {0, -1}, list : Lists \cup {"none"}]

Types ==
  /\ mark \in [Objs -> {0, 1} \cup Marked \cup {Free}] /\ mode \in [Objs -> Modes]
  /\ key \in [Objs -> Objs \cup {0}] /\ val \in [Objs -> Objs \cup {0}] /\ roots \subseteq Objs
  /\ list \in [Lists -> Seq(Objs)] /\ linked \in [GrayLists -> SUBSET (Objs \cup {Main})]
  /\ gcstate \in States /\ white \in {0, 1} /\ sweepgc \in Pointers /\ finnum \in Nat /\ emergency \in BOOLEAN
  /\ pc \in Loops \cup {"program", "check", "single", "enter", "sweep", "finalize", "tolive"}
  /\ frames \in Seq(Calls) /\ (pc \notin {"program", "tolive"} => frames # <<>>)
  /\ rest \subseteq Objs /\ again \in BOOLEAN /\ round \in {1, 2} /\ cleared \subseteq Objs /\ count \in Nat
  /\ moved \in Objs \cup {0} /\ ops \in Nat

\* Every variable has its type; the lists hold what is allocated, each object
\* once; and only a table has keys or can be gray.
TypeOK ==
  ~overtaken =>
    /\ Types
    /\ \A l, m \in Lists : Distinct(list[l]) /\ (l # m => Elems(list[l]) \cap Elems(list[m]) = {})
    /\ UNION {Elems(list[l]) : l \in Lists} = {o \in Objs : mark[o] # Free}
    /\ \A o \in Objs : (Kind[o] # "table" => key[o] = 0 /\ mark[o] # Gray) /\ (Kind[o] = "string" => val[o] = 0)

(***************************************************************************)
(* Whatever the program can read, through weak tables and from finalizers  *)
(* too, has not been freed (the purpose of every barrier in lgc.c), unless *)
(* finalizers have got past the sweep.                                     *)
(***************************************************************************)
NothingDangling ==
  ~overtaken => \A o \in Objs : mark[o] = Free => ~CanRead(o)

(***************************************************************************)
(* "a black object can never point to a white one" while the collector     *)
(* marks (lgc.h, keepinvariant).                                           *)
(***************************************************************************)
BlackToWhite ==
  ~overtaken /\ KeepInvariant => \A o \in Objs : mark[o] = Black /\ Kind[o] # "string" /\ val[o] # 0 =>
    ~White(mark, val[o]) /\ ~White(mark, key[o])

(***************************************************************************)
(* "any gray object must be in a gray list" (lgc.h), and in one only: the  *)
(* lists are linked through one field of the object.                       *)
(***************************************************************************)
GrayListed ==
  ~overtaken /\ KeepInvariant /\ pc # "atomic" => \A o \in Objs : mark[o] = Gray =>
    \E l \in GrayLists : o \in linked[l] /\ \A m \in GrayLists \ {l} : o \notin linked[m]

(***************************************************************************)
(* "The invariant is restored when sweep ends and all objects are white    *)
(* again" (lgc.h:57-59).                                                   *)
(***************************************************************************)
AllWhiteAgain == gcstate \in {"pause", "callfin"} => \A o \in Objs : mark[o] \in {white, Free}
WhiteAgain == ~overtaken => AllWhiteAgain

(***************************************************************************)
(* The heap as the collector keeps it at any time.                         *)
(***************************************************************************)
MarksHold == TypeOK /\ BlackToWhite /\ GrayListed /\ WhiteAgain

Before(s, a, b) == \E j, k \in DOMAIN s : j < k /\ s[j] = a /\ s[k] = b

(***************************************************************************)
(* No finalizer falls due for an object the program can still reach        *)
(* without weak references (atomic, separatetobefnz); finalizers are       *)
(* called in the reverse of the order in which the objects got them        *)
(* (finobj grows at its head), those of an earlier cycle first; and an     *)
(* entry is taken out of a table only if its weak key or weak value is not *)
(* reachable otherwise, where the value of an ephemeron counts once its    *)
(* key does (convergeephemerons, clearkeys).                               *)
(***************************************************************************)
FinalizedWhenLost == \A o \in Elems(list'.tobefnz) \ Elems(list.tobefnz) : ~Reachable(o)
FinalizedInOrder ==
  \A a, b \in Objs : Before(list.tobefnz \o list.finobj, a, b) =>
    /\ ~Before(list'.tobefnz, b, a)
    /\ b \in Elems(list.tobefnz) \ Elems(list'.tobefnz) => a \notin Elems(list'.tobefnz)
EntriesKept ==
  pc # "program" => \A t \in Objs : val[t] # 0 /\ val'[t] = 0 =>
       \/ ~Reachable(t)
       \/ mode[t] \in {"k", "kv"} /\ ~Reachable(key[t])
       \/ mode[t] \in {"v", "kv"} /\ ~Reachable(val[t])
OnlyLost == [][~overtaken => FinalizedWhenLost /\ FinalizedInOrder /\ EntriesKept]_gcVars

(***************************************************************************)
(* What the program has lost is freed, or comes back through a finalizer.  *)
(***************************************************************************)
Garbage(o) == mark[o] # Free /\ ~Reachable(o)
=============================================================================
