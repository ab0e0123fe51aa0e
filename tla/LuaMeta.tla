------------------------------- MODULE LuaMeta -------------------------------
(***************************************************************************)
(* Metatables: the accesses and comparisons of lvm.c that try metamethods, *)
(* with the absence of a metamethod cached in the flags of the metatable   *)
(* (ltm.c), and the functions of the API and of the base library that      *)
(* write tables and metatables.  Values are numbers: nil is 0, a table its *)
(* number, and Fun a function.                                             *)
(***************************************************************************)
EXTENDS Integers, FiniteSets

CONSTANTS
  Tables,
  Plain,                    \* a value of a type that has one metatable for all
  Fun,
  Events,                   \* the keys a metatable is looked up with
  Contents,                    \* key -> table -> the values a script stores there
  Metas,                    \* value -> what a script makes its metatable
  Rank,                     \* the order the metamethods of scripts go by
  MaxTagLoop

VARIABLES fields, meta, flags
vars == <<fields, meta, flags>>

Keys == DOMAIN Contents
Objects == Tables \cup {Plain}

Access(kind, val, fl) == [kind |-> kind, val |-> val, fl |-> fl]
Found(val, fl) == Access("found", val, fl)
Called(o, fl) == Access("called", o, fl)
Error(fl) == Access("error", 0, fl)
-----------------------------------------------------------------------------
(* Metamethods.                                                            *)
Tm(tm, fl) == [tm |-> tm, fl |-> fl]
GetTm(mt, e, fl) == IF fields[mt][e] = 0 THEN Tm(0, [fl EXCEPT ![mt] = @ \cup {e}]) ELSE Tm(fields[mt][e], fl)
FastTm(mt, e, fl) == IF mt = 0 \/ (mt \in Tables /\ e \in fl[mt]) THEN Tm(0, fl) ELSE GetTm(mt, e, fl)
MetaOf(o) == IF o \in Objects THEN meta[o] ELSE 0
GetTmByObj(o, e) == IF MetaOf(o) = 0 THEN 0 ELSE fields[MetaOf(o)][e]

\* What a metamethod of a script answers about two values.
CallTm(e, p, q) == CASE e = "eq" -> Rank[p] = Rank[q] [] e = "lt" -> Rank[p] < Rank[q] [] e = "le" -> Rank[p] <= Rank[q]

\* Only a function can be called; the arguments go with the first tag method.
BinTm(p, q, e) == IF GetTmByObj(p, e) # 0 THEN GetTmByObj(p, e) ELSE GetTmByObj(q, e)
CallOrderTm(p, q, e) == IF BinTm(p, q, e) = 0 THEN "none" ELSE IF CallTm(e, p, q) THEN "true" ELSE "false"

LessThan(l, r) == IF CallOrderTm(l, r, "lt") = "none" THEN "error" ELSE CallOrderTm(l, r, "lt")

\* res of the metamethod, negated if "lt" was asked for "le": at once, or, if
\* the metamethod yielded, by luaV_finishOp.
Negated(res) == IF res = "true" THEN "false" ELSE "true"
FinishOp(leq, res) == IF leq THEN Negated(res) ELSE res
TryLt(l, r) == IF CallOrderTm(r, l, "lt") = "none" THEN "error" ELSE FinishOp(TRUE, CallOrderTm(r, l, "lt"))
LessEqual(l, r) == IF CallOrderTm(l, r, "le") = "none" THEN TryLt(l, r) ELSE FinishOp(FALSE, CallOrderTm(l, r, "le"))

SecondTm(r, q) == IF r.tm # 0 THEN r ELSE FastTm(meta[q], "eq", r.fl)
EqualTm(p, q, r) == [eq |-> r.tm # 0 /\ CallTm("eq", p, q), fl |-> r.fl]
EqualObj(p, q) ==
  IF p = q \/ ~(p \in Tables /\ q \in Tables) THEN [eq |-> p = q, fl |-> flags]
  ELSE EqualTm(p, q, SecondTm(FastTm(meta[p], "eq", flags), q))
-----------------------------------------------------------------------------
(* Access.                                                                 *)
IndexTm(o, e, fl) == IF o \in Tables THEN FastTm(meta[o], e, fl) ELSE Tm(GetTmByObj(o, e), fl)

RECURSIVE FinishGet(_, _, _, _)
\* The table, or what its metamethod is tried on.
GetOrNext(o, key, loop, r) ==
  IF r.tm = 0 THEN IF o \in Tables THEN Found(0, r.fl) ELSE Error(r.fl)
  ELSE IF r.tm = Fun THEN Called(o, r.fl)
  ELSE IF r.tm \in Tables /\ fields[r.tm][key] # 0 THEN Found(fields[r.tm][key], r.fl)
  ELSE FinishGet(r.tm, key, loop + 1, r.fl)
FinishGet(o, key, loop, fl) ==
  IF loop = MaxTagLoop THEN Error(fl) ELSE GetOrNext(o, key, loop, IndexTm(o, "index", fl))
GetTable(o, key) ==
  IF o \in Tables /\ fields[o][key] # 0 THEN Found(fields[o][key], flags) ELSE FinishGet(o, key, 0, flags)

\* Faulty: what was cached as absent stays so.
KeepTMcache(t, fl) == fl
InvalidateTMcache(t, fl) == [fl EXCEPT ![t] = {}]

RECURSIVE FinishSet(_, _, _, _)
SetOrNext(o, key, loop, r) ==
  IF r.tm = 0 THEN IF o \in Tables THEN Found(o, InvalidateTMcache(o, r.fl)) ELSE Error(r.fl)
  ELSE IF r.tm = Fun THEN Called(o, r.fl)
  ELSE IF r.tm \in Tables /\ fields[r.tm][key] # 0 THEN Found(r.tm, r.fl)
  ELSE FinishSet(r.tm, key, loop + 1, r.fl)
FinishSet(o, key, loop, fl) ==
  IF loop = MaxTagLoop THEN Error(fl) ELSE SetOrNext(o, key, loop, IndexTm(o, "newindex", fl))
\* The table in which the value is stored.
SetTable(o, key) ==
  IF o \in Tables /\ fields[o][key] # 0 THEN Found(o, flags) ELSE FinishSet(o, key, 0, flags)

Protected(o) == "metatable" \in Keys /\ GetTmByObj(o, "metatable") # 0
-----------------------------------------------------------------------------
Init ==
  /\ fields = [t \in Tables |-> [k \in Keys |-> 0]]
  /\ meta = [o \in Objects |-> 0]
  /\ flags = [t \in Tables |-> {}]

Store(t, key, val) == fields' = [fields EXCEPT ![t][key] = val]

RawSet(t, key, val) == val # fields[t][key] /\ Store(t, key, val) /\ flags' = InvalidateTMcache(t, flags) /\ UNCHANGED meta
Set(o, key, val) ==
  LET r == SetTable(o, key) IN
  /\ r.kind = "found" => val \in Contents[key][r.val]
  /\ IF r.kind = "found" THEN Store(r.val, key, val) ELSE UNCHANGED fields
  /\ flags' = r.fl
  /\ UNCHANGED meta
Get(o, key) == flags' = GetTable(o, key).fl /\ UNCHANGED <<fields, meta>>
Equal(p, q) == flags' = EqualObj(p, q).fl /\ UNCHANGED <<fields, meta>>
SetMetatable(t, mt) == ~Protected(t) /\ meta' = [meta EXCEPT ![t] = mt] /\ UNCHANGED <<fields, flags>>
SetTypeMetatable(mt) == meta' = [meta EXCEPT ![Plain] = mt] /\ UNCHANGED <<fields, flags>>

Next ==
  \/ \E t \in Tables, key \in Keys : \E val \in Contents[key][t] : RawSet(t, key, val)
  \/ \E o \in Objects, key \in Keys : \E val \in UNION {Contents[key][t] : t \in Tables} : Set(o, key, val)
  \/ \E o \in Objects, key \in Keys : Get(o, key)
  \/ \E p, q \in Tables : "eq" \in Events /\ Equal(p, q)
  \/ \E t \in Tables : \E mt \in Metas[t] : SetMetatable(t, mt)
  \/ \E mt \in Metas[Plain] : SetTypeMetatable(mt)

Spec == Init /\ [][Next]_vars
-----------------------------------------------------------------------------
(***************************************************************************)
(* No metatable that has a metamethod is cached as having none.            *)
(***************************************************************************)
AbsenceTrue == \A t \in Tables : \A e \in flags[t] : fields[t][e] = 0

\* Where an access gets by metamethods, without the flags: the values tried.
RECURSIVE Path(_, _, _, _)
Path(o, key, e, path) ==
  LET tm == GetTmByObj(o, e) IN
  IF (o \in Tables /\ fields[o][key] # 0) \/ tm \in {0, Fun} \/ Cardinality(path) > Cardinality(Objects)
  THEN [end |-> o, tm |-> tm, over |-> Cardinality(path) <= Cardinality(Objects)]
  ELSE Path(tm, key, e, path \cup {<<o, Cardinality(path)>>})
Holder(p, key) == p.end \in Tables /\ (fields[p.end][key] # 0 \/ p.tm = 0)
(***************************************************************************)
(* A value is read from, and written to, the first one of the chain of     *)
(* metatables that has the key, or else the last one; a function on the    *)
(* way is called instead, and a chain that has no end is an error.         *)
(***************************************************************************)
AccessMeant ==
  \A o \in Objects, key \in Keys :
    LET get == GetTable(o, key) set == SetTable(o, key)
        p == Path(o, key, "index", {}) q == Path(o, key, "newindex", {})
    IN  "index" \in Events =>
        /\ get.kind = (IF ~p.over THEN "error" ELSE IF Holder(p, key) THEN "found" ELSE IF p.tm = Fun THEN "called" ELSE "error")
        /\ get.kind = "found" => get.val = fields[p.end][key]
        /\ get.kind = "called" => get.val = p.end
        /\ set.kind = (IF ~q.over THEN "error" ELSE IF Holder(q, key) THEN "found" ELSE IF q.tm = Fun THEN "called" ELSE "error")
        /\ set.kind # "error" => set.val = q.end

HasTm(p, q, e) == GetTmByObj(p, e) # 0 \/ GetTmByObj(q, e) # 0
(***************************************************************************)
(* Comparisons follow the order of the metamethods, "le" by "lt" too if    *)
(* there is no other, of whichever operand has them.                       *)
(***************************************************************************)
OrderMeant ==
  {"eq", "lt", "le"} \subseteq Events =>
    \A p, q \in Tables :
      /\ EqualObj(p, q).eq = (p = q \/ (HasTm(p, q, "eq") /\ Rank[p] = Rank[q]))
      /\ LessThan(p, q) = (IF ~HasTm(p, q, "lt") THEN "error" ELSE IF Rank[p] < Rank[q] THEN "true" ELSE "false")
      /\ LessEqual(p, q) = (IF ~HasTm(p, q, "le") /\ ~HasTm(p, q, "lt") THEN "error" ELSE IF Rank[p] <= Rank[q] THEN "true" ELSE "false")
=============================================================================
