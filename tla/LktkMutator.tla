---------------------------- MODULE LktkMutator ----------------------------
(***************************************************************************)
(* tests/mutator.lua, which a script loads to have its system calls run    *)
(* with random arguments: the three kinds of arguments and the function it *)
(* puts in the place of syscall.  math.random is a choice.  A flag is the  *)
(* set of its bits, so that "|" is union.                                  *)
(***************************************************************************)
EXTENDS Integers, Sequences, FiniteSets, SequencesExt

CONSTANTS
  FlagSets,   \* the sequences of flags TypeFlags:new is given
  ChoiceSets,    \* the sequences of values TypeChoice:new is given
  Ranges,     \* the pairs <<min, max>> TypeInteger:new is given
  Arguments   \* kinds of the arguments a script passes to syscall

VARIABLES
  kind,    \* "flags", "choice", "integer" or "call"
  given,   \* what the object was made of, or the arguments of the call
  drawn    \* what random returned or the call did; "none" before

vars == <<kind, given, drawn>>

\* The table of combinations of one to six flags, by their number.
FlagCombinations6 ==
  <<<<{},{1}>>,
     <<{},{1},{2},{1,2}>>,
     <<{},{1},{2},{3},{1,2},{1,3},{2,3},{1,2,3}>>,
     <<{},{1},{2},{3},{4},{1,2},{1,3},{1,4},{2,3},{2,4},{3,4},{1,2,3},{1,2,4},{1,3,4},{2,3,4},{1,2,3,4}>>,
     <<{},{1},{2},{3},{4},{5},{1,2},{1,3},{1,4},{1,5},{2,3},{2,4},{2,5},{3,4},{3,5},{4,5},{1,2,3},{1,2,4},
       {1,2,5},{1,3,4},{1,3,5},{1,4,5},{2,3,4},{2,3,5},{2,4,5},{3,4,5},{1,2,3,4},{1,2,3,5},{1,2,4,5},
       {1,3,4,5},{2,3,4,5},{1,2,3,4,5}>>,
     <<{},{1},{2},{3},{4},{5},{6},{1,2},{1,3},{1,4},{1,5},{1,6},{2,3},{2,4},{2,5},{2,6},{3,4},{3,5},{3,6},
       {4,5},{4,6},{5,6},{1,2,3},{1,2,4},{1,2,5},{1,2,6},{1,3,4},{1,3,5},{1,3,6},{1,4,5},{1,4,6},{1,5,6},
       {2,3,4},{2,3,5},{2,3,6},{2,4,5},{2,4,6},{2,5,6},{3,4,5},{3,4,6},{3,5,6},{4,5,6},{1,2,3,4},{1,2,3,5},
       {1,2,3,6},{1,2,4,5},{1,2,4,6},{1,2,5,6},{1,3,4,5},{1,3,4,6},{1,3,5,6},{1,4,5,6},{2,3,4,5},{2,3,4,6},
       {2,3,5,6},{2,4,5,6},{3,4,5,6},{1,2,3,4,5},{1,2,3,4,6},{1,2,3,5,6},{1,2,4,5,6},{1,3,4,5,6},
       {2,3,4,5,6},{1,2,3,4,5,6}>>>>

Init ==
  /\ drawn = <<"none">>
  /\ \/ kind = "flags" /\ given \in FlagSets
     \/ kind = "choice" /\ given \in ChoiceSets
     \/ kind = "integer" /\ given \in Ranges
     \/ kind = "call" /\ given \in UNION {[1..n -> Arguments] : n \in 0..3}

Draw(result) == drawn = <<"none">> /\ drawn' = result /\ UNCHANGED <<kind, given>>

Combinations(n) == Range(FlagCombinations6[n])

Mask(set, combination) == UNION {set[k] : k \in combination}

\* TypeFlags:random; no flags at all: FlagCombinations6[0] is nil and raises.
RandomFlags ==
  /\ kind = "flags"
  /\ \/ Len(given) > 6 /\ Draw(<<"mask", {}>>)
     \/ Len(given) = 0 /\ Draw(<<"raised">>)
     \/ /\ Len(given) \in 1..6
        /\ \E combination \in Combinations(Len(given)) : Draw(<<"mask", Mask(given, combination)>>)

RandomChoice ==
  /\ kind = "choice"
  /\ \/ given = <<>> /\ Draw(<<"nil">>)
     \/ \E k \in 1..Len(given) : Draw(<<"value", given[k]>>)

RandomInteger ==
  /\ kind = "integer"
  /\ \/ given[1] > given[2] /\ Draw(<<"raised">>)
     \/ \E n \in given[1]..given[2] : Draw(<<"value", n>>)

\* x..args[i]: what the operator ".." takes, userdata set aside.
Concatenable == {"string", "number", "userdata"} \cap Arguments

\* The new syscall prints its arguments and those it would use, and returns 0.
Overloaded ==
  /\ kind = "call"
  /\ IF Range(given) \subseteq Concatenable THEN Draw(<<"returned">>) ELSE Draw(<<"raised">>)

Next == RandomFlags \/ RandomChoice \/ RandomInteger \/ Overloaded

Spec == Init /\ [][Next]_vars
-----------------------------------------------------------------------------
(***************************************************************************)
(* What TypeFlags:random returns is a combination of the flags given, and  *)
(* every combination of up to six can be drawn: the table holds each once. *)
(***************************************************************************)
FlagsDrawn ==
  kind = "flags" /\ Len(given) \in 1..6 =>
    /\ drawn # <<"none">> => \E S \in SUBSET (1..Len(given)) : drawn = <<"mask", UNION {given[k] : k \in S}>>
    /\ Combinations(Len(given)) = SUBSET (1..Len(given))

(***************************************************************************)
(* A system call of a script whose arguments include a structure (a Lua    *)
(* table) raises in the replacement; with numbers and strings it returns.  *)
(***************************************************************************)
TablesRaise ==
  kind = "call" /\ drawn # <<"none">> =>
    (drawn = <<"raised">>) = ("table" \in Range(given) \/ "nil" \in Range(given) \/ "boolean" \in Range(given))
=============================================================================
