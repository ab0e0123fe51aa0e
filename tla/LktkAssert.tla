----------------------------- MODULE LktkAssert -----------------------------
(***************************************************************************)
(* The four assertion functions kit/lktkassert.c puts into the globals of  *)
(* a test script.  A call sees the arguments on the Lua stack and the      *)
(* option kit.strict (-1 after --noassert, 1 after --assert, 0 otherwise). *)
(* What a call does to the process is its verdict: it is skipped, found to *)
(* have too few arguments, passes, or fails.  Only a failure is counted,   *)
(* and it alone can raise a Lua error.                                     *)
(***************************************************************************)
EXTENDS Integers, Sequences

AssertFunction == {"assert_true", "assert_eq", "assert_gt", "assert_ge"}

Verdicts == {"skipped", "malformed", "passed", "failed"}

(***************************************************************************)
(* A Lua value, as far as the assertions look at it: lua_toboolean reads   *)
(* its truth, lua_tointeger its integer.  lua_tointeger yields 0 for       *)
(* whatever is not an integer and has no conversion to one.                *)
(***************************************************************************)
Value(truth, int) == [truth |-> truth, int |-> int]

Nil == Value(FALSE, 0)
Integer(n) == Value(TRUE, n)
Opaque == Value(TRUE, 0)    \* a table, a function, a string that is no numeral

\* The arguments a function insists on; the message after them is optional.
Arity(fn) == IF fn = "assert_true" THEN 1 ELSE 2

\* The relation a function asserts of its arguments (actual, then expected).
Holds(fn, args) ==
  CASE fn = "assert_true" -> args[1].truth
    [] fn = "assert_eq"   -> args[1].int = args[2].int
    [] fn = "assert_gt"   -> args[1].int > args[2].int
    [] fn = "assert_ge"   -> args[1].int >= args[2].int

Verdict(strict, fn, args) ==
  CASE strict < 0            -> "skipped"
    [] strict >= 0 /\ Len(args) < Arity(fn) -> "malformed"
    [] OTHER -> IF Holds(fn, args) THEN "passed" ELSE "failed"

\* addFailure runs before the error is raised: a failure is counted even when
\* luaL_error then leaves the function.
Counts(strict, fn, args) == Verdict(strict, fn, args) = "failed"

Raises(strict, fn, args) == Counts(strict, fn, args) /\ strict # 0

(***************************************************************************)
(* kit.strict is a plain char that the option -x sets to -1.  Where plain  *)
(* char is unsigned the stored value is 255.                               *)
(***************************************************************************)
StoredStrict(charIsSigned, n) == IF charIsSigned THEN n ELSE n % 256

=============================================================================
