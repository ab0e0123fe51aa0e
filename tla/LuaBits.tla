------------------------------- MODULE LuaBits -------------------------------
(***************************************************************************)
(* lbitlib.c, the library bit32.  A lua_Unsigned is the set of its bits,   *)
(* of which the library looks at the first NBits.                          *)
(***************************************************************************)
EXTENDS Integers

CONSTANTS
  NBits,                    \* LUA_NBITS, a power of two
  Width                     \* the bits of a lua_Unsigned

VARIABLES call, answer
vars == <<call, answer>>

All == 0..(Width - 1)
AllOnes == 0..(NBits - 1)
Trim(r) == r \cap AllOnes
Mask(n) == 0..(n - 1)
Left(r, i) == {b + i : b \in r} \cap All
Right(r, i) == {b - i : b \in r} \cap All
Unsigned(n) == {b \in All : (n \div 2^b) % 2 = 1}
Error == {-1}

And(a, b) == Trim(a \cap b)
Test(a, b) == And(a, b) # {}
Or(a, b) == Trim(a \cup b)
Xor(a, b) == Trim((a \ b) \cup (b \ a))
Not(a) == Trim(All \ a)

Shift(r, i) ==
  IF i < 0 THEN IF -i >= NBits THEN {} ELSE Right(Trim(r), -i)
  ELSE IF i >= NBits THEN {} ELSE Trim(Left(r, i))
LShift(r, i) == Shift(r, i)
RShift(r, i) == Shift(r, -i)
ArShift(r, i) ==
  IF i < 0 \/ NBits - 1 \notin r THEN Shift(r, -i)
  ELSE IF i >= NBits THEN AllOnes
  ELSE Trim(Right(r, i) \cup (All \ Right(Trim(All), i)))

RotBy(r, i) == IF i = 0 THEN r ELSE Left(r, i) \cup Right(r, NBits - i)
Rot(r, d) == Trim(RotBy(Trim(r), d % NBits))
LRot(r, d) == Rot(r, d)
RRot(r, d) == Rot(r, -d)

FieldArgs(f, w) == f >= 0 /\ w > 0 /\ f + w <= NBits
Extract(r, f, w) == IF FieldArgs(f, w) THEN Right(Trim(r), f) \cap Mask(w) ELSE Error
Replace(r, v, f, w) == IF FieldArgs(f, w) THEN (Trim(r) \ Left(Mask(w), f)) \cup Left(Trim(v) \cap Mask(w), f) ELSE Error
-----------------------------------------------------------------------------
Init == call \in [x : 0..(2^Width - 1), y : 0..(2^NBits - 1)] /\ answer = <<>>

X == Unsigned(call.x)
Y == Unsigned(call.y)
Combine == answer' = <<"combine", And(X, Y), Or(X, Y), Xor(X, Y), Not(X), Test(X, Y)>>
Displace == \E i \in -(NBits + 1)..(NBits + 1) : answer' = <<"shift", i, LShift(X, i), RShift(X, i), ArShift(X, i)>>
Rotate == \E d \in -(NBits + 1)..(NBits + 1) : answer' = <<"rotate", d, LRot(X, d), RRot(X, d)>>
Fields == \E f \in -1..NBits, w \in 0..(NBits + 1) : answer' = <<"field", f, w, Extract(X, f, w), Replace(X, Y, f, w)>>

Next == answer = <<>> /\ (Combine \/ Displace \/ Rotate \/ Fields) /\ UNCHANGED call

Spec == Init /\ [][Next]_vars
-----------------------------------------------------------------------------
Asked(op) == answer # <<>> /\ answer[1] = op
RECURSIVE Value(_)
Value(r) == IF r = {} THEN 0 ELSE LET b == CHOOSE x \in r : TRUE IN 2^b + Value(r \ {b})
Low == call.x % 2^NBits
Signed == IF Low >= 2^(NBits - 1) THEN Low - 2^NBits ELSE Low
Shifted(n, i) == IF i >= 0 THEN n * 2^i ELSE n \div 2^(-i)

(***************************************************************************)
(* Numbers count modulo 2^NBits whatever is above: shifts multiply and     *)
(* divide, the arithmetic one with the sign, rotations lose no bit and     *)
(* undo each other, a field that is replaced is read back and nothing      *)
(* beside it has changed.                                                  *)
(***************************************************************************)
BitsRight ==
  /\ Asked("combine") =>
       /\ Value(answer[2]) + Value(answer[3]) = Low + call.y
       /\ Value(answer[3]) - Value(answer[2]) = Value(answer[4])
       /\ Value(answer[5]) = 2^NBits - 1 - Low
       /\ answer[6] = (Value(answer[2]) > 0)
  /\ Asked("shift") =>
       LET i == answer[2] IN
       /\ Value(answer[3]) = Shifted(Low, i) % 2^NBits
       /\ Value(answer[4]) = Shifted(Low, -i) % 2^NBits
       /\ Value(answer[5]) = Shifted(Signed, -i) % 2^NBits
  /\ Asked("rotate") =>
       /\ LRot(answer[4], answer[2]) = Unsigned(Low) /\ RRot(answer[3], answer[2]) = Unsigned(Low)
       /\ (Value(answer[3]) - Low * 2^(answer[2] % NBits)) % (2^NBits - 1) = 0
  /\ Asked("field") =>
       LET f == answer[2] w == answer[3] r == Value(answer[5]) IN
       IF f < 0 \/ w < 1 \/ f + w > NBits THEN answer[4] = Error /\ answer[5] = Error
       ELSE /\ Value(answer[4]) = (Low \div 2^f) % 2^w
            /\ Value(Extract(answer[5], f, w)) = call.y % 2^w
            /\ r % 2^f = Low % 2^f /\ r \div 2^(f + w) = Low \div 2^(f + w)
=============================================================================
