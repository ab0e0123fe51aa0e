----------------------------- MODULE UtilSizes -----------------------------
(***************************************************************************)
(* Sizes in dmesg-util/strutils.c: parse_size, which reads "1.5KiB", and   *)
(* size_to_human_string, which writes it.  uintmax_t is a counter up to    *)
(* MaxUint.  A text is its parts: the number before the point, the digits  *)
(* after it (<<>> when there is no point), the suffix.                     *)
(***************************************************************************)
EXTENDS Integers, Sequences, FiniteSets, SequencesExt

CONSTANTS
  MaxUint,   \* UINTMAX_MAX, one less than a power of 2
  Texts,     \* the texts to parse
  Numbers    \* the numbers to write

VARIABLES call, answer
vars == <<call, answer>>

Result(rc, size) == [rc |-> rc, size |-> size % (MaxUint + 1)]
Pending == Result("pending", 0)

\* power: 0 none, 1 K, 2 M, ...; base: 1024 for "XiB" and "X", 1000 for "XB".
Text(whole, digits, power, base) ==
  [whole |-> whole, digits |-> digits, power |-> power, base |-> base]

\* do_scale_by_power stops at the value whose product would not fit.
Scale(x, base, power) ==
  FoldLeft(LAMBDA r, k : IF r.rc = "ok" /\ r.size <= MaxUint \div base
                           THEN Result("ok", r.size * base) ELSE [r EXCEPT !.rc = "ERANGE"],
           Result("ok", x), [k \in 1..power |-> k])

\* strtoumax with base 0: after a leading zero the digits are octal, and one
\* that is none ends the number where a suffix must follow.
LeadingZeros(digits) == Cardinality({k \in 1..Len(digits) : \A j \in 1..k : digits[j] = 0})
Fraction(digits) ==
  LET radix == IF digits[1] = 0 THEN 8 ELSE 10
  IN  FoldLeft(LAMBDA n, d : radix * n + d, 0, digits)
Readable(digits) == digits[1] # 0 \/ \A k \in 1..Len(digits) : digits[k] < 8

\* The factor of the digits within their group of three.
Weight(zeros) == CASE zeros % 3 = 0 -> 100 [] zeros % 3 = 1 -> 10 [] OTHER -> 1

ParseSize(t) ==
  LET scaled == Scale(t.whole, t.base, t.power)
      zeros == LeadingZeros(t.digits)
      fracPower == t.power - (zeros \div 3) - 1
      part == Scale(Fraction(t.digits) * Weight(zeros), t.base, fracPower).size
  IN  IF t.digits = <<>> THEN scaled
      ELSE IF ~Readable(t.digits) \/ t.power = 0 \/ (Fraction(t.digits) # 0 /\ fracPower < 0)
        THEN Result("EINVAL", 0)
      ELSE IF Fraction(t.digits) = 0 THEN scaled
      ELSE Result(scaled.rc, scaled.size + part)

Carry(dec, tenths) == IF tenths = 10 THEN <<dec + 1, 0>> ELSE <<dec, tenths>>

\* get_exp: the largest of the units that is not above n.
Exponent(n) == CHOOSE e \in 0..6 : n < 1024^(e + 1) /\ (e = 0 \/ n >= 1024^e)

\* size_to_human_string: one digit after the point, rounded.
Human(n) ==
  LET e == Exponent(n)
      frac == n % 1024^e
      carried == Carry(n \div 1024^e, (frac \div 1024^(e - 1) + 50) \div 100)
  IN  IF e = 0 \/ frac = 0 THEN Text(n \div 1024^e, <<>>, e, 1024)
      ELSE Text(carried[1], IF carried[2] = 0 THEN <<>> ELSE <<carried[2]>>, e, 1024)

Init ==
  /\ answer = Pending
  /\ call \in [op : {"parse"}, text : Texts, number : {0}]
              \cup [op : {"human"}, text : {Text(0, <<>>, 0, 1024)}, number : Numbers]

Parse ==
  /\ answer = Pending /\ call.op = "parse"
  /\ answer' = ParseSize(call.text) /\ UNCHANGED call

\* A number is written and what was written is read again.
WriteAndParse ==
  /\ answer = Pending /\ call.op = "human"
  /\ answer' = ParseSize(Human(call.number)) /\ UNCHANGED call

Next == Parse \/ WriteAndParse

Spec == Init /\ [][Next]_vars
-----------------------------------------------------------------------------
Unit(t) == t.base^t.power
Parsed == answer # Pending /\ call.op = "parse"

(***************************************************************************)
(* A size that has no fraction is exact or, when it does not fit, ERANGE;  *)
(* the bound is checked without a product that could wrap.                 *)
(***************************************************************************)
WholeSizesExact ==
  Parsed /\ call.text.digits = <<>> =>
    IF call.text.whole <= MaxUint \div Unit(call.text)
      THEN answer = Result("ok", call.text.whole * Unit(call.text))
      ELSE answer.rc = "ERANGE"

(***************************************************************************)
(* "0.5MB = 500000, 0.5MiB = 512000" (comment of strtosize): one digit     *)
(* after the point counts hundreds of the unit below.                      *)
(***************************************************************************)
DocumentedFractions ==
  Parsed /\ Len(call.text.digits) = 1 /\ call.text.power > 0 /\ answer.rc = "ok"
         /\ call.text.whole < MaxUint \div (2 * Unit(call.text)) =>
    answer.size = call.text.whole * Unit(call.text)
                  + call.text.digits[1] * 100 * call.text.base^(call.text.power - 1)

(***************************************************************************)
(* What size_to_human_string writes is read back as a number that differs  *)
(* by less than a tenth of the unit written.                               *)
(***************************************************************************)
HumanReadBack ==
  answer # Pending /\ call.op = "human" =>
    LET unit == 1024^Exponent(call.number)
        diff == IF answer.size > call.number THEN answer.size - call.number ELSE call.number - answer.size
    IN  answer.rc = "ok" /\ (diff * 10 < unit \/ diff = 0)
=============================================================================
