------------------------------ MODULE Timelines ------------------------------
(***************************************************************************)
(* The arithmetic of timelines.  LinearTransform maps one timeline to      *)
(* another through a point and a reduced ratio, in fixed width integers;   *)
(* TimelineRate and TimelineFunction are its successors.  A "word" here    *)
(* has Bits bits where the code has 32, and a double word 2 * Bits where   *)
(* the code has 64; the algorithms are the same at every width.            *)
(*                                                                         *)
(* A result is a record: ok is what the function returns, out what it      *)
(* stores.  Signed arithmetic that overflows wraps, as the compilers of    *)
(* the build make it.                                                      *)
(***************************************************************************)
EXTENDS Integers

CONSTANT Bits

ASSUME BitsAssumption == Bits \in Nat \ {0}

Word == 2 ^ Bits
Double == 2 ^ (2 * Bits)
MaxInt == Double \div 2 - 1
MinInt == -(Double \div 2)
U32 == 0 .. Word - 1
S64 == MinInt .. MaxInt

Signed(x) == IF x % Double > MaxInt THEN (x % Double) - Double ELSE x % Double
Abs(x) == IF x < 0 THEN Signed(-x) ELSE x
Failed == [ok |-> FALSE, out |-> 0]
Done(x) == [ok |-> TRUE, out |-> x]
Ratio(n, d) == [numerator |-> n, denominator |-> d]
Transform(a, ratio, b) == [a_zero |-> a, scale |-> ratio, b_zero |-> b]

\* Euclid's method; the first round swaps the two when a < b.
Euclid[a \in Nat, b \in Nat] == IF a % b = 0 THEN b ELSE Euclid[b, a % b]

Reduce(n, d) ==
    IF n = 0 THEN Ratio(0, 1) ELSE Ratio(n \div Euclid[n, d], d \div Euclid[n, d])

\* The Reduce of the constructor of Ratio allows a denominator of zero.
ReducedRatio(n, d) == IF d # 0 THEN Reduce(n, d) ELSE Ratio(IF n # 0 THEN 1 ELSE 0, 0)

\* Mutant of Scale_u64_to_u64: the remainder of the upper words is dropped.
Scale_u64_without_remainder(value, numerator, denominator, round_up) ==
    LET low == (value % Word) * numerator
        high == (value \div Word) * numerator + low \div Word
    IN IF high \div Word >= denominator THEN Failed
       ELSE Done((high \div denominator) * Word + (low % Word) \div denominator)

\* The quotient of a triple word, rounded up if it is asked for, where rest is what
\* the division of its upper words leaves.
Divided(high, rest, denominator, round_up) ==
    LET quotient == (high \div denominator) * Word + rest \div denominator
        rounded == IF round_up /\ rest % denominator # 0 THEN quotient + 1 ELSE quotient
    IN IF high \div Word >= denominator \/ rounded = Double THEN Failed ELSE Done(rounded)

\* value * numerator / denominator by long division of a triple word.
Scale_u64_to_u64(value, numerator, denominator, round_up) ==
    LET low == (value % Word) * numerator
        high == (value \div Word) * numerator + low \div Word
    IN Divided(high, (low % Word) + Word * (high % denominator), denominator, round_up)

\* The sum overflows when both terms have the sign that the sum has not.
Sum_check_ovfl(a, b) ==
    LET sum == Signed(a + b)
    IN IF (a < 0) = (b < 0) /\ (sum < 0) # (a < 0) THEN Failed ELSE Done(sum)

\* The scaled distance, with its sign, added to the basis.  A distance that fills the
\* top bit only fits with a basis of the other sign.
Add_scaled(is_neg, scaled, basis2) ==
    LET high == scaled.out > MaxInt
        distance == IF is_neg THEN -scaled.out ELSE scaled.out
    IN CASE ~scaled.ok -> Failed
         [] scaled.ok /\ high ->
              IF (is_neg = (basis2 < 0)) \/ Abs(basis2) <= scaled.out - (MaxInt + 1)
              THEN Failed
              ELSE Done(Signed(distance + basis2))
         [] scaled.ok /\ ~high -> Sum_check_ovfl(distance, basis2)

Linear_transform_s64_to_s64(val, basis1, numerator, denominator, invert_frac, basis2) ==
    LET is_neg == val < basis1
        abs_val == IF is_neg THEN basis1 - val ELSE val - basis1
    IN Add_scaled(is_neg,
                  Scale_u64_to_u64(abs_val, IF invert_frac THEN denominator ELSE numerator,
                                   IF invert_frac THEN numerator ELSE denominator, is_neg),
                  basis2)

DoForwardTransform(t, a_in) ==
    IF t.scale.denominator = 0 THEN Failed
    ELSE Linear_transform_s64_to_s64(a_in, t.a_zero, t.scale.numerator,
                                     t.scale.denominator, FALSE, t.b_zero)

DoReverseTransform(t, b_in) ==
    IF t.scale.numerator = 0 THEN Failed
    ELSE Linear_transform_s64_to_s64(b_in, t.b_zero, t.scale.numerator,
                                     t.scale.denominator, TRUE, t.a_zero)

\* The number of significant bits of x: the width less __builtin_clzl(x).
BitLength(x) == CHOOSE k \in 0 .. 2 * Bits : x < 2 ^ k /\ (k = 0 \/ x >= 2 ^ (k - 1))

\* The larger of the bit lengths of (numerator << 1), cut to the double word,
\* and of the denominator decides how far both are shifted.
UsedBits(ratio) ==
    LET doubled == BitLength((2 * ratio.numerator) % Double)
        plain == BitLength(ratio.denominator)
    IN IF doubled > plain THEN doubled ELSE plain

Shifted(ratio, used) ==
    LET shift == IF used > Bits THEN 2 ^ (used - Bits) ELSE 1
    IN [ok |-> used <= Bits,
        out |-> Ratio((ratio.numerator \div shift) % Word, (ratio.denominator \div shift) % Word)]

Fitted(ratio) == Shifted(ratio, UsedBits(ratio))

Compose(a, b) ==
    LET n == a.numerator * b.numerator
        d == a.denominator * b.denominator
    IN IF n = 0 \/ d = 0
       THEN Done(Ratio(IF n # 0 THEN 1 ELSE 0, IF d # 0 THEN 1 ELSE 0))
       ELSE Fitted(Reduce(n, d))

-----------------------------------------------------------------------------
(* What the arithmetic should compute *)

Floor(n, d) == n \div d     \* TLA+ division rounds down for d > 0

\* f(a) = (a - a_zero) * numerator / denominator + b_zero, rounded down.
Exact(t, a) ==
    Floor((a - t.a_zero) * t.scale.numerator, t.scale.denominator) + t.b_zero

Inverted(t) == Transform(t.b_zero, Ratio(t.scale.denominator, t.scale.numerator), t.a_zero)

\* A transformation is the exact one, rounded down, and it fails exactly when
\* that leaves the signed range - or lands on its lower end, which it takes
\* for an overflow when the scaled distance alone does not fit, or when
\* a_zero or b_zero is the least integer, whose absolute value wraps.
FloorOrFailed(result, exact, basis) ==
    /\ result.ok => result.out = exact
    /\ ~result.ok => exact \notin MinInt + 1 .. MaxInt \/ basis = MinInt

\* A composition that says it lost nothing is the product of the two ratios,
\* in lowest terms.  (A product in the upper half of the double word is out
\* of the property: doubling it loses its leading bit.)
ProductOrLossy(a, b) ==
    LET c == Compose(a, b) IN
    (c.ok /\ a.numerator * b.numerator <= MaxInt) =>
        /\ c.out.numerator * a.denominator * b.denominator =
               c.out.denominator * a.numerator * b.numerator
        /\ c.out.denominator # 0 => c.out = Reduce(c.out.numerator, c.out.denominator)

-----------------------------------------------------------------------------
(***************************************************************************)
(* TimelineRate and TimelineFunction, the successors of LinearTransform:   *)
(* rates reduced with a binary GCD, scaling that reports an overflow with  *)
(* the value kOverflow, and functions that are applied and composed.  The  *)
(* widths are those of LinearTransform: Bits for 32, 2 * Bits for 64.      *)
(***************************************************************************)

kOverflow == MaxInt
Rate(s, r) == [subject_delta |-> s, reference_delta |-> r]

BinaryGcd[a \in Nat, b \in Nat] ==
    CASE a = 0 -> b
      [] b = 0 -> a
      [] a > 0 /\ b > 0 /\ a % 2 = 0 /\ b % 2 = 0 -> 2 * BinaryGcd[a \div 2, b \div 2]
      [] a > 0 /\ b > 0 /\ a % 2 = 0 /\ b % 2 = 1 -> BinaryGcd[a \div 2, b]
      [] a > 0 /\ b > 0 /\ a % 2 = 1 /\ b % 2 = 0 -> BinaryGcd[a, b \div 2]
      [] a > 0 /\ b > 0 /\ a % 2 = 1 /\ b % 2 = 1 ->
           IF a > b THEN BinaryGcd[b, a - b] ELSE BinaryGcd[a, b - a]

ReduceRatio(s, r) ==
    LET gcd == BinaryGcd[s, r]
    IN IF gcd = 0 THEN Rate(s, 1) ELSE Rate(s \div gcd, r \div gcd)

TimelineRateOf(s, r) == ReduceRatio(s, r)

Inverse(rate) == TimelineRateOf(rate.reference_delta, rate.subject_delta)

\* The quotient of the upper words and, with their remainder, of the low one.
Quotient(high, low, reference_delta, round_up) ==
    LET result == Word * (high \div reference_delta) + low \div reference_delta
        up == round_up /\ low % reference_delta # 0
    IN IF high \div reference_delta >= Word \/ (up /\ result = MaxInt)
       THEN Failed ELSE Done(IF up THEN result + 1 ELSE result)

ScaleUInt64(value, subject_delta, reference_delta, round_up) ==
    LET product == subject_delta * (value % Word)
        high == subject_delta * (value \div Word) + product \div Word
    IN Quotient(high, (product % Word) + Word * (high % reference_delta), reference_delta,
                round_up)

\* Negative values come back with their sign; the least integer fits.
Resigned(scaled, negative) ==
    LET fits == scaled.out <= MaxInt \/ (negative /\ scaled.out = MaxInt + 1)
    IN IF ~scaled.ok \/ ~fits THEN kOverflow
       ELSE IF negative THEN -scaled.out ELSE scaled.out

\* The absolute value of the least integer is a value of the double word.
Scale(value, rate) ==
    Resigned(ScaleUInt64(IF value >= 0 THEN value ELSE -value, rate.subject_delta,
                         rate.reference_delta, value < 0), value < 0)

\* Halve both until they fit a word.
Halved[s \in Nat, r \in Nat] ==
    IF s >= Word \/ r >= Word THEN Halved[s \div 2, r \div 2] ELSE Rate(s, r)

\* A rate whose reference was halved away is the largest there is.
HalvedRate(reduced) ==
    LET halved == Halved[reduced.subject_delta, reduced.reference_delta]
    IN IF halved.reference_delta = 0 THEN Rate(Word - 1, 1)
       ELSE TimelineRateOf(halved.subject_delta, halved.reference_delta)

Product(a, b) ==
    HalvedRate(ReduceRatio(a.subject_delta * b.subject_delta,
                           a.reference_delta * b.reference_delta))

\* The product is exact when nothing was halved: the caller's DCHECK(!exact).
ProductIsExact(a, b) ==
    LET reduced == ReduceRatio(a.subject_delta * b.subject_delta,
                               a.reference_delta * b.reference_delta)
    IN reduced.subject_delta < Word /\ reduced.reference_delta < Word

Function(r, s, rate) == [reference_time |-> r, subject_time |-> s, rate |-> rate]

Apply(f, reference_input) ==
    Signed(Scale(Signed(reference_input - f.reference_time), f.rate) + f.subject_time)

InverseFunction(f) == Function(f.subject_time, f.reference_time, Inverse(f.rate))

ApplyInverse(f, subject_input) == Apply(InverseFunction(f), subject_input)

ComposeFunctions(bc, ab) ==
    Function(ab.reference_time, Apply(bc, ab.subject_time), Product(ab.rate, bc.rate))

-----------------------------------------------------------------------------
(* What the arithmetic should compute *)

\* The greatest common divisor, by its definition.
CommonDivisors(a, b) == {k \in 1 .. (a + b) : a % k = 0 /\ b % k = 0}

\* Scaling is exact, rounded down.  It reports an overflow when the exact
\* value is out of range, and for the two ends of the range: kOverflow is the
\* upper one, and rounding up to the lower one counts as an overflow.
FloorOrOverflow(exact, scaled) ==
    scaled = IF exact \in MinInt + 1 .. MaxInt \/ (exact = MinInt /\ scaled # kOverflow)
             THEN exact ELSE kOverflow

ScaleIsFloor(value, rate) ==
    FloorOrOverflow(Floor(value * rate.subject_delta, rate.reference_delta), Scale(value, rate))

\* A rate is in lowest terms.
RateIsReduced(rate) == CommonDivisors(rate.subject_delta, rate.reference_delta) = {1}
=============================================================================
