----------------------------- MODULE Rationals -----------------------------
(***************************************************************************)
(* The numbers of a quote.  The code computes with BigNumber, whose sums   *)
(* and products are exact and whose quotients have 78 decimal places; here *)
(* a number is a reduced fraction <<n, d>>, d > 0.                         *)
(***************************************************************************)
EXTENDS Integers

Rat == Int \X (Nat \ {0})
NonNeg == {x \in Rat : x[1] >= 0}

\* Euclid's algorithm, for b and then a.
Gcd[b \in Nat] == [a \in Nat |-> IF b = 0 THEN a ELSE Gcd[a % b][b]]

Abs(n) == IF n < 0 THEN -n ELSE n

\* n / d for an integer n and a positive d.
Frac(n, d) == LET g == Gcd[d][Abs(n)] IN <<n \div g, d \div g>>

Num(n) == <<n, 1>>
Zero == Num(0)
One == Num(1)

Plus(x, y) == Frac(x[1] * y[2] + y[1] * x[2], x[2] * y[2])
Neg(x) == <<-x[1], x[2]>>
Minus(x, y) == Plus(x, Neg(y))
AbsOf(x) == <<Abs(x[1]), x[2]>>
Times(x, y) == LET g == Gcd[y[2]][Abs(x[1])]
                   h == Gcd[x[2]][Abs(y[1])]
               IN <<(x[1] \div g) * (y[1] \div h), (x[2] \div h) * (y[2] \div g)>>
Over(x, y) == Times(x, IF y[1] > 0 THEN <<y[2], y[1]>> ELSE <<-y[2], -y[1]>>)

Leq(x, y) == x[1] * y[2] <= y[1] * x[2]
Less(x, y) == ~ Leq(y, x)
MinOf(x, y) == IF Leq(x, y) THEN x ELSE y
MaxOf(x, y) == IF Leq(x, y) THEN y ELSE x

(* The rounding modes the code uses.  ROUND_UP and ROUND_DOWN are away from  *)
(* and towards zero; the amounts they are used on are not negative.          *)
Floor(x) == x[1] \div x[2]
Ceil(x) == -((-x[1]) \div x[2])
Trunc(x) == IF x[1] >= 0 THEN Floor(x) ELSE Ceil(x)

\* ROUND_HALF_UP, the default of integerValue: a half goes away from zero.
HalfUp(x) == IF x[1] >= 0 THEN (2 * x[1] + x[2]) \div (2 * x[2])
             ELSE -((2 * (-x[1]) + x[2]) \div (2 * x[2]))

\* The powers of ten.
TenTo[k \in Nat] == IF k = 0 THEN 1 ELSE 10 * TenTo[k - 1]

\* toPrecision: so many significant digits of a number between 0 and 1, from
\* the first digit that is not zero.
ToPrecision(x, digits) ==
    LET reaches(k) == Leq(One, Times(x, Num(TenTo[k])))
        leading == CHOOSE k \in 0 .. x[2] : reaches(k) /\ \A j \in 0 .. (k - 1) : ~ reaches(j)
        scale == TenTo[leading + digits - 1]
    IN IF x = Zero THEN Zero ELSE Frac(HalfUp(Times(x, Num(scale))), scale)
=============================================================================
