------------------------------- MODULE Decimals -------------------------------
(***************************************************************************)
(* Exact fractions <<n, d>> in lowest terms, d > 0, for Python's Decimal.  *)
(* The context's 28 digits exceed what any computation of this system      *)
(* needs but repeated division; its rounding is not modelled.              *)
(***************************************************************************)
EXTENDS Integers, FiniteSetsExt, Functions

LOCAL Abs(n) == IF n < 0 THEN -n ELSE n

\* n / d, with the least denominator that it can have.
Ratio(n, d) ==
    LET rest == n % d
        IsWhole(q) == (rest * q) % d = 0
        least == CHOOSE q \in 1 .. d : IsWhole(q) /\ \A p \in 1 .. q - 1 : ~IsWhole(p)
    IN  <<(n \div d) * least + (rest * least) \div d, least>>

Whole(n) == <<n, 1>>
Zero == Whole(0)

Plus(x, y) == Ratio(x[1] * y[2] + y[1] * x[2], x[2] * y[2])
Minus(x, y) == Ratio(x[1] * y[2] - y[1] * x[2], x[2] * y[2])
Times(x, n) == Ratio(x[1] * n, x[2])
Over(x, n) == Ratio(x[1], x[2] * n)
AtMost(x, y) == x[1] * y[2] <= y[1] * x[2]
Distance(x, y) == LET z == Minus(x, y) IN <<Abs(z[1]), z[2]>>

\* quantize: n / d to the nearest whole, halves to the even one.
RoundHalfEven(n, d) ==
    LET q == n \div d
        r == n % d
    IN  IF 2 * r > d \/ (2 * r = d /\ q % 2 = 1) THEN q + 1 ELSE q

\* sum(...): of the values of a function.
SumOver(w) == FoldFunction(Plus, Zero, w)
=============================================================================
