------------------------------ MODULE Fraction ------------------------------
(***************************************************************************)
(* Exact rationals as reduced [num, den] records with den > 0.  Rank      *)
(* computes in float64; the model computes exactly, so every sum, product  *)
(* and comparison is the one the code means, without rounding.            *)
(***************************************************************************)
EXTENDS Integers

RECURSIVE GCD(_, _)
GCD(a, b) == IF b = 0 THEN a ELSE GCD(b, a % b)

AbsInt(n) == IF n < 0 THEN -n ELSE n

\* op(x, y) with x and y each evaluated once.  TLC passes operator
\* arguments unevaluated and, when it decides ENABLED, re-evaluates them
\* at every use; binding them through the one-element set {<<x, y>>}
\* keeps nested arithmetic linear instead of exponential.
Strict(op(_, _), x, y) == CHOOSE v \in {op(u, w) : <<u, w>> \in {<<x, y>>}} : TRUE

ReducedFrac(n, d) ==
    LET divisor == GCD(AbsInt(n), AbsInt(d))
        sign    == IF d < 0 THEN -1 ELSE 1
    IN [num |-> sign * (n \div divisor), den |-> sign * (d \div divisor)]

\* n / d in lowest terms, the sign carried by the numerator.
Frac(n, d) == Strict(ReducedFrac, n, d)

Zero == Frac(0, 1)
One  == Frac(1, 1)

AddFrac(p, q) == Frac(p.num * q.den + q.num * p.den, p.den * q.den)
SubFrac(p, q) == Frac(p.num * q.den - q.num * p.den, p.den * q.den)
MulFrac(p, q) == Frac(p.num * q.num, p.den * q.den)

QAdd(p, q)  == Strict(AddFrac, p, q)
QSub(p, q)  == Strict(SubFrac, p, q)
QMul(p, q)  == Strict(MulFrac, p, q)
QAbs(p)     == [p EXCEPT !.num = AbsInt(@)]
QLess(p, q) == p.num * q.den < q.num * p.den
=============================================================================
