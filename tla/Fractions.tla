------------------------------- MODULE Fractions -------------------------------
(***************************************************************************)
(* Exact arithmetic for what the program computes in floating point:       *)
(* fractions <<numerator, denominator>> in lowest terms.                   *)
(***************************************************************************)
EXTENDS Integers, Sequences, FiniteSets, FiniteSetsExt

Gcd[a, b \in Nat] == IF b = 0 THEN a ELSE Gcd[b, a % b]

Size(n) == IF n < 0 THEN 0 - n ELSE n

Frac(n, d) ==
    LET g == Gcd[Size(n), Size(d)]
        s == IF d < 0 THEN -1 ELSE 1
    IN <<(s * n) \div g, (s * d) \div g>>

Whole(n) == <<n, 1>>

a ++ b == Frac(a[1] * b[2] + b[1] * a[2], a[2] * b[2])
a -- b == Frac(a[1] * b[2] - b[1] * a[2], a[2] * b[2])
a ** b == Frac(a[1] * b[1], a[2] * b[2])
a // b == Frac(a[1] * b[2], a[2] * b[1])

a \preceq b == a[1] * b[2] <= b[1] * a[2]
a \prec b == a[1] * b[2] < b[1] * a[2]

\* The value that is not the larger, and not the smaller one.
Least(a, b) == IF a \preceq b THEN a ELSE b
Greatest(a, b) == IF a \preceq b THEN b ELSE a

Clamped(x, low, high) == Greatest(low, Least(x, high))

\* The total of f over a finite set, and the mean.
Total(f(_), S) == MapThenFoldSet(LAMBDA a, b : a ++ b, Whole(0), f,
                                 LAMBDA T : CHOOSE t \in T : TRUE, S)
Average(f(_), S) == Total(f, S) // Whole(Cardinality(S))

\* The sequence s, with its elements evaluated once.
Eager(s) == s \o <<>>

\* F(x), for an x that is evaluated once.
Using(x, F(_)) == CHOOSE y \in {F(z) : z \in {x}} : TRUE

\* x / sqrt(v) as its square with the sign of x, so that it stays a fraction.
OverRoot(x, v) == IF x[1] = 0 THEN Whole(0) ELSE (x ** <<Size(x[1]), x[2]>>) // v
================================================================================
