------------------------------ MODULE Numerals ------------------------------
(* Numbers as sequences of digits in a base, the highest one first.           *)
EXTENDS Integers, Sequences

\* b to the power of w
Power(b, w) == LET p[i \in 0..w] == IF i = 0 THEN 1 ELSE p[i - 1] * b IN p[w]
\* The lowest w digits of n
Numeral(b, n, w) ==
    LET q[i \in 0..w] == IF i = 0 THEN n ELSE q[i - 1] \div b IN [i \in 1..w |-> q[w - i] % b]
\* The number that has these digits
ValueOf(b, s) ==
    LET v[i \in 0..Len(s)] == IF i = 0 THEN 0 ELSE v[i - 1] * b + s[i] IN v[Len(s)]
=============================================================================
