--------------------------------- MODULE Sums ---------------------------------
(***************************************************************************)
(* The sum of a function over 1..n, in a form that can be reasoned about:   *)
(* a recursive function of how far the summing loop has got, as the loops   *)
(* of queen.c that add up the purses are.                                   *)
(***************************************************************************)
EXTENDS Integers

\* The running total after each of the first n terms.
PrefixSums(f, n) ==
  LET s[k \in 0..n] == IF k = 0 THEN 0 ELSE s[k-1] + f[k]
  IN  s

\* The total of all n.
Total(f, n) == PrefixSums(f, n)[n]

===============================================================================
