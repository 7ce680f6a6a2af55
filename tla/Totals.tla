------------------------------- MODULE Totals -------------------------------
(* Sums that a loop over a list adds up, shared by the wire formats.       *)
EXTENDS Integers

(* f[1] + ... + f[n].                                                      *)
SumTo(f, n) ==
  LET total[k \in 0 .. n] == IF k = 0 THEN 0 ELSE total[k - 1] + f[k] IN total[n]
=============================================================================
