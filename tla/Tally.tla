------------------------------- MODULE Tally -------------------------------
(* The sum of a sequence of numbers, which Totals says what it needs of.      *)
EXTENDS Naturals, Sequences

Total(seq) ==
  LET upto[i \in 0..Len(seq)] == IF i = 0 THEN 0 ELSE upto[i - 1] + seq[i]
  IN  upto[Len(seq)]
=============================================================================
