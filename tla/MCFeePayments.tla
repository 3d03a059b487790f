---------------------------- MODULE MCFeePayments ----------------------------
(* The symmetry of the payment runs: no rule tells two requests, two orders *)
(* or two attempts apart.                                                  *)
EXTENDS FeePayments, TLC

Symmetry == Permutations(Handler) \cup Permutations(Order)
              \cup Permutations(Attempt)
=============================================================================
