---------------------------- MODULE MCLoanPayout ----------------------------
(* Model checking of LoanPayout: the requests are interchangeable. *)
EXTENDS LoanPayout, TLC

Symmetry == Permutations(Requests)
=============================================================================
