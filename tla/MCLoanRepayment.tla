---------------------------- MODULE MCLoanRepayment ----------------------------
EXTENDS LoanRepayment, TLC

\* Requests are interchangeable.
RequestSymmetry == Permutations(Requests)
===============================================================================
