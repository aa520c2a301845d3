------------------------------ MODULE MCPayroll ------------------------------
EXTENDS Payroll, TLC

CONSTANTS d1, d2

MCPeriods == {{d1}, {d1, d2}}
Symmetry == Permutations(Workers) \cup Permutations(Requests)
=============================================================================
