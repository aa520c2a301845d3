------------------------------- MODULE MCMembers -------------------------------
EXTENDS Members, TLC

\* All four kinds change in step, calculations with requests one at a time and
\* together, and the register with and without what bends the cap.
MCEnvironments ==
  { Kinds \cup {"year"},
    {"score", "dues", "loans"},
    {"score", "dues", "overlap"},
    {"score", "dues", "loans", "silent", "crash"},
    {"wallet", "update", "overlap"},
    {"wallet", "lost_answer", "crash"},
    {"wallet", "update"},
    {"register", "overlap"},
    {"register", "crash"},
    {"register", "lapse", "reactivate", "crash"} }

Symmetry == Permutations(Handlers)
===============================================================================
