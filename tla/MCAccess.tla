------------------------------- MODULE MCAccess -------------------------------
(* A small instance of Access for TLC. *)
EXTENDS Access, TLC

\* Each set of events is explored on its own.
MCEnvironments ==
  {{"overlap", "sign_up", "crash"},
   {"overlap", "invite", "change"},
   {"overlap", "add", "change", "sign_in"},
   {"overlap", "sign_in", "sign_out", "password", "expire"},
   {"overlap", "invite", "organization"},
   {"invite", "change", "organization"},
   {"add", "password"}}

\* One field at a time.
MCChanges == {[Keep EXCEPT !.role = x] : x \in {"admin", "staff"}}
               \cup {[Keep EXCEPT !.active = x] : x \in {"on", "off"}}

Symmetry == Permutations(Users) \cup Permutations(Coops) \cup Permutations(Orgs)
              \cup Permutations(Tokens) \cup Permutations(Requests)
===============================================================================
