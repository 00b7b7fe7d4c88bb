------------------------------ MODULE MCAccess ------------------------------
(* A small instance of Access for TLC; Access.cfg gives the constants. *)
EXTENDS Access, TLC

Symmetry == Permutations(Firebase) \cup Permutations(Emails) \cup Permutations(Calls)
            \cup Permutations(Browsers)
=============================================================================
