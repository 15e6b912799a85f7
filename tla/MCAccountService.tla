---------------------------- MODULE MCAccountService ----------------------------
(***************************************************************************)
(* The instance of AccountService that TLC checks, with its properties.    *)
(***************************************************************************)
EXTENDS AccountServiceProperties, TLC

\* Requests with equal roles are interchangeable (safety runs only).
ThreadSymmetry == Permutations(Requests) \cup Permutations(Saves)
================================================================================
