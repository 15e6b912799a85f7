---------------------------- MODULE AccountLifecycle ----------------------------
(***************************************************************************)
(* What the two stores of a registration promise together, abstractly: a   *)
(* name is free, then reserved (auth-service knows a user but there is no  *)
(* account), then open (the account exists).  No name skips the reserved   *)
(* phase and none ever goes back.                                          *)
(***************************************************************************)
CONSTANTS Names, Seeded

VARIABLE phase

Init == phase = [n \in Names |-> IF n \in Seeded THEN "open" ELSE "free"]

Advance(n, from, to) == phase[n] = from /\ phase' = [phase EXCEPT ![n] = to]

Next == \E n \in Names : Advance(n, "free", "reserved") \/ Advance(n, "reserved", "open")

Spec == Init /\ [][Next]_phase
================================================================================
