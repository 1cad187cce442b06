------------------------------ MODULE MCRecords ------------------------------
EXTENDS Records, TLC

(* All three keys are seeded. *)
CONSTANTS m1, m2, m3
MCDefaults == <<m1, m2, m3>>

Symmetry == Permutations(Requests) \cup Permutations(Values)
=============================================================================
