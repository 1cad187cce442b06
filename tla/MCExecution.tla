----------------------------- MODULE MCExecution -----------------------------
(* The instances of Execution that TLC checks. *)
EXTENDS ExecutionProperties, TLC

\* Handlers are interchangeable: no action tells one from another.
HandlerSymmetry == Permutations(Handlers)
==============================================================================
