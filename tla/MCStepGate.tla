----------------------------- MODULE MCStepGate -----------------------------
(* Model-checking instances of StepGate. *)
EXTENDS StepGate, TLC

\* Callers are interchangeable: no action or property tells them apart.
CallerSymmetry == Permutations(Callers)
=============================================================================
