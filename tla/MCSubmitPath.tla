----------------------------- MODULE MCSubmitPath -----------------------------
(* The submit path for TLC.  Calls, intents and order ids are interchangeable. *)
EXTENDS SubmitPath, TLC

CallSymmetry == Permutations(Calls) \cup Permutations(Intents) \cup Permutations(OrderIds)
=============================================================================
