------------------------------- MODULE MCJournal -------------------------------
(* The journal for TLC.  Intents are interchangeable. *)
EXTENDS Journal, TLC

IntentSymmetry == Permutations(Intents)
=============================================================================
