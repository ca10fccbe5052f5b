------------------------------ MODULE MCReconciler ------------------------------
EXTENDS Reconciler

\* Two intents share a symbol.
MCSymbolOf == [i \in 1 .. 2 |-> "a"]
=============================================================================
