------------------------------ MODULE MCStoreOpen ------------------------------
EXTENDS StoreOpen, TLC

CONSTANTS i1, i2, o1

Shape(kind, orderId) == [kind |-> kind, orderId |-> orderId]
\* The protocol's, and an acked marker without its order.
SomeShapes ==
  {Shape("prepared", NoOrder), Shape("submit-attempted", NoOrder), Shape("acked", o1),
   Shape("acked", NoOrder)}

Symmetry == Permutations({i1, i2})
=============================================================================
