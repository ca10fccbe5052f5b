---------------------------- MODULE RefreshCounter ----------------------------
(* The windowed token-refresh counter of internal/killswitch, apart from the      *)
(* transaction that updates it.                                                   *)
EXTENDS Integers

CONSTANTS TokenRefreshThreshold, TokenRefreshWindow   \* Config, validated by New

ASSUME RefreshAssumption ==
  TokenRefreshThreshold \in Nat \ {0} /\ TokenRefreshWindow \in Nat \ {0}

NoTime == -1   \* the zero time.Time, and a window that has not started

NoFailures == [value |-> 0, start |-> NoTime]

\* A slip: a count that has tripped the halt is not restarted.
NextTokenRefreshStaysTripped(c, t) ==
  IF c.start = NoTime \/ (t - c.start > TokenRefreshWindow /\ c.value < TokenRefreshThreshold)
  THEN [value |-> 1, start |-> t]
  ELSE [c EXCEPT !.value = @ + 1]

\* A slip: the failure that opens a window is not counted in it.
NextTokenRefreshFirstFree(c, t) ==
  IF c.start = NoTime \/ t - c.start > TokenRefreshWindow
  THEN [value |-> 0, start |-> t]
  ELSE [c EXCEPT !.value = @ + 1]

\* What a token-refresh failure at t makes of the counter.
NextTokenRefresh(c, t) ==
  IF c.start = NoTime \/ t - c.start > TokenRefreshWindow
  THEN [value |-> 1, start |-> t]
  ELSE [c EXCEPT !.value = @ + 1]

\* The count trips the halt.
TokenRefreshDue(c) == c.value >= TokenRefreshThreshold
=============================================================================
