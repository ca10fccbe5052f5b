----------------------------- MODULE RefreshWindow -----------------------------
(***************************************************************************)
(* The token-refresh escalation over time: which failures, by when they     *)
(* occurred, halt the bot.  Failures are reported in the order they occur   *)
(* and every report commits; KillSwitch has the errors and the concurrency. *)
(***************************************************************************)
EXTENDS RefreshCounter, Sequences, FiniteSets

CONSTANTS MaxTime, MaxLog   \* bounds: the clock, and the failures reported

ASSUME BoundAssumption == MaxTime \in Nat /\ MaxLog \in Nat

VARIABLES
  now,
  counter,     \* the durable counter
  halted,      \* the halt the counter trips
  log,         \* history: when each failure occurred
  cleared      \* history: how many of them the last clear found

windowVars == <<now, counter, halted, log, cleared>>

WindowInit == now = 0 /\ counter = NoFailures /\ halted = FALSE /\ log = <<>> /\ cleared = 0

Tick == now < MaxTime /\ now' = now + 1 /\ UNCHANGED <<counter, halted, log, cleared>>

\* doReportTokenRefresh.
Fail ==
  /\ Len(log) < MaxLog
  /\ counter' = NextTokenRefresh(counter, now)
  /\ halted' = (halted \/ TokenRefreshDue(counter'))
  /\ log' = Append(log, now)
  /\ UNCHANGED <<now, cleared>>

\* ClearHalt lowers the halt and leaves the counter as it is.
Clear ==
  /\ halted /\ halted' = FALSE
  /\ cleared' = Len(log)
  /\ UNCHANGED <<now, counter, log>>

WindowNext == Tick \/ Fail \/ Clear
WindowSpec == WindowInit /\ [][WindowNext]_windowVars

-----------------------------------------------------------------------------
\* How many of the failures after the first n occurred in the window that opens at a.
InWindow(a, n) ==
  Cardinality({i \in (n + 1) .. Len(log) : log[i] \in a .. (a + TokenRefreshWindow)})

\* The last threshold of these failures are there, and the first and the last of them are
\* no further apart than the window.
FullWindow(failures) ==
  LET n == Len(failures)
  IN /\ n >= TokenRefreshThreshold
     /\ failures[n] - failures[n - TokenRefreshThreshold + 1] <= TokenRefreshWindow

\* Each time the counter halts the bot, the failure at hand and those just before it make up
\* a full threshold within one window.  Failures from before a clear may be among them, for
\* ClearHalt keeps the counter (clear.go:37-49); those of a window that has passed may not,
\* though the clear left the count at the threshold (report.go:105-116).
HaltIsEarned == [][~halted /\ halted' => FullWindow(log')]_windowVars

\* How late the halt can be: an unhalted bot has seen, since the last clear, at most two
\* thresholds less two failures within any span of one window, one partial window
\* before a restart of the count and one after it.  The comments call the window sliding
\* (switch.go:30, report.go:105); it is anchored at the first failure it counts.
MissedAtMostTwice ==
  ~halted =>
    \A a \in 0 .. MaxTime : InWindow(a, cleared) <= 2 * (TokenRefreshThreshold - 1)
=============================================================================
