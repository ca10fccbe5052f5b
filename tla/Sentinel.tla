-------------------------------- MODULE Sentinel --------------------------------
(***************************************************************************)
(* The lifetimes of the bot's process: internal/runtime boots over the       *)
(* clean-shutdown sentinel, runs the reconciler under the supervisor, and    *)
(* on a signal drains it, waits for token refreshes to go quiet, judges      *)
(* whether this run may certify itself clean and exits.  Crashes come        *)
(* between any two steps, and the store may fail in any call.                *)
(*                                                                           *)
(* The kill switch is what KillSwitch shows of it: a halt is durable, or     *)
(* latched in memory, or a boot halt, and trips and counts happen in one     *)
(* step each with whatever part of them commits.  The token manager is its   *)
(* flights, detached from the supervisor, and the reports they owe; the      *)
(* audit sink has no part in the judgment.                                   *)
(***************************************************************************)
EXTENDS Integers

CONSTANT MaxReports    \* bound: failure reports owed at a time

ASSUME SentinelAssumption == MaxReports \in Nat \ {0}

VARIABLES
  lifecycle,   \* the durable sentinel
  phase,       \* the durable halt
  latch, bootHalt,     \* the kill switch's halts in memory
  gate,        \* its replay gate
  loop,        \* the supervised reconciler goroutine
  inflight, reports,   \* a token issuance runs; failure reports it still owes
  pc,          \* where main is
  drained,     \* App.Run's local
  owed,        \* history: a halt was decided, or a failed refresh went uncounted
  doubt        \* history: something in this run speaks against a clean exit

durable == <<lifecycle, phase>>
guard == <<latch, bootHalt, gate>>
token == <<inflight, reports>>
sentinelVars == <<durable, guard, loop, token, pc, drained, owed, doubt>>

Phases == {"none", "pending", "halted"}
Booting == {"read", "flip"}
Judging == {"judge", "finalize", "readHalt", "writeClean"}
Alive == Booting \cup {"up", "drain", "quiesce", "close", "exit"} \cup Judging
StoreOpen == pc \in Alive \ {"exit"}

\* A fresh store's row says running, so a first boot is conservative.
SentinelInit ==
  /\ lifecycle = "running" /\ phase = "none"
  /\ latch = FALSE /\ bootHalt = FALSE /\ gate = FALSE
  /\ loop = "off" /\ inflight = FALSE /\ reports = 0
  /\ pc = "down" /\ drained = FALSE
  /\ owed = FALSE /\ doubt = FALSE

HasUnpersistedPendingHalt == latch \/ bootHalt
Blocked == phase # "none" \/ HasUnpersistedPendingHalt
MaySubmit == gate /\ ~Blocked

-----------------------------------------------------------------------------
(* Boot *)

\* killswitch.New: an unreadable halt boots halted.
Assemble ==
  /\ pc = "down" /\ pc' = "read"
  /\ bootHalt' \in BOOLEAN
  /\ doubt' = (bootHalt' \/ phase # "none")
  /\ UNCHANGED <<durable, latch, gate, loop, token, drained, owed>>

\* A slip: a sentinel that cannot be read says nothing against the last run.
ReadSentinelTrusting ==
  /\ pc = "read" /\ pc' = "flip"
  /\ \E readable \in BOOLEAN :
       LET conservative == readable /\ lifecycle # "clean" IN
         /\ bootHalt' = (bootHalt \/ conservative)
         /\ doubt' = (doubt \/ conservative)
  /\ UNCHANGED <<durable, latch, gate, loop, token, drained, owed>>

\* BootSentinel, up to the flip: anything but a clean that could be read is unclean.
ReadSentinel ==
  /\ pc = "read" /\ pc' = "flip"
  /\ \E readable \in BOOLEAN :
       LET conservative == ~readable \/ lifecycle # "clean" IN
         /\ bootHalt' = (bootHalt \/ conservative)
         /\ doubt' = (doubt \/ conservative)
  /\ UNCHANGED <<durable, latch, gate, loop, token, drained, owed>>

Flip ==
  /\ pc = "flip" /\ pc' = "up"
  /\ lifecycle' = "running" /\ loop' = "running"
  /\ UNCHANGED <<phase, guard, token, drained, owed, doubt>>

\* The write failed, whether or not it took effect: the boot is refused.
FlipFails ==
  /\ pc = "flip" /\ pc' = "exit"
  /\ lifecycle' \in {lifecycle, "running"} /\ bootHalt' = TRUE /\ doubt' = TRUE
  /\ UNCHANGED <<phase, latch, gate, loop, token, drained, owed>>

-----------------------------------------------------------------------------
(* What runs beside main: the reconciler, token flights, the operator *)

NotifyScanComplete ==
  /\ loop = "running" /\ gate' = TRUE
  /\ UNCHANGED <<durable, latch, bootHalt, loop, token, pc, drained, owed, doubt>>

HaltCommits == StoreOpen /\ phase' = "halted" /\ UNCHANGED latch

\* The latch; MarkHaltPending may have gone through before.
HaltFails ==
  /\ latch' = TRUE
  /\ phase' = phase \/ (StoreOpen /\ phase = "none" /\ phase' = "pending")

Trip ==
  /\ loop = "running"
  /\ HaltCommits \/ HaltFails
  /\ owed' = TRUE /\ doubt' = TRUE
  /\ UNCHANGED <<lifecycle, bootHalt, gate, loop, token, pc, drained>>

StartFlight ==
  /\ loop = "running" /\ ~inflight /\ reports < MaxReports
  /\ inflight' = TRUE
  /\ UNCHANGED <<durable, guard, loop, reports, pc, drained, owed, doubt>>

\* A failed flight retains its report as it ends.
EndFlight ==
  /\ inflight /\ inflight' = FALSE
  /\ reports' \in {reports, reports + 1}
  /\ UNCHANGED <<durable, guard, loop, pc, drained, owed, doubt>>

Counted == StoreOpen /\ UNCHANGED <<phase, latch, owed, doubt>>
CountHalts == HaltCommits /\ owed' = TRUE /\ doubt' = TRUE
CountFails == latch' = TRUE /\ owed' = TRUE /\ doubt' = TRUE /\ UNCHANGED phase

\* A slip: the report inherits the context the signal has cancelled.
ReportUnderSignal ==
  /\ reports > 0 /\ reports' = reports - 1
  /\ \/ pc = "up" /\ (Counted \/ CountHalts \/ CountFails)
     \/ pc # "up" /\ latch' = TRUE /\ owed' = TRUE /\ UNCHANGED <<phase, doubt>>
  /\ UNCHANGED <<lifecycle, bootHalt, gate, loop, inflight, pc, drained>>

\* tokenFailureReporter, detached from the signal: counted below the threshold, at it,
\* or not at all, which latches.
Report ==
  /\ reports > 0 /\ reports' = reports - 1
  /\ Counted \/ CountHalts \/ CountFails
  /\ UNCHANGED <<lifecycle, bootHalt, gate, loop, inflight, pc, drained>>

\* ClearHalt.
OperatorClears ==
  /\ StoreOpen
  /\ phase' = "none" /\ latch' = FALSE /\ bootHalt' = FALSE /\ owed' = FALSE
  /\ UNCHANGED <<lifecycle, gate, loop, token, pc, drained, doubt>>

-----------------------------------------------------------------------------
(* Shutdown *)

Signal ==
  /\ pc = "up" /\ pc' = "drain"
  /\ UNCHANGED <<durable, guard, loop, token, drained, owed, doubt>>

EndLoop ==
  /\ loop = "running" /\ pc \notin {"down", "up"}
  /\ loop' = "ended"
  /\ UNCHANGED <<durable, guard, token, pc, drained, owed, doubt>>

\* Supervisor.Wait
Wait ==
  /\ pc = "drain" /\ pc' = "quiesce"
  /\ \/ loop = "ended" /\ drained' = TRUE /\ UNCHANGED doubt
     \/ drained' = FALSE /\ doubt' = TRUE
  /\ UNCHANGED <<durable, guard, loop, token, owed>>

\* A slip: the wait has no timeout.
WaitForRefreshQuiescenceUnbounded ==
  /\ pc = "quiesce" /\ pc' = "judge"
  /\ ~inflight /\ reports = 0
  /\ UNCHANGED <<durable, guard, loop, token, drained, owed, doubt>>

WaitForRefreshQuiescence ==
  /\ pc = "quiesce" /\ pc' = "judge"
  /\ \/ ~inflight /\ reports = 0 /\ UNCHANGED <<drained, doubt>>
     \/ drained' = FALSE /\ doubt' = TRUE
  /\ UNCHANGED <<durable, guard, loop, token, owed>>

\* ShutdownSentinel
Judge ==
  /\ pc = "judge"
  /\ pc' = IF ~drained THEN "close"
           ELSE IF HasUnpersistedPendingHalt THEN "finalize" ELSE "readHalt"
  /\ UNCHANGED <<durable, guard, loop, token, drained, owed, doubt>>

\* A slip: the nil error of a no-op finalize is trusted.
FinalizePendingHaltTrusted ==
  /\ pc = "finalize"
  /\ phase' = IF latch THEN "halted" ELSE phase
  /\ latch' = FALSE
  /\ pc' = "readHalt"
  /\ UNCHANGED <<lifecycle, bootHalt, gate, loop, token, drained, owed, doubt>>

\* FinalizePendingHalt, a no-op without a latch, after which the guard is asked again.
FinalizePendingHalt ==
  /\ pc = "finalize"
  /\ phase' = IF latch THEN "halted" ELSE phase
  /\ latch' = FALSE
  /\ pc' = IF bootHalt THEN "close" ELSE "readHalt"
  /\ UNCHANGED <<lifecycle, bootHalt, gate, loop, token, drained, owed, doubt>>

FinalizeFails ==
  /\ pc = "finalize" /\ latch /\ pc' = "close"
  /\ HaltFails
  /\ doubt' = TRUE
  /\ UNCHANGED <<lifecycle, bootHalt, gate, loop, token, drained, owed>>

ReadHalt ==
  /\ pc = "readHalt"
  /\ \/ pc' = (IF phase = "none" THEN "writeClean" ELSE "close") /\ UNCHANGED doubt
     \/ pc' = "close" /\ doubt' = TRUE
  /\ UNCHANGED <<durable, guard, loop, token, drained, owed>>

\* A write that reports an error may have taken effect.
WriteClean ==
  /\ pc = "writeClean" /\ pc' = "close"
  /\ \/ lifecycle' = "clean" /\ UNCHANGED doubt
     \/ lifecycle' \in {lifecycle, "clean"} /\ doubt' = TRUE
  /\ UNCHANGED <<phase, guard, loop, token, drained, owed>>

CloseSinks ==
  /\ pc = "close" /\ pc' = "exit"
  /\ UNCHANGED <<durable, guard, loop, token, drained, owed, doubt>>

\* What memory held is gone, with it the refresh failures nobody counted.
Die ==
  /\ pc' = "down"
  /\ latch' = FALSE /\ bootHalt' = FALSE /\ gate' = FALSE
  /\ loop' = "off" /\ inflight' = FALSE /\ reports' = 0 /\ drained' = FALSE
  /\ owed' = (owed \/ reports > 0)
  /\ UNCHANGED <<durable, doubt>>

Exit == pc = "exit" /\ Die
Crash == pc \in Alive /\ Die

Boot == Assemble \/ ReadSentinel \/ Flip \/ FlipFails
Beside ==
  \/ NotifyScanComplete \/ Trip \/ EndLoop
  \/ StartFlight \/ EndFlight \/ Report \/ OperatorClears
Shutdown ==
  \/ Wait \/ WaitForRefreshQuiescence \/ Judge \/ FinalizePendingHalt \/ FinalizeFails
  \/ ReadHalt \/ WriteClean \/ CloseSinks \/ Exit

SentinelNext == Boot \/ Beside \/ Signal \/ Shutdown \/ Crash

\* Main is one goroutine whose every wait has a timeout (app.go:237, 260, sentinel.go:290).
SentinelSpec == SentinelInit /\ [][SentinelNext]_sentinelVars
FairSpec == SentinelSpec /\ WF_sentinelVars(Shutdown)

-----------------------------------------------------------------------------
\* Nothing of the process outlives it, and nothing of it runs before the flip.
TypeOK ==
  /\ lifecycle \in {"running", "clean"} /\ phase \in Phases
  /\ latch \in BOOLEAN /\ bootHalt \in BOOLEAN /\ gate \in BOOLEAN
  /\ loop \in {"off", "running", "ended"} /\ inflight \in BOOLEAN
  /\ reports \in 0 .. MaxReports /\ (inflight => reports < MaxReports)
  /\ pc \in Alive \cup {"down"} /\ drained \in BOOLEAN
  /\ owed \in BOOLEAN /\ doubt \in BOOLEAN

\* Nothing is submitted over a halt that was decided, or a refresh failure that may have
\* been one, in this or in any earlier process, until an operator clears it
\* (sentinel.go:89-109, 183-202).
NoHaltForgotten == MaySubmit => ~owed

\* While the store says clean, no halt is owed or durable and nothing that could still
\* halt is running: the next boot may trust it (app.go:243-255, sentinel.go:127-146).
CleanIsEarned ==
  lifecycle = "clean" =>
    ~owed /\ phase = "none" /\ loop # "running" /\ ~inflight /\ reports = 0

\* A run that shuts down with nothing against it is certified clean, so that a restart
\* does not halt the bot (app.go:291-300, sentinel.go:275-280).
OrdinaryExitIsClean == pc = "exit" /\ ~doubt => lifecycle = "clean"

\* A signalled shutdown ends, whatever hangs (supervisor.go:62-66, sentinel.go:279-280).
ShutdownEnds == pc = "drain" ~> pc = "down"
=============================================================================
