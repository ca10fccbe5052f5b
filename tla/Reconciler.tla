------------------------------- MODULE Reconciler -------------------------------
(***************************************************************************)
(* The reconciler of internal/reconciler: one cycle at a time loads the     *)
(* unresolved intents, blocks the symbols of ambiguous submits, looks every *)
(* acked order up once, applies the verdicts in journal order and releases  *)
(* the blocks whose evidence is gone.  Calls keep submitting, the broker    *)
(* keeps deciding, the clock runs and the process may crash between any two *)
(* steps.  A step is one call into the journal, the kill switch, the broker *)
(* or the audit sink.                                                       *)
(*                                                                          *)
(* Prepared-only intents, which a cycle closes without a lookup, are in      *)
(* SubmitPath, the rows and their audit acks in Journal, a trip in           *)
(* KillSwitch: here it halts, durably or not.  Payloads decode to a symbol,  *)
(* and a cycle that a shutdown cuts short is a Crash.                        *)
(***************************************************************************)
EXTENDS Integers, FiniteSetsExt

CONSTANTS
  N,                      \* intents, numbered in journal order (created_at, intent_id)
  SymbolOf,               \* the symbol of each
  SettleWindow, OrderFailureThreshold, AmbiguousBacklogThreshold,
  MaxCycleFailures,       \* maxConsecutiveCycleFailures
  MaxNow, MaxFaults, MaxCrashes    \* bounds: clock, failures of a medium, crashes

Intents == 1 .. N
Symbols == {SymbolOf[i] : i \in Intents}

ASSUME ReconcilerAssumption ==
  /\ N \in Nat /\ DOMAIN SymbolOf = Intents
  /\ {SettleWindow, OrderFailureThreshold, AmbiguousBacklogThreshold, MaxCycleFailures,
      MaxNow} \subseteq Nat \ {0}
  /\ {MaxFaults, MaxCrashes} \subseteq Nat

VARIABLES
  order,       \* what became of each intent, at the broker once acked
  at,          \* when it was submit-attempted: orderingAt
  closed,      \* the intents resolved in the journal, with order as the verdict
  count,       \* the durable order-failure counter
  halted,      \* the global halt
  blocked,     \* the symbols this reconciler blocks in the kill switch
  gate,        \* the replay gate, open once a restart scan succeeded
  watermark, newest,     \* the first scan's time; newestCountedFailureAt
  failures, promoted,    \* consecutiveFailures, promoted
  pc, cur, view, needBlock,    \* the cycle: its next step and its locals
  now, faults, crashes,
  streak,      \* history: intents counted as failures since the last reset
  evidence     \* history: intents seen ambiguous or unclassifiable, and not yet known since

journalVars == <<order, at, closed>>
memory == <<blocked, gate, watermark, newest, failures, promoted>>
cycleVars == <<pc, cur, view, needBlock>>
world == <<now, crashes>>
vars == <<journalVars, count, halted, memory, cycleVars, world, faults, streak, evidence>>

NoTime == 0
Later(a, b) == IF a >= b THEN a ELSE b

Terminal == {"filled", "canceled", "rejected"}
AckedOrders == {"open", "unknown"} \cup Terminal
Unacked == {"attempted", "lost"}      \* lost: its process died before the answer
Orders == {"none"} \cup Unacked \cup AckedOrders
Views == {"absent", "settling", "ambiguous", "unread", "failed"} \cup AckedOrders
NoView == [i \in Intents |-> "absent"]

Init ==
  /\ order = [i \in Intents |-> "none"] /\ at = [i \in Intents |-> NoTime] /\ closed = {}
  /\ count = 0 /\ halted = FALSE
  /\ blocked = {} /\ gate = FALSE /\ watermark = NoTime /\ newest = NoTime
  /\ failures = 0 /\ promoted = FALSE
  /\ pc = "idle" /\ cur = 0 /\ view = NoView /\ needBlock = {}
  /\ now = 1 /\ faults = 0 /\ crashes = 0
  /\ streak = {} /\ evidence = {}

-----------------------------------------------------------------------------
(* The submit path and the broker *)

\* A call of this process, past the gate, commits submit-attempted; calls run
\* concurrently, so not always in journal order.
Attempt(i) ==
  /\ gate /\ order[i] = "none"
  /\ order' = [order EXCEPT ![i] = "attempted"]
  /\ at' = [at EXCEPT ![i] = now]
  /\ UNCHANGED <<closed, count, halted, memory, cycleVars, world, faults, streak, evidence>>

Moves(i, states) ==
  /\ \E s \in states : order' = [order EXCEPT ![i] = s]
  /\ UNCHANGED <<at, closed, count, halted, memory, cycleVars, world, faults, streak, evidence>>

Ack(i) == order[i] = "attempted" /\ Moves(i, {"open"})

\* unknown: a status this build cannot classify; a later one may be known again.
Decide(i) ==
  \/ order[i] = "open" /\ Moves(i, Terminal \cup {"unknown"})
  \/ order[i] = "unknown" /\ Moves(i, Terminal)

-----------------------------------------------------------------------------
(* A cycle: phase 1 *)

Fault == faults < MaxFaults /\ faults' = faults + 1

\* The acked intents of a snapshot, in journal order from k on; N + 1 after the last.
Acked(v) == {i \in Intents : v[i] \notin {"absent", "settling", "ambiguous"}}
NextAcked(v, k) == Min({i \in Acked(v) : i > k} \cup {N + 1})

classify(i) ==
  CASE i \in closed \/ order[i] = "none" -> "absent"
    [] i \notin closed /\ order[i] \in AckedOrders -> "unread"
    [] i \notin closed /\ order[i] \in Unacked ->
         IF now - at[i] >= SettleWindow THEN "ambiguous" ELSE "settling"

MarkWatermark == watermark' = IF watermark = NoTime THEN now ELSE watermark

\* tripSymbol, of each; a trip of a symbol is in memory and does not fail.
TripSymbols(symbols) == blocked' = blocked \cup symbols

\* The load, the ambiguous floor and the backlog escalation.
BeginCycle ==
  /\ pc = "idle"
  /\ view' = [i \in Intents |-> classify(i)]
  /\ LET ambiguous == {i \in Intents : view'[i] = "ambiguous"}
         first == NextAcked(view', 0) IN
       /\ needBlock' = {SymbolOf[i] : i \in ambiguous}
       /\ TripSymbols(needBlock')
       /\ evidence' = evidence \cup ambiguous
       /\ halted' = (halted \/ Cardinality(ambiguous) >= AmbiguousBacklogThreshold)
       /\ IF first <= N THEN pc' = "lookup" /\ cur' = first ELSE pc' = "clear" /\ cur' = 0
  /\ MarkWatermark
  /\ UNCHANGED <<journalVars, count, gate, newest, failures, promoted, world, faults, streak>>

\* promoteFailClosed: once per process.
Promote(due) ==
  /\ promoted' = (promoted \/ due)
  /\ halted' = (halted \/ (due /\ ~promoted))

\* The end of a cycle that returned an error or panicked; boot is BootScan's own promotion.
CycleFails(boot) ==
  /\ Fault
  /\ failures' = failures + 1
  /\ Promote(boot \/ failures' >= MaxCycleFailures)
  /\ pc' = "idle" /\ cur' = 0 /\ view' = NoView /\ needBlock' = {}
  /\ UNCHANGED <<journalVars, count, blocked, gate, watermark, newest, world, streak, evidence>>

LoadFails == pc = "idle" /\ CycleFails(~gate)
Panic == pc # "idle" /\ CycleFails(FALSE)

-----------------------------------------------------------------------------
(* Phase 2: one lookup per acked intent, then the verdicts *)

\* GetOrder answers, or its bounded retries are exhausted.
GetOrder ==
  /\ pc = "lookup"
  /\ \E verdict \in {order[cur], "failed"} :
       /\ view' = [view EXCEPT ![cur] = verdict]
       /\ evidence' = IF verdict \in {"failed", "unknown"} THEN evidence ELSE evidence \ {cur}
  /\ IF NextAcked(view, cur) <= N THEN pc' = "lookup" /\ cur' = NextAcked(view, cur)
     ELSE pc' = "verdict" /\ cur' = NextAcked(view, 0)
  /\ UNCHANGED <<journalVars, count, halted, memory, needBlock, world, faults, streak>>

Advance ==
  /\ IF NextAcked(view, cur) <= N THEN pc' = "verdict" /\ cur' = NextAcked(view, cur)
     ELSE pc' = "clear" /\ cur' = 0
  /\ UNCHANGED view
GoOn(step) == pc' = step /\ UNCHANGED <<cur, view>>

Verdict(v) == pc = "verdict" /\ view[cur] = v

\* A slip: what a cycle did not see is released.
KeepBlockForgets ==
  /\ Verdict("failed")
  /\ Advance
  /\ UNCHANGED <<journalVars, count, halted, memory, needBlock, world, faults, streak, evidence>>

\* verdictLookupFailed: nothing is learned, so a standing block stays.
KeepBlock ==
  /\ Verdict("failed")
  /\ needBlock' = needBlock \cup ({SymbolOf[cur]} \cap blocked)
  /\ Advance
  /\ UNCHANGED <<journalVars, count, halted, memory, world, faults, streak, evidence>>

\* verdictUnknownStatus
BlockUnknown ==
  /\ Verdict("unknown")
  /\ needBlock' = needBlock \cup {SymbolOf[cur]}
  /\ TripSymbols({SymbolOf[cur]})
  /\ evidence' = evidence \cup {cur}
  /\ Advance
  /\ UNCHANGED <<journalVars, count, halted, gate, watermark, newest, failures, promoted,
                 world, faults, streak>>

\* emitFillDelta or the lifecycle emit fails: fail-closed, with a trip, or otherwise.
EmitFails == Fault /\ (halted' = TRUE \/ UNCHANGED halted)
Emitted == UNCHANGED <<halted, faults>>

\* A slip: an order whose lookup failed holds nothing back.
InDoubtAnswered == {i \in Intents : view[i] \in {"unknown", "settling"}}

InDoubt == {i \in Intents : view[i] \in {"failed", "unknown", "settling"}}
earlierInDoubt(t) == \E i \in InDoubt : at[i] <= t

\* verdictOpen, verdictFilled, verdictCanceled: the execution is recorded first; a fill
\* waits while an order at least as old is in doubt.
RecordFill ==
  /\ pc = "verdict" /\ view[cur] \in {"open", "filled", "canceled"}
  /\ IF view[cur] = "filled" /\ earlierInDoubt(at[cur]) THEN Advance /\ Emitted
     ELSE \/ Emitted /\ IF view[cur] = "open" THEN Advance ELSE GoOn("resolve")
          \/ EmitFails /\ Advance
  /\ UNCHANGED <<journalVars, count, memory, needBlock, world, streak, evidence>>

\* verdictRejected: ReportOrderFailure counts, and halts in the same transaction, or
\* fails and the intent is left as it is.
CountRejected ==
  /\ Verdict("rejected")
  /\ \/ /\ count' = count + 1 /\ streak' = streak \cup {cur}
        /\ halted' = (halted \/ count' >= OrderFailureThreshold)
        /\ newest' = Later(newest, at[cur])
        /\ GoOn("resolve") /\ UNCHANGED faults
     \/ Fault /\ Advance /\ UNCHANGED <<count, streak, halted, newest>>
  /\ UNCHANGED <<journalVars, blocked, gate, watermark, failures, promoted, needBlock, world,
                 evidence>>

\* resolve: no other component resolves an acked intent, so it commits, converging the
\* audit trail after it, or the medium fails, which halts.
Resolve ==
  /\ pc = "resolve"
  /\ \/ /\ closed' = closed \cup {cur}
        /\ IF view[cur] = "filled" THEN GoOn("reset") ELSE Advance
        /\ Emitted \/ EmitFails
     \/ Fault /\ halted' = TRUE /\ Advance /\ UNCHANGED closed
  /\ UNCHANGED <<order, at, count, memory, needBlock, world, streak, evidence>>

newerFailureCounted(t) == newest # NoTime /\ newest >= t

\* A slip: only what this process counted is looked at.
ResetDueInProcess == ~newerFailureCounted(at[cur])

\* A reset that could pass over a newer failure, of this process or of an earlier one, is
\* dropped.
ResetDue == ~newerFailureCounted(at[cur]) /\ at[cur] > watermark

\* ReportOrderSuccess
ResetStreak ==
  /\ pc = "reset" /\ ResetDue
  /\ count' = 0 /\ streak' = {}
  /\ Advance
  /\ UNCHANGED <<journalVars, halted, memory, needBlock, world, faults, evidence>>

KeepStreak ==
  /\ pc = "reset"
  /\ \/ ~ResetDue /\ UNCHANGED faults
     \/ Fault
  /\ Advance
  /\ UNCHANGED <<journalVars, count, halted, memory, needBlock, world, streak, evidence>>

-----------------------------------------------------------------------------
(* Phase 3, the gate and the audit pass *)

reconcileSymbolBlocks ==
  /\ pc = "clear"
  /\ blocked' = blocked \cap needBlock
  /\ GoOn(IF gate THEN "audit" ELSE "gate")
  /\ UNCHANGED <<journalVars, count, halted, gate, watermark, newest, failures, promoted,
                 needBlock, world, faults, streak, evidence>>

NotifyScanComplete ==
  /\ pc = "gate"
  /\ gate' = TRUE
  /\ GoOn("audit")
  /\ UNCHANGED <<journalVars, count, halted, blocked, watermark, newest, failures, promoted,
                 needBlock, world, faults, streak, evidence>>

\* reemitAudit ends the cycle, with or without a failed emit.
ReemitAudit ==
  /\ pc = "audit"
  /\ Emitted \/ EmitFails
  /\ failures' = 0
  /\ pc' = "idle" /\ cur' = 0 /\ view' = NoView /\ needBlock' = {}
  /\ UNCHANGED <<journalVars, count, blocked, gate, watermark, newest, promoted, world, streak,
                 evidence>>

-----------------------------------------------------------------------------
Tick ==
  /\ now < MaxNow /\ now' = now + 1
  /\ UNCHANGED <<journalVars, count, halted, memory, cycleVars, crashes, faults, streak, evidence>>

\* The operator, or a crash that loses a halt not yet durable.
ClearHalt ==
  /\ halted /\ halted' = FALSE
  /\ UNCHANGED <<journalVars, count, memory, cycleVars, world, faults, streak, evidence>>

Crash ==
  /\ crashes < MaxCrashes /\ crashes' = crashes + 1
  /\ order' = [i \in Intents |-> IF order[i] = "attempted" THEN "lost" ELSE order[i]]
  /\ blocked' = {} /\ gate' = FALSE /\ watermark' = NoTime /\ newest' = NoTime
  /\ failures' = 0 /\ promoted' = FALSE
  /\ pc' = "idle" /\ cur' = 0 /\ view' = NoView /\ needBlock' = {}
  /\ UNCHANGED <<at, closed, count, halted, now, faults, streak, evidence>>

\* BootScan while the gate is closed, Reconcile afterwards; a tick or a wake may come at
\* any time, and none in the middle of a cycle.
Cycle ==
  \/ BeginCycle \/ GetOrder \/ KeepBlock \/ BlockUnknown \/ RecordFill \/ CountRejected
  \/ Resolve \/ ResetStreak \/ KeepStreak \/ reconcileSymbolBlocks \/ NotifyScanComplete
  \/ ReemitAudit

Next ==
  \/ \E i \in Intents : Attempt(i) \/ Ack(i) \/ Decide(i)
  \/ Cycle \/ LoadFails \/ Panic \/ Tick \/ ClearHalt \/ Crash

Spec == Init /\ [][Next]_vars

-----------------------------------------------------------------------------
TypeOK ==
  /\ order \in [Intents -> Orders] /\ at \in [Intents -> 0 .. MaxNow]
  /\ closed \subseteq Intents /\ \A i \in closed : order[i] \in Terminal
  /\ count \in Nat /\ Cardinality(streak) <= count
  /\ halted \in BOOLEAN /\ blocked \subseteq Symbols /\ gate \in BOOLEAN
  /\ watermark \in 0 .. now /\ newest \in 0 .. now
  /\ failures \in 0 .. MaxFaults /\ promoted \in BOOLEAN
  /\ pc \in {"idle", "lookup", "verdict", "resolve", "reset", "clear", "gate", "audit"}
  /\ cur \in 0 .. N /\ ((cur = 0) <=> pc \in {"idle", "clear", "gate", "audit"})
  /\ view \in [Intents -> Views] /\ needBlock \subseteq Symbols
  /\ now \in 1 .. MaxNow /\ faults \in 0 .. MaxFaults /\ crashes \in 0 .. MaxCrashes
  /\ streak \subseteq Intents /\ evidence \subseteq Intents

InSubmitOrder == \A i, j \in Intents : i < j /\ at[j] # NoTime => at[i] # NoTime /\ at[i] <= at[j]

\* A rejection the broker had made when this cycle looked, older than the fill at hand
\* and still unresolved: the evidence whose order Decision 8 protects.
OlderRejection(i) ==
  /\ i \notin closed /\ order[i] = "rejected" /\ at[i] < at[cur]
  /\ view[i] \notin {"open", "ambiguous"}

\* A rejection that has left the unresolved set is in the durable streak or was followed,
\* in submit order, by a fill; so the counter never forgets a failure that no later
\* success excuses, across crashes and late lookups (drive.go:237-256, 192-218).
NoFailureErased ==
  \A i \in closed : order[i] = "rejected" =>
    i \in streak \/ \E f \in closed : order[f] = "filled" /\ at[f] > at[i]

\* A success reset waits for the rejections that came before it: with every count
\* written and calls that submit in journal order, none is passed over (drive.go:62-82).
OrderedResets ==
  [][ResetStreak /\ faults = 0 /\ InSubmitOrder
     => \A i \in Intents : OlderRejection(i) => i \in streak]_vars

\* While orders may be submitted, a symbol with evidence against it is blocked: nothing
\* but an answer lifts it, and a restart re-derives it for submits without an answer
\* (drive.go:121-135, run.go:25-29, scan.go:128-133).
EvidenceBlocks ==
  gate => \A i \in evidence : order[i] \in Unacked \/ crashes = 0 => SymbolOf[i] \in blocked
=============================================================================
