------------------------------ MODULE KillSwitch ------------------------------
(***************************************************************************)
(* internal/killswitch: the fail-closed guard of the one edge on which the  *)
(* bot takes new exposure.  The switch answers CanSubmit from a snapshot    *)
(* taken under mu, persists the global halt through the store before it     *)
(* shows it, and owns the two escalation counters that trip it.             *)
(*                                                                          *)
(* A thread is a goroutine inside one exported method.  Every region under  *)
(* mu and every store transaction is one step; haltMu is held from          *)
(* LockHaltMu to the step that releases it.  Each store transaction may     *)
(* fail (it then wrote nothing) and, inside a trip, may panic.  Crash loses *)
(* the memory and the threads; New is the next process.                     *)
(***************************************************************************)
EXTENDS RefreshCounter, FiniteSets

CONSTANTS
  Threads,                \* goroutines that may be inside the switch
  NoThread,               \* nobody: haltMu is free
  Symbols,                \* order symbols
  OrderFailureThreshold,  \* Config, validated by New
  Times,                  \* instants a token failure may have occurred at
  MaxFailures             \* bound: no report is started past this count

ASSUME ThreadsAssumption == IsFiniteSet(Threads) /\ NoThread \notin Threads

ASSUME ConfigAssumption == OrderFailureThreshold \in Nat \ {0}

ASSUME FailuresAssumption == Times \subseteq Nat /\ MaxFailures \in Nat

VARIABLES
  \* the store: survives a crash
  haltPhase,              \* halt_state.phase
  orderFailures,          \* counter killswitch.order_failure_streak
  tokenRefresh,           \* counter killswitch.token_refresh_failures
  \* the Switch: memory of one process
  up,                     \* a process is running
  durableHalt,            \* carrier 1: mirror of haltPhase
  unpersistedPending,     \* carrier 2: sticky latch
  inflightTrips,          \* carrier 3
  bootHalt,
  scanComplete,
  perSymbolBlocked,
  haltMu,                 \* the holder, or NoThread
  \* the goroutines
  pc, op, occurredAt,
  \* history: what the guard owes, read by the properties alone
  mustHalt,               \* this trip has to leave a halt behind
  standing                \* a trip that had to has ended, and no clear followed

durable == <<haltPhase, orderFailures, tokenRefresh>>
carriers == <<durableHalt, unpersistedPending, inflightTrips, bootHalt>>
gates == <<up, scanComplete, perSymbolBlocked>>
request == <<op, occurredAt>>
history == <<mustHalt, standing>>
vars == <<durable, carriers, gates, haltMu, pc, request, history>>

Phases == {"none", "pending", "halted"}
TripOps == {"global", "order", "token"}

\* Where a goroutine inside withTripCarrier can be, and where one that holds haltMu.
SpanPcs == {"wait", "body", "marked", "published", "tripped", "lost", "unlock",
            "recover", "release"}
ClearPcs == {"clearWait", "clearLocked", "clearSampled", "clearCommitted"}
FinPcs == {"finWait", "finLocked", "finMarked", "finPublished", "finTripped"}
Pcs == {"idle", "leave"} \cup SpanPcs \cup ClearPcs \cup FinPcs
LockedPcs == Pcs \ {"idle", "wait", "clearWait", "finWait", "recover", "release"}

InSpan(p) == pc[p] \in SpanPcs

-----------------------------------------------------------------------------
(* The predicates of the switch *)

\* A halt is mirrored, latched or raised at boot: what only a clear takes back.
Halted == durableHalt # "none" \/ unpersistedPending \/ bootHalt

\* What canSubmitLocked asks before it looks at the symbol.
GloballyBlocked == Halted \/ inflightTrips > 0 \/ ~scanComplete

CanSubmit(s) == up /\ ~GloballyBlocked /\ s \notin perSymbolBlocked

\* A slip: the latch alone, as if a boot halt were re-derived after a restart.
HasUnpersistedPendingHaltNoBoot == unpersistedPending /\ durableHalt = "none"
HasUnpersistedPendingHalt ==
  (unpersistedPending /\ durableHalt = "none") \/ bootHalt

-----------------------------------------------------------------------------
Init ==
  /\ haltPhase = "none" /\ orderFailures = 0
  /\ tokenRefresh = NoFailures
  /\ up = FALSE
  /\ durableHalt = "none" /\ unpersistedPending = FALSE /\ bootHalt = FALSE
  /\ inflightTrips = 0
  /\ scanComplete = FALSE /\ perSymbolBlocked = {}
  /\ haltMu = NoThread
  /\ pc = [p \in Threads |-> "idle"]
  /\ op = [p \in Threads |-> "global"]
  /\ occurredAt = [p \in Threads |-> NoTime]
  /\ mustHalt = [p \in Threads |-> FALSE]
  /\ standing = FALSE

Step(p, from, to) == up /\ pc[p] = from /\ pc' = [pc EXCEPT ![p] = to]

\* A process starts and loads the persisted halt: what is durable wins, and a row
\* that cannot be read is a boot halt.
New ==
  /\ ~up /\ up' = TRUE
  /\ \/ durableHalt' = haltPhase /\ UNCHANGED bootHalt
     \/ bootHalt' = TRUE /\ UNCHANGED durableHalt
  /\ UNCHANGED <<durable, unpersistedPending, inflightTrips, scanComplete,
                 perSymbolBlocked, haltMu, pc, request, history>>

\* The process dies: what the store holds is all that is left.
Crash ==
  /\ up /\ up' = FALSE
  /\ durableHalt' = "none" /\ unpersistedPending' = FALSE /\ bootHalt' = FALSE
  /\ inflightTrips' = 0
  /\ scanComplete' = FALSE /\ perSymbolBlocked' = {}
  /\ haltMu' = NoThread
  /\ pc' = [p \in Threads |-> "idle"]
  /\ op' = [p \in Threads |-> "global"]
  /\ occurredAt' = [p \in Threads |-> NoTime]
  /\ mustHalt' = [p \in Threads |-> FALSE]
  /\ standing' = (haltPhase # "none")
  /\ UNCHANGED durable

-----------------------------------------------------------------------------
(* Single steps under mu *)

NotifyScanComplete ==
  /\ up /\ scanComplete' = TRUE
  /\ UNCHANGED <<durable, carriers, up, perSymbolBlocked, haltMu, pc, request, history>>

BootHalt ==
  /\ up /\ bootHalt' = TRUE
  /\ UNCHANGED <<durable, durableHalt, unpersistedPending, inflightTrips, gates,
                 haltMu, pc, request, history>>

\* Trip with ScopeSymbol.
TripSymbol(s) ==
  /\ up /\ perSymbolBlocked' = perSymbolBlocked \cup {s}
  /\ UNCHANGED <<durable, carriers, up, scanComplete, haltMu, pc, request, history>>

ClearSymbol(s) ==
  /\ up /\ perSymbolBlocked' = perSymbolBlocked \ {s}
  /\ UNCHANGED <<durable, carriers, up, scanComplete, haltMu, pc, request, history>>

\* One store transaction and nothing else: no haltMu, no carrier.
ReportOrderSuccess ==
  /\ up /\ orderFailures' = 0
  /\ UNCHANGED <<haltPhase, tokenRefresh, carriers, gates, haltMu, pc, request, history>>

-----------------------------------------------------------------------------
(* withTripCarrier: the span every global trip runs in *)

\* The carrier rises before anything slow.
Begin(p, o, t) ==
  /\ Step(p, "idle", "wait")
  /\ op' = [op EXCEPT ![p] = o]
  /\ occurredAt' = [occurredAt EXCEPT ![p] = t]
  /\ inflightTrips' = inflightTrips + 1
  /\ mustHalt' = [mustHalt EXCEPT ![p] = o = "global" \/ (o = "token" /\ t = NoTime)]
  /\ UNCHANGED <<durable, durableHalt, unpersistedPending, bootHalt, gates, haltMu,
                 standing>>

\* Bound: reports in flight could not take a counter past MaxFailures.
RoomToCount(count, o) ==
  count + Cardinality({p \in Threads : InSpan(p) /\ op[p] = o}) < MaxFailures

Trip(p) == Begin(p, "global", NoTime)
ReportOrderFailure(p) == RoomToCount(orderFailures, "order") /\ Begin(p, "order", NoTime)
ReportTokenRefreshFailure(p, t) ==
  RoomToCount(tokenRefresh.value, "token") /\ Begin(p, "token", t)

\* A slip: every waiter gets in at once, as if each method had its own mutex.
LockHaltMuUnserialized(p) ==
  /\ \/ Step(p, "wait", "body")
     \/ Step(p, "clearWait", "clearLocked")
     \/ Step(p, "finWait", "finLocked")
  /\ haltMu' = p
  /\ UNCHANGED <<durable, carriers, gates, request, history>>

LockHaltMuTo(p, from, to) ==
  /\ Step(p, from, to)
  /\ haltMu = NoThread /\ haltMu' = p
  /\ UNCHANGED <<durable, carriers, gates, request, history>>
LockHaltMu(p) ==
  \/ LockHaltMuTo(p, "wait", "body")
  \/ LockHaltMuTo(p, "clearWait", "clearLocked")
  \/ LockHaltMuTo(p, "finWait", "finLocked")

\* haltMu is released on the way out; a trip still carries inflightTrips.
Unlock(p) ==
  /\ Step(p, "unlock", "release") \/ Step(p, "leave", "idle")
  /\ haltMu' = NoThread
  /\ UNCHANGED <<durable, carriers, gates, request, history>>

\* A slip: the carrier is a flag, so whoever ends first lowers it for all.
ReleaseAll(p) ==
  /\ Step(p, "release", "idle")
  /\ inflightTrips' = 0
  /\ op' = [op EXCEPT ![p] = "global"]
  /\ occurredAt' = [occurredAt EXCEPT ![p] = NoTime]
  /\ standing' = (standing \/ mustHalt[p])
  /\ mustHalt' = [mustHalt EXCEPT ![p] = FALSE]
  /\ UNCHANGED <<durable, durableHalt, unpersistedPending, bootHalt, gates, haltMu>>

\* The deferred decrement, last of all; the call's arguments go with its frame.
Release(p) ==
  /\ Step(p, "release", "idle")
  /\ inflightTrips' = inflightTrips - 1
  /\ op' = [op EXCEPT ![p] = "global"]
  /\ occurredAt' = [occurredAt EXCEPT ![p] = NoTime]
  /\ standing' = (standing \/ mustHalt[p])
  /\ mustHalt' = [mustHalt EXCEPT ![p] = FALSE]
  /\ UNCHANGED <<durable, durableHalt, unpersistedPending, bootHalt, gates, haltMu>>

\* Whether the next statement of the body of p's trip is a store call.
CallsStore(p) ==
  \/ pc[p] = "published"
  \/ /\ pc[p] = "body"
     /\ \/ op[p] = "global" /\ durableHalt # "halted"
        \/ op[p] = "order"
        \/ op[p] = "token" /\ occurredAt[p] # NoTime

\* A slip: the unlock is not deferred, so a panic leaves haltMu locked.
PanicKeepsHaltMu(p) ==
  /\ CallsStore(p)
  /\ Step(p, pc[p], "recover")
  /\ mustHalt' = [mustHalt EXCEPT ![p] = TRUE]
  /\ UNCHANGED <<durable, carriers, gates, haltMu, request, standing>>

\* The store call panics: its transaction is rolled back, the deferred unlock runs.
Panic(p) ==
  /\ CallsStore(p)
  /\ Step(p, pc[p], "recover")
  /\ haltMu' = NoThread
  /\ mustHalt' = [mustHalt EXCEPT ![p] = TRUE]
  /\ UNCHANGED <<durable, carriers, gates, request, standing>>

\* The recover boundary, outside haltMu and inside the span: onPanic.
Recover(p) ==
  /\ Step(p, "recover", "release")
  /\ IF op[p] = "order"
     THEN bootHalt' = TRUE /\ UNCHANGED unpersistedPending
     ELSE unpersistedPending' = TRUE /\ UNCHANGED bootHalt
  /\ UNCHANGED <<durable, durableHalt, inflightTrips, gates, haltMu, request, history>>

-----------------------------------------------------------------------------
(* doGlobalHalt *)

\* The two sides of MarkHaltPending; nothing is written over a mirrored halt.
GlobalAlreadyHalted(p) ==
  /\ op[p] = "global" /\ durableHalt = "halted"
  /\ Step(p, "body", "unlock")
  /\ UNCHANGED <<durable, carriers, gates, haltMu, request, history>>

MarkHaltPending(p) ==
  /\ op[p] = "global" /\ durableHalt # "halted"
  /\ \/ Step(p, "body", "marked") /\ haltPhase' = "pending"
     \/ Step(p, "body", "lost") /\ UNCHANGED haltPhase
  /\ UNCHANGED <<orderFailures, tokenRefresh, carriers, gates, haltMu, request, history>>

PublishPending(p) ==
  /\ Step(p, "marked", "published")
  /\ durableHalt' = "pending"
  /\ UNCHANGED <<durable, unpersistedPending, inflightTrips, bootHalt, gates, haltMu,
                 request, history>>

\* On an error the mirror stays pending.
TripHalt(p) ==
  /\ \/ Step(p, "published", "tripped") /\ haltPhase' = "halted"
     \/ Step(p, "published", "unlock") /\ UNCHANGED haltPhase
  /\ UNCHANGED <<orderFailures, tokenRefresh, carriers, gates, haltMu, request, history>>

\* Shared by the three bodies: the commit is in, the mirror follows.
PublishHalted(p) ==
  /\ Step(p, "tripped", "unlock")
  /\ durableHalt' = "halted"
  /\ UNCHANGED <<durable, unpersistedPending, inflightTrips, bootHalt, gates, haltMu,
                 request, history>>

\* The durable trace of this trip is lost: it latches.
Latch(p) ==
  /\ Step(p, "lost", "unlock")
  /\ unpersistedPending' = TRUE
  /\ UNCHANGED <<durable, durableHalt, inflightTrips, bootHalt, gates, haltMu, request,
                 history>>

-----------------------------------------------------------------------------
(* doReportOrderFailure and doReportTokenRefresh: count and halt in one commit *)

\* The evidence lands always, the halt only if it is due and not yet mirrored.
CommitCount(p, due) ==
  /\ mustHalt' = [mustHalt EXCEPT ![p] = due]
  /\ IF due /\ durableHalt # "halted"
     THEN Step(p, "body", "tripped") /\ haltPhase' = "halted"
     ELSE Step(p, "body", "unlock") /\ UNCHANGED haltPhase

\* A failed transaction is not latched: the reconciler counts this failure again.
CountOrderFailure(p) ==
  /\ op[p] = "order"
  /\ \/ /\ orderFailures' = orderFailures + 1
        /\ CommitCount(p, orderFailures' >= OrderFailureThreshold)
     \/ /\ Step(p, "body", "unlock")
        /\ UNCHANGED <<haltPhase, orderFailures, mustHalt>>
  /\ UNCHANGED <<tokenRefresh, carriers, gates, haltMu, request, standing>>

\* A lost token count cannot be rebuilt, so it latches even below the threshold.
CountTokenFailure(p) ==
  /\ op[p] = "token" /\ occurredAt[p] # NoTime
  /\ \/ /\ tokenRefresh' = NextTokenRefresh(tokenRefresh, occurredAt[p])
        /\ CommitCount(p, TokenRefreshDue(tokenRefresh'))
     \/ /\ Step(p, "body", "lost")
        /\ mustHalt' = [mustHalt EXCEPT ![p] = TRUE]
        /\ UNCHANGED <<haltPhase, tokenRefresh>>
  /\ UNCHANGED <<orderFailures, carriers, gates, haltMu, request, standing>>

\* A zero timestamp cannot be counted: the signal is latched, not dropped.
RejectZeroTime(p) ==
  /\ op[p] = "token" /\ occurredAt[p] = NoTime
  /\ Step(p, "body", "lost")
  /\ UNCHANGED <<durable, carriers, gates, haltMu, request, history>>

-----------------------------------------------------------------------------
(* ClearHalt *)

BeginClear(p) ==
  /\ Step(p, "idle", "clearWait")
  /\ UNCHANGED <<durable, carriers, gates, haltMu, request, history>>

\* A slip: the clear does not look at the trips in flight.
SampleInflightIgnored(p) ==
  /\ Step(p, "clearLocked", "clearSampled")
  /\ UNCHANGED <<durable, carriers, gates, haltMu, request, history>>

\* ErrClearDeferred while a trip is in flight.
SampleInflight(p) ==
  /\ IF inflightTrips > 0 THEN Step(p, "clearLocked", "leave")
                          ELSE Step(p, "clearLocked", "clearSampled")
  /\ UNCHANGED <<durable, carriers, gates, haltMu, request, history>>

\* The store clears both the phase and, as far as history goes, what was owed.
CommitClear(p) ==
  /\ \/ /\ Step(p, "clearSampled", "clearCommitted")
        /\ haltPhase' = "none" /\ standing' = FALSE
     \/ /\ Step(p, "clearSampled", "leave")
        /\ UNCHANGED <<haltPhase, standing>>
  /\ UNCHANGED <<orderFailures, tokenRefresh, carriers, gates, haltMu, request, mustHalt>>

PublishClear(p) ==
  /\ Step(p, "clearCommitted", "leave")
  /\ durableHalt' = "none" /\ unpersistedPending' = FALSE /\ bootHalt' = FALSE
  /\ UNCHANGED <<durable, inflightTrips, gates, haltMu, request, history>>

-----------------------------------------------------------------------------
(* FinalizePendingHalt *)

BeginFinalize(p) ==
  /\ Step(p, "idle", "finWait")
  /\ UNCHANGED <<durable, carriers, gates, haltMu, request, history>>

\* Under haltMu a latch does not fall, so looking at it and marking are one step.
FinalizeMark(p) ==
  /\ \/ unpersistedPending /\ Step(p, "finLocked", "finMarked") /\ haltPhase' = "pending"
     \/ Step(p, "finLocked", "leave") /\ UNCHANGED haltPhase  \* not latched, or an error
  /\ UNCHANGED <<orderFailures, tokenRefresh, carriers, gates, haltMu, request, history>>

FinalizePublishPending(p) ==
  /\ Step(p, "finMarked", "finPublished")
  /\ durableHalt' = "pending"
  /\ UNCHANGED <<durable, unpersistedPending, inflightTrips, bootHalt, gates, haltMu,
                 request, history>>

FinalizeTripHalt(p) ==
  /\ \/ Step(p, "finPublished", "finTripped") /\ haltPhase' = "halted"
     \/ Step(p, "finPublished", "leave") /\ UNCHANGED haltPhase
  /\ UNCHANGED <<orderFailures, tokenRefresh, carriers, gates, haltMu, request, history>>

FinalizePublishHalted(p) ==
  /\ Step(p, "finTripped", "leave")
  /\ durableHalt' = "halted" /\ unpersistedPending' = FALSE
  /\ UNCHANGED <<durable, inflightTrips, bootHalt, gates, haltMu, request, history>>

-----------------------------------------------------------------------------
TripBody(p) ==
  \/ GlobalAlreadyHalted(p) \/ MarkHaltPending(p) \/ PublishPending(p) \/ TripHalt(p)
  \/ PublishHalted(p) \/ Latch(p)
  \/ CountOrderFailure(p) \/ CountTokenFailure(p) \/ RejectZeroTime(p)

ClearBody(p) == SampleInflight(p) \/ CommitClear(p) \/ PublishClear(p)

FinalizeBody(p) ==
  \/ FinalizeMark(p) \/ FinalizePublishPending(p)
  \/ FinalizeTripHalt(p) \/ FinalizePublishHalted(p)

\* What a goroutine does once it is inside, the wait for haltMu apart.
Proceed(p) ==
  \/ TripBody(p) \/ ClearBody(p) \/ FinalizeBody(p)
  \/ Unlock(p) \/ Panic(p) \/ Recover(p) \/ Release(p)

\* What callers start.
Call(p) ==
  \/ Trip(p) \/ ReportOrderFailure(p)
  \/ \E t \in Times \cup {NoTime} : ReportTokenRefreshFailure(p, t)
  \/ BeginClear(p) \/ BeginFinalize(p)

Environment ==
  \/ New \/ Crash \/ NotifyScanComplete \/ BootHalt \/ ReportOrderSuccess
  \/ \E s \in Symbols : TripSymbol(s) \/ ClearSymbol(s)

Next == Environment \/ \E p \in Threads : Call(p) \/ LockHaltMu(p) \/ Proceed(p)

Spec == Init /\ [][Next]_vars

\* A goroutine keeps running; sync.Mutex hands itself to a waiter it has starved.
Fairness == \A p \in Threads : WF_vars(Proceed(p)) /\ SF_vars(LockHaltMu(p))
FairSpec == Spec /\ Fairness

-----------------------------------------------------------------------------
(* Properties *)

TypeOK ==
  /\ haltPhase \in Phases /\ orderFailures \in Nat
  /\ tokenRefresh \in [value : Nat, start : Times \cup {NoTime}]
  /\ up \in BOOLEAN
  /\ durableHalt \in Phases /\ unpersistedPending \in BOOLEAN
  /\ bootHalt \in BOOLEAN /\ inflightTrips \in Nat
  /\ scanComplete \in BOOLEAN /\ perSymbolBlocked \subseteq Symbols
  /\ haltMu \in Threads \cup {NoThread}
  /\ pc \in [Threads -> Pcs] /\ op \in [Threads -> TripOps]
  /\ occurredAt \in [Threads -> Times \cup {NoTime}]
  /\ mustHalt \in [Threads -> BOOLEAN] /\ standing \in BOOLEAN

\* While the store holds a halt, pending or complete, no running process submits:
\* not between a commit and its publication, not after a restart that could not
\* read the row (doc.go, durable-before-visible and persistence-wins).
DurableHaltBlocks == haltPhase # "none" => \A s \in Symbols : ~CanSubmit(s)

\* From the moment a trip has started to its decrement nothing is submitted, however
\* other trips' decrements interleave with it (doc.go I1, I7).
InFlightBlocks == (\E p \in Threads : InSpan(p)) => \A s \in Symbols : ~CanSubmit(s)

\* A trip that had to halt (a manual or ambiguous one, a count at its threshold, a
\* lost token count, a panic) is not lost: until a clear that began after it has
\* committed the guard is halted, whichever errors and panics it met (doc.go I2).
NoTripLost == up /\ standing => Halted

\* A halt that only memory knows is reported as such, so a graceful shutdown cannot
\* certify it away (switch.go, HasUnpersistedPendingHalt).
UnpersistedIsReported == up /\ standing => haltPhase # "none" \/ HasUnpersistedPendingHalt

\* The mirror says halted only of a committed halt (doc.go I3).  It lags under haltMu
\* alone: behind a clear, and behind a finalize, which rewrites a latch that met a
\* finished halt by stepping the stored phase back to pending.
DurableBeforeVisible ==
  durableHalt = "halted" =>
    haltPhase = "halted" \/ \E p \in Threads : pc[p] \in {"clearCommitted", "finMarked"}

\* Evidence and halt are one commit: no step leaves an order-failure count that it
\* raised to the threshold beside a store that is not halted (report.go).
CountHaltsAtomically ==
  [][orderFailures' > orderFailures /\ orderFailures' >= OrderFailureThreshold
       => haltPhase' = "halted"]_vars

\* Nobody is left inside the switch: each trip, clear and finalize ends, errors and
\* panics included, so inflightTrips falls back and a clear stops being deferred.
CallsSettle == \A p \in Threads : pc[p] # "idle" ~> pc[p] = "idle"

\* The switch keeps the promise of HaltGuard: seen through its store, its predicate and
\* what it owes, every step closes the gate, opens it over nothing durable and nothing
\* owed, or changes what is durable behind a closed gate.
Guard == INSTANCE HaltGuard
  WITH phase <- haltPhase, owed <- standing, open <- up /\ ~GloballyBlocked
ImplementsHaltGuard == Guard!Spec

=============================================================================
