--------------------------- MODULE KillSwitchProofs ---------------------------
(***************************************************************************)
(* The kill switch for every set of goroutines, symbols, instants and every *)
(* threshold: its types, the inductive invariant behind its guarantees, and *)
(* that it implements HaltGuard; then which failures over time its windowed *)
(* counter halts on (RefreshWindow).                                        *)
(***************************************************************************)
EXTENDS KillSwitch, RefreshWindow, FiniteSetTheorems, TLAPS

\* haltMu is held by the one goroutine whose program counter says so.
LockInv == \A p \in Threads : pc[p] \in LockedPcs <=> haltMu = p

Span == {p \in Threads : InSpan(p)}

\* Nobody is inside a switch that does not run, and inflightTrips counts the trips.
SpanInv ==
  /\ ~up => \A p \in Threads : pc[p] = "idle"
  /\ inflightTrips = Cardinality(Span)

\* What the store and the mirror hold where a goroutine under haltMu stands.
PhaseAt(p) ==
  /\ pc[p] = "marked" => haltPhase = "pending"
  /\ pc[p] = "published" => haltPhase = "pending" /\ durableHalt = "pending"
  /\ pc[p] = "tripped" => haltPhase = "halted"
  /\ pc[p] = "clearCommitted" => haltPhase = "none"
  /\ pc[p] = "finMarked" => haltPhase = "pending" /\ unpersistedPending
  /\ pc[p] = "finPublished" =>
       haltPhase = "pending" /\ durableHalt = "pending" /\ unpersistedPending
  /\ pc[p] = "finTripped" =>
       haltPhase = "halted" /\ durableHalt = "pending" /\ unpersistedPending

PhaseInv ==
  /\ \A p \in Threads : PhaseAt(p)
  /\ DurableBeforeVisible
  /\ up /\ haltPhase # "none" => Halted \/ \E p \in Threads : pc[p] \in {"marked", "tripped"}
  /\ durableHalt # "none" => haltPhase # "none" \/ \E p \in Threads : pc[p] = "clearCommitted"

\* Past its last body step a trip that owes a halt has one; an order failure owes none
\* before it has counted; and once a clear has sampled no trip in flight, all trips wait.
OwedInv ==
  /\ up /\ standing => Halted
  /\ ~up /\ standing => haltPhase # "none"
  /\ \A p \in Threads :
       /\ pc[p] \in {"unlock", "release"} /\ mustHalt[p] => Halted
       /\ pc[p] \in {"wait", "body"} /\ op[p] = "order" => ~mustHalt[p]
       /\ pc[p] \in {"clearSampled", "clearCommitted"} =>
            \A q \in Threads : InSpan(q) => pc[q] = "wait"
       /\ pc[p] = "clearCommitted" => ~standing

IInv == TypeOK /\ LockInv /\ SpanInv /\ PhaseInv /\ OwedInv

-----------------------------------------------------------------------------
(* Types *)

LEMMA TypeInit == Init => TypeOK
  <1> SUFFICES ASSUME Init PROVE TypeOK
    OBVIOUS
  <1> USE DEF Init
  <1>1. tokenRefresh \in [value : Nat, start : Times \cup {NoTime}]
    BY DEF NoFailures
  <1>2. /\ pc \in [Threads -> Pcs] /\ op \in [Threads -> TripOps]
        /\ occurredAt \in [Threads -> Times \cup {NoTime}]
    BY DEF Pcs, TripOps
  <1>3. mustHalt \in [Threads -> BOOLEAN]
    BY Zenon
  <1>4. haltPhase \in Phases /\ durableHalt \in Phases /\ orderFailures \in Nat /\ inflightTrips \in Nat
    BY DEF Phases
  <1>5. QED
    BY <1>1, <1>2, <1>3, <1>4, Zenon DEF TypeOK

\* The counter stays a counter, and it is the report's instant that starts its window.
LEMMA NextTokenRefreshType ==
  ASSUME NEW t \in Times, NEW c \in [value : Nat, start : Times \cup {NoTime}]
  PROVE  NextTokenRefresh(c, t) \in [value : Nat, start : Times \cup {NoTime}]
  BY FailuresAssumption, RefreshAssumption DEF NextTokenRefresh, NoTime

LEMMA EnvironmentType == TypeOK /\ Environment => TypeOK'
  <1> SUFFICES ASSUME TypeOK, Environment PROVE TypeOK'
    OBVIOUS
  <1> USE DEF TypeOK, Phases, TripOps, Pcs
  <1>1. CASE New
    BY <1>1 DEF New, durable, request, history
  <1>2. CASE Crash
    BY <1>2 DEF Crash, durable
  <1>3. CASE NotifyScanComplete
    BY <1>3 DEF NotifyScanComplete, durable, carriers, request, history
  <1>4. CASE BootHalt
    BY <1>4 DEF BootHalt, durable, gates, request, history
  <1>5. CASE ReportOrderSuccess
    BY <1>5 DEF ReportOrderSuccess, carriers, gates, request, history
  <1>6. ASSUME NEW s \in Symbols, TripSymbol(s) \/ ClearSymbol(s) PROVE TypeOK'
    BY <1>6 DEF TripSymbol, ClearSymbol, durable, carriers, request, history
  <1>7. QED
    BY <1>1, <1>2, <1>3, <1>4, <1>5, <1>6 DEF Environment

\* What CommitCount leaves of the types, whatever the count decided.
LEMMA CommitCountType ==
  ASSUME TypeOK, NEW p \in Threads, NEW due \in BOOLEAN, CommitCount(p, due)
  PROVE  /\ haltPhase' \in Phases /\ pc' \in [Threads -> Pcs]
         /\ mustHalt' \in [Threads -> BOOLEAN]
  <1>1. haltPhase' \in Phases
    BY DEF TypeOK, CommitCount, Phases
  <1>2. pc' \in [Threads -> Pcs]
    BY DEF TypeOK, CommitCount, Step, Pcs, SpanPcs
  <1>3. mustHalt' = [mustHalt EXCEPT ![p] = due]
    BY DEF CommitCount
  <1>4. mustHalt' \in [Threads -> BOOLEAN]
    BY <1>3 DEF TypeOK
  <1>5. QED
    BY <1>1, <1>2, <1>4

LEMMA BodyType == TypeOK /\ (\E p \in Threads : TripBody(p)) => TypeOK'
  <1> SUFFICES ASSUME TypeOK, NEW p \in Threads, TripBody(p) PROVE TypeOK'
    OBVIOUS
  <1> USE DEF TypeOK, Phases, Step, durable, carriers, gates, request, history
  <1>0. /\ {"idle", "unlock", "lost", "marked", "published", "tripped"} \subseteq Pcs
        /\ TripOps = {"global", "order", "token"}
    BY DEF Pcs, SpanPcs, TripOps
  <1>1. CASE GlobalAlreadyHalted(p)
    BY <1>0, <1>1 DEF GlobalAlreadyHalted
  <1>2. CASE MarkHaltPending(p)
    BY <1>0, <1>2 DEF MarkHaltPending
  <1>3. CASE PublishPending(p)
    BY <1>0, <1>3 DEF PublishPending
  <1>4. CASE TripHalt(p)
    BY <1>0, <1>4 DEF TripHalt
  <1>5. CASE PublishHalted(p)
    BY <1>0, <1>5 DEF PublishHalted
  <1>6. CASE Latch(p)
    BY <1>0, <1>6 DEF Latch
  <1>7. CASE CountOrderFailure(p)
    <2>1. CASE Step(p, "body", "unlock") /\ UNCHANGED <<haltPhase, orderFailures, mustHalt>>
      <3>1. UNCHANGED <<tokenRefresh, carriers, gates, haltMu, request, standing>>
        BY <1>7 DEF CountOrderFailure
      <3>2. QED
        BY <1>0, <2>1, <3>1
    <2>2. CASE /\ orderFailures' = orderFailures + 1
               /\ CommitCount(p, orderFailures' >= OrderFailureThreshold)
      <3>1. (orderFailures' >= OrderFailureThreshold) \in BOOLEAN
        OBVIOUS
      <3>2. /\ haltPhase' \in Phases /\ pc' \in [Threads -> Pcs]
            /\ mustHalt' \in [Threads -> BOOLEAN]
        BY <2>2, <3>1, CommitCountType, Zenon
      <3>3. QED
        BY <1>7, <2>2, <3>2 DEF CountOrderFailure
    <2>3. QED
      BY <1>7, <2>1, <2>2 DEF CountOrderFailure
  <1>8. CASE CountTokenFailure(p)
    <2>1. CASE /\ Step(p, "body", "lost") /\ UNCHANGED <<haltPhase, tokenRefresh>>
               /\ mustHalt' = [mustHalt EXCEPT ![p] = TRUE]
      BY <1>0, <1>8, <2>1 DEF CountTokenFailure
    <2>2. CASE /\ tokenRefresh' = NextTokenRefresh(tokenRefresh, occurredAt[p])
               /\ CommitCount(p, TokenRefreshDue(tokenRefresh'))
      <3>1. TokenRefreshDue(tokenRefresh') \in BOOLEAN
        BY DEF TokenRefreshDue
      <3>2. tokenRefresh' \in [value : Nat, start : Times \cup {NoTime}]
        BY <1>8, <2>2, NextTokenRefreshType DEF CountTokenFailure
      <3>3. /\ haltPhase' \in Phases /\ pc' \in [Threads -> Pcs]
            /\ mustHalt' \in [Threads -> BOOLEAN]
        BY <2>2, <3>1, CommitCountType, Zenon
      <3>4. QED
        BY <1>8, <3>2, <3>3 DEF CountTokenFailure
    <2>3. QED
      BY <1>8, <2>1, <2>2 DEF CountTokenFailure
  <1>9. CASE RejectZeroTime(p)
    BY <1>0, <1>9 DEF RejectZeroTime
  <1>10. QED
    BY <1>1, <1>2, <1>3, <1>4, <1>5, <1>6, <1>7, <1>8, <1>9 DEF TripBody

LEMMA OtherBodyType == TypeOK /\ (\E p \in Threads : ClearBody(p) \/ FinalizeBody(p)) => TypeOK'
  <1> SUFFICES ASSUME TypeOK, NEW p \in Threads, ClearBody(p) \/ FinalizeBody(p) PROVE TypeOK'
    OBVIOUS
  <1> USE DEF TypeOK, Phases, Step, durable, carriers, gates, request, history
  <1>0. /\ {"leave", "clearSampled", "clearCommitted"} \subseteq Pcs
        /\ {"finMarked", "finPublished", "finTripped"} \subseteq Pcs
    BY DEF Pcs, ClearPcs, FinPcs
  <1>1. CASE SampleInflight(p)
    BY <1>0, <1>1 DEF SampleInflight
  <1>2. CASE CommitClear(p)
    <2>1. pc' \in [Threads -> Pcs]
      BY <1>0, <1>2 DEF CommitClear
    <2>2. haltPhase' \in Phases /\ standing' \in BOOLEAN
      BY <1>2 DEF CommitClear
    <2>3. UNCHANGED <<orderFailures, tokenRefresh, carriers, gates, haltMu, request, mustHalt>>
      BY <1>2 DEF CommitClear
    <2>4. QED
      BY <2>1, <2>2, <2>3
  <1>3. CASE PublishClear(p)
    BY <1>0, <1>3 DEF PublishClear
  <1>4. CASE FinalizeMark(p)
    BY <1>0, <1>4 DEF FinalizeMark
  <1>5. CASE FinalizePublishPending(p)
    BY <1>0, <1>5 DEF FinalizePublishPending
  <1>6. CASE FinalizeTripHalt(p)
    BY <1>0, <1>6 DEF FinalizeTripHalt
  <1>7. CASE FinalizePublishHalted(p)
    BY <1>0, <1>7 DEF FinalizePublishHalted
  <1>8. QED
    BY <1>1, <1>2, <1>3, <1>4, <1>5, <1>6, <1>7 DEF ClearBody, FinalizeBody

\* The span is finite, and empty exactly when it counts nobody.
LEMMA SpanCounted ==
  /\ IsFiniteSet(Span)
  /\ Cardinality(Span) \in Nat
  /\ Cardinality(Span) = 0 <=> Span = {}
  <1>1. IsFiniteSet(Span)
    BY ThreadsAssumption, FS_Subset DEF Span
  <1>2. QED
    BY <1>1, FS_CardinalityType, FS_EmptySet

LEMMA SpanType ==
  TypeOK /\ SpanInv /\ (\E p \in Threads : Unlock(p) \/ Panic(p) \/ Recover(p) \/ Release(p)) => TypeOK'
  <1> SUFFICES ASSUME TypeOK, SpanInv, NEW p \in Threads,
                      Unlock(p) \/ Panic(p) \/ Recover(p) \/ Release(p)
               PROVE  TypeOK'
    OBVIOUS
  <1> USE DEF TypeOK, Phases, Step, durable, carriers, gates, request, history
  <1>0. {"idle", "release", "recover"} \subseteq Pcs /\ "global" \in TripOps
    BY DEF Pcs, SpanPcs, TripOps
  <1>1. CASE Unlock(p)
    BY <1>0, <1>1 DEF Unlock
  <1>2. CASE Panic(p)
    BY <1>0, <1>2 DEF Panic
  <1>3. CASE Recover(p)
    BY <1>0, <1>3 DEF Recover
  <1>4. CASE Release(p)
    <2>1. inflightTrips' \in Nat
      <3>1. p \in Span
        BY <1>4 DEF Release, Span, InSpan, SpanPcs
      <3>2. inflightTrips # 0
        BY <3>1, SpanCounted DEF SpanInv
      <3>3. QED
        BY <1>4, <3>2 DEF Release
    <2>2. standing' \in BOOLEAN
      BY <1>4 DEF Release
    <2>3. QED
      BY <1>0, <1>4, <2>1, <2>2 DEF Release
  <1>5. QED
    BY <1>1, <1>2, <1>3, <1>4

LEMMA CallType == TypeOK /\ (\E p \in Threads : Call(p) \/ LockHaltMu(p)) => TypeOK'
  <1> SUFFICES ASSUME TypeOK, NEW p \in Threads, Call(p) \/ LockHaltMu(p) PROVE TypeOK'
    OBVIOUS
  <1>0. /\ {"wait", "body", "clearWait", "clearLocked", "finWait", "finLocked"} \subseteq Pcs
        /\ TripOps = {"global", "order", "token"}
    BY DEF Pcs, SpanPcs, ClearPcs, FinPcs, TripOps
  <1>1. ASSUME NEW o \in TripOps, NEW t \in Times \cup {NoTime}, Begin(p, o, t) PROVE TypeOK'
    <2>1. /\ pc' \in [Threads -> Pcs] /\ op' \in [Threads -> TripOps]
          /\ occurredAt' \in [Threads -> Times \cup {NoTime}] /\ inflightTrips' \in Nat
      BY <1>0, <1>1 DEF TypeOK, Begin, Step
    <2>2. mustHalt' \in [Threads -> BOOLEAN]
      <3>1. (o = "global" \/ (o = "token" /\ t = NoTime)) \in BOOLEAN
        OBVIOUS
      <3>2. QED
        BY <1>1, <3>1, Zenon DEF TypeOK, Begin
    <2>3. QED
      BY <1>1, <2>1, <2>2 DEF TypeOK, Begin, durable, gates
  <1>2. CASE Trip(p) \/ ReportOrderFailure(p) \/ \E t \in Times \cup {NoTime} : ReportTokenRefreshFailure(p, t)
    BY <1>0, <1>1, <1>2 DEF Trip, ReportOrderFailure, ReportTokenRefreshFailure
  <1>3. CASE BeginClear(p) \/ BeginFinalize(p)
    BY <1>0, <1>3
       DEF TypeOK, BeginClear, BeginFinalize, Step, durable, carriers, gates, request, history
  <1>4. CASE LockHaltMu(p)
    BY <1>0, <1>4
       DEF TypeOK, LockHaltMu, LockHaltMuTo, Step, durable, carriers, gates, request, history
  <1>5. QED
    BY <1>2, <1>3, <1>4 DEF Call

LEMMA TypeStep == TypeOK /\ SpanInv /\ [Next]_vars => TypeOK'
  <1> SUFFICES ASSUME TypeOK, SpanInv, [Next]_vars PROVE TypeOK'
    OBVIOUS
  <1>1. CASE UNCHANGED vars
    BY <1>1 DEF TypeOK, vars, durable, carriers, gates, request, history
  <1>2. CASE Next
    BY <1>2, EnvironmentType, BodyType, OtherBodyType, SpanType, CallType, Zenon
       DEF Next, Proceed
  <1>3. QED
    BY <1>1, <1>2

-----------------------------------------------------------------------------
(* The mutex and the carrier *)

\* A body step moves one goroutine between two places of the same kind, under haltMu,
\* and touches neither the mutex nor the carrier.
LEMMA BodyMoves ==
  ASSUME TypeOK, NEW p \in Threads, TripBody(p) \/ ClearBody(p) \/ FinalizeBody(p)
  PROVE  /\ up /\ UNCHANGED <<up, haltMu, inflightTrips>>
         /\ pc[p] \in LockedPcs /\ pc'[p] \in LockedPcs
         /\ pc[p] \in SpanPcs <=> pc'[p] \in SpanPcs
         /\ pc' = [pc EXCEPT ![p] = pc'[p]]
  <1> USE DEF TypeOK, Step, durable, carriers, gates, request, history,
              LockedPcs, Pcs, SpanPcs, ClearPcs, FinPcs
  <1>1. CASE GlobalAlreadyHalted(p)
    BY <1>1 DEF GlobalAlreadyHalted
  <1>2. CASE MarkHaltPending(p)
    BY <1>2 DEF MarkHaltPending
  <1>3. CASE PublishPending(p) \/ TripHalt(p) \/ PublishHalted(p)
    BY <1>3 DEF PublishPending, TripHalt, PublishHalted
  <1>4. CASE Latch(p) \/ RejectZeroTime(p)
    BY <1>4 DEF Latch, RejectZeroTime
  <1>5. CASE CountOrderFailure(p)
    BY <1>5 DEF CountOrderFailure, CommitCount
  <1>6. CASE CountTokenFailure(p)
    BY <1>6 DEF CountTokenFailure, CommitCount
  <1>7. CASE ClearBody(p)
    BY <1>7 DEF ClearBody, SampleInflight, CommitClear, PublishClear
  <1>8. CASE FinalizeBody(p)
    BY <1>8 DEF FinalizeBody, FinalizeMark, FinalizePublishPending, FinalizeTripHalt,
                FinalizePublishHalted
  <1>9. QED
    BY <1>1, <1>2, <1>3, <1>4, <1>5, <1>6, <1>7, <1>8 DEF TripBody

\* The single steps under mu leave the goroutines alone.
LEMMA QuietSteps ==
  ASSUME NotifyScanComplete \/ BootHalt \/ ReportOrderSuccess
           \/ \E s \in Symbols : TripSymbol(s) \/ ClearSymbol(s)
  PROVE  UNCHANGED <<up, haltMu, inflightTrips, pc, op, mustHalt, standing, haltPhase,
                     durableHalt, unpersistedPending>>
  BY DEF NotifyScanComplete, BootHalt, ReportOrderSuccess, TripSymbol, ClearSymbol,
         durable, carriers, gates, request, history

LEMMA LockStep == TypeOK /\ LockInv /\ [Next]_vars => LockInv'
  <1> SUFFICES ASSUME TypeOK, LockInv, [Next]_vars PROVE LockInv'
    OBVIOUS
  <1> USE ThreadsAssumption DEF LockInv
  <1>1. CASE UNCHANGED vars
    BY <1>1 DEF vars
  <1>2. CASE Environment
    <2>1. CASE New
      BY <2>1 DEF New
    <2>2. CASE Crash
      BY <2>2 DEF Crash, LockedPcs
    <2>3. QED
      BY <1>2, <2>1, <2>2, QuietSteps DEF Environment
  <1>3. ASSUME NEW p \in Threads, TripBody(p) \/ ClearBody(p) \/ FinalizeBody(p) PROVE LockInv'
    BY <1>3, BodyMoves DEF TypeOK
  <1>4. ASSUME NEW p \in Threads, Call(p) PROVE LockInv'
    BY <1>4 DEF Call, Trip, ReportOrderFailure, ReportTokenRefreshFailure, Begin, BeginClear,
                BeginFinalize, Step, TypeOK, LockedPcs
  <1>5. ASSUME NEW p \in Threads, LockHaltMu(p) PROVE LockInv'
    BY <1>5 DEF LockHaltMu, LockHaltMuTo, Step, TypeOK, LockedPcs, Pcs, SpanPcs, ClearPcs, FinPcs
  <1>6. ASSUME NEW p \in Threads, Unlock(p) PROVE LockInv'
    BY <1>6 DEF Unlock, Step, TypeOK, LockedPcs, Pcs, SpanPcs, ClearPcs, FinPcs
  <1>7. ASSUME NEW p \in Threads, Panic(p) PROVE LockInv'
    BY <1>7 DEF Panic, CallsStore, Step, TypeOK, LockedPcs, Pcs, SpanPcs, ClearPcs, FinPcs
  <1>8. ASSUME NEW p \in Threads, Recover(p) \/ Release(p) PROVE LockInv'
    BY <1>8 DEF Recover, Release, Step, TypeOK, LockedPcs
  <1>9. QED
    BY <1>1, <1>2, <1>3, <1>4, <1>5, <1>6, <1>7, <1>8 DEF Next, Proceed

\* How each step changes who is in flight.
LEMMA SpanMoves ==
  ASSUME TypeOK, SpanInv, [Next]_vars
  PROVE  \/ Span' = Span /\ inflightTrips' = inflightTrips
         \/ Span' = {} /\ inflightTrips' = 0
         \/ \E p \in Threads : p \notin Span /\ Span' = Span \cup {p}
                                 /\ inflightTrips' = inflightTrips + 1
         \/ \E p \in Span : Span' = Span \ {p} /\ inflightTrips' = inflightTrips - 1
  <1> USE DEF Span, InSpan
  <1>1. CASE UNCHANGED vars
    BY <1>1 DEF vars, carriers
  <1>2. CASE Environment
    <2>1. CASE New
      BY <2>1 DEF New
    <2>2. CASE Crash
      BY <2>2 DEF Crash, SpanPcs
    <2>3. QED
      BY <1>2, <2>1, <2>2, QuietSteps DEF Environment
  <1>3. CASE \E p \in Threads : TripBody(p) \/ ClearBody(p) \/ FinalizeBody(p)
    BY <1>3, BodyMoves DEF TypeOK
  <1>4. CASE \E p \in Threads : Call(p)
    <2>1. PICK p \in Threads : Call(p)
      BY <1>4
    <2>2. CASE BeginClear(p) \/ BeginFinalize(p)
      BY <2>2 DEF BeginClear, BeginFinalize, Step, TypeOK, SpanPcs, carriers
    <2>3. ASSUME NEW o, NEW t, Begin(p, o, t)
          PROVE  /\ p \notin Span /\ Span' = Span \cup {p}
                 /\ inflightTrips' = inflightTrips + 1
      BY <2>3 DEF Begin, Step, TypeOK, SpanPcs
    <2>4. QED
      BY <2>1, <2>2, <2>3 DEF Call, Trip, ReportOrderFailure, ReportTokenRefreshFailure
  <1>5. CASE \E p \in Threads : LockHaltMu(p)
    BY <1>5 DEF LockHaltMu, LockHaltMuTo, Step, TypeOK, SpanPcs, carriers
  <1>6. CASE \E p \in Threads : Unlock(p) \/ Panic(p) \/ Recover(p)
    BY <1>6 DEF Unlock, Panic, CallsStore, Recover, Step, TypeOK, SpanPcs, carriers
  <1>7. CASE \E p \in Threads : Release(p)
    BY <1>7 DEF Release, Step, TypeOK, SpanPcs
  <1>8. QED
    BY <1>1, <1>2, <1>3, <1>4, <1>5, <1>6, <1>7 DEF Next, Proceed

LEMMA SpanStep == TypeOK /\ SpanInv /\ [Next]_vars => SpanInv'
  <1> SUFFICES ASSUME TypeOK, SpanInv, [Next]_vars PROVE SpanInv'
    OBVIOUS
  <1>1. inflightTrips' = Cardinality(Span')
    BY SpanMoves, SpanCounted, FS_AddElement, FS_RemoveElement, FS_EmptySet DEF SpanInv
  <1>2. (~up => \A p \in Threads : pc[p] = "idle")'
    <2>1. CASE UNCHANGED vars
      BY <2>1 DEF SpanInv, vars, gates
    <2>2. CASE Environment
      <3>1. CASE New \/ Crash
        BY <3>1 DEF New, Crash
      <3>2. QED
        BY <2>2, <3>1, QuietSteps DEF Environment, SpanInv
    <2>3. CASE \E p \in Threads : TripBody(p) \/ ClearBody(p) \/ FinalizeBody(p)
      BY <2>3, BodyMoves
    <2>4. CASE \E p \in Threads : Call(p) \/ LockHaltMu(p)
      BY <2>4 DEF Call, Trip, ReportOrderFailure, ReportTokenRefreshFailure, Begin, BeginClear,
                  BeginFinalize, LockHaltMu, LockHaltMuTo, Step, gates
    <2>5. CASE \E p \in Threads : Unlock(p) \/ Panic(p) \/ Recover(p) \/ Release(p)
      BY <2>5 DEF Unlock, Panic, Recover, Release, Step, gates
    <2>6. QED
      BY <2>1, <2>2, <2>3, <2>4, <2>5 DEF Next, Proceed
  <1>3. QED
    BY <1>1, <1>2 DEF SpanInv

-----------------------------------------------------------------------------
(* The store, the mirror and the goroutine between them *)

LEMMA PhaseStep == TypeOK /\ LockInv /\ SpanInv /\ PhaseInv /\ [Next]_vars => PhaseInv'
  <1> SUFFICES ASSUME TypeOK, LockInv, SpanInv, PhaseInv, [Next]_vars PROVE PhaseInv'
    OBVIOUS
  <1> USE DEF PhaseInv, PhaseAt, DurableBeforeVisible, Halted, TypeOK, LockInv, LockedPcs, Pcs,
              SpanPcs, ClearPcs, FinPcs, Phases,
              Step, durable, carriers, gates, request, history
  <1>1. CASE UNCHANGED vars
    BY <1>1 DEF vars
  <1>2. CASE Environment
    <2>1. CASE New
      BY <2>1 DEF New, SpanInv
    <2>2. CASE Crash
      BY <2>2 DEF Crash
    <2>3. CASE NotifyScanComplete \/ BootHalt \/ ReportOrderSuccess
      BY <2>3 DEF NotifyScanComplete, BootHalt, ReportOrderSuccess
    <2>4. CASE \E s \in Symbols : TripSymbol(s) \/ ClearSymbol(s)
      BY <2>4 DEF TripSymbol, ClearSymbol
    <2>5. QED
      BY <1>2, <2>1, <2>2, <2>3, <2>4 DEF Environment
  <1>3. ASSUME NEW p \in Threads, TripBody(p) PROVE PhaseInv'
    <2>1. CASE GlobalAlreadyHalted(p) \/ RejectZeroTime(p)
      BY <2>1 DEF GlobalAlreadyHalted, RejectZeroTime
    <2>2. CASE MarkHaltPending(p)
      BY <2>2 DEF MarkHaltPending
    <2>3. CASE PublishPending(p)
      BY <2>3 DEF PublishPending
    <2>4. CASE TripHalt(p)
      BY <2>4 DEF TripHalt
    <2>5. CASE PublishHalted(p)
      BY <2>5 DEF PublishHalted
    <2>6. CASE Latch(p)
      BY <2>6 DEF Latch
    <2>7. CASE CountOrderFailure(p)
      BY <2>7 DEF CountOrderFailure, CommitCount
    <2>8. CASE CountTokenFailure(p)
      BY <2>8 DEF CountTokenFailure, CommitCount
    <2>9. QED
      BY <1>3, <2>1, <2>2, <2>3, <2>4, <2>5, <2>6, <2>7, <2>8 DEF TripBody
  <1>4. ASSUME NEW p \in Threads, ClearBody(p) PROVE PhaseInv'
    <2>1. CASE SampleInflight(p)
      BY <2>1 DEF SampleInflight
    <2>2. CASE CommitClear(p)
      BY <2>2 DEF CommitClear
    <2>3. CASE PublishClear(p)
      BY <2>3 DEF PublishClear
    <2>4. QED
      BY <1>4, <2>1, <2>2, <2>3 DEF ClearBody
  <1>5. ASSUME NEW p \in Threads, FinalizeBody(p) PROVE PhaseInv'
    <2>1. CASE FinalizeMark(p)
      BY <2>1 DEF FinalizeMark
    <2>2. CASE FinalizePublishPending(p)
      BY <2>2 DEF FinalizePublishPending
    <2>3. CASE FinalizeTripHalt(p)
      BY <2>3 DEF FinalizeTripHalt
    <2>4. CASE FinalizePublishHalted(p)
      BY <2>4 DEF FinalizePublishHalted
    <2>5. QED
      BY <1>5, <2>1, <2>2, <2>3, <2>4 DEF FinalizeBody
  <1>6. ASSUME NEW p \in Threads, Call(p) PROVE PhaseInv'
    BY <1>6 DEF Call, Trip, ReportOrderFailure, ReportTokenRefreshFailure, Begin, BeginClear,
                BeginFinalize
  <1>7. ASSUME NEW p \in Threads, LockHaltMu(p) \/ Unlock(p) PROVE PhaseInv'
    BY <1>7 DEF LockHaltMu, LockHaltMuTo, Unlock
  <1>8. ASSUME NEW p \in Threads, Panic(p) PROVE PhaseInv'
    BY <1>8 DEF Panic, CallsStore
  <1>9. ASSUME NEW p \in Threads, Recover(p) \/ Release(p) PROVE PhaseInv'
    BY <1>9 DEF Recover, Release
  <1>10. QED
    BY <1>1, <1>2, <1>3, <1>4, <1>5, <1>6, <1>7, <1>8, <1>9 DEF Next, Proceed

-----------------------------------------------------------------------------
(* What is owed *)

\* A clear that has looked finds no trip in flight past the wait for haltMu.
LEMMA SampledNone ==
  ASSUME SpanInv, inflightTrips = 0
  PROVE  \A q \in Threads : ~InSpan(q)
  BY SpanCounted DEF SpanInv, Span

LEMMA OwedStep == IInv /\ [Next]_vars => OwedInv'
  <1> SUFFICES ASSUME IInv, [Next]_vars PROVE OwedInv'
    OBVIOUS
  <1>0. TypeOK /\ LockInv /\ SpanInv /\ PhaseInv /\ OwedInv
    BY DEF IInv
  <1> USE <1>0 DEF OwedInv, PhaseInv, PhaseAt, Halted, InSpan, TypeOK, LockInv, LockedPcs, Pcs,
                   SpanPcs, ClearPcs, FinPcs, Phases,
                   Step, durable, carriers, gates, request, history
  <1>1. CASE UNCHANGED vars
    BY <1>1 DEF vars
  <1>2. CASE Environment
    <2>1. CASE New
      BY <2>1 DEF New, SpanInv
    <2>2. CASE Crash
      BY <2>2 DEF Crash
    <2>3. CASE NotifyScanComplete \/ BootHalt \/ ReportOrderSuccess
      BY <2>3 DEF NotifyScanComplete, BootHalt, ReportOrderSuccess
    <2>4. CASE \E s \in Symbols : TripSymbol(s) \/ ClearSymbol(s)
      BY <2>4 DEF TripSymbol, ClearSymbol
    <2>5. QED
      BY <1>2, <2>1, <2>2, <2>3, <2>4 DEF Environment
  <1>3. ASSUME NEW p \in Threads, TripBody(p) PROVE OwedInv'
    <2>1. CASE GlobalAlreadyHalted(p)
      BY <2>1 DEF GlobalAlreadyHalted
    <2>2. CASE MarkHaltPending(p)
      BY <2>2 DEF MarkHaltPending
    <2>3. CASE PublishPending(p)
      BY <2>3 DEF PublishPending
    <2>4. CASE TripHalt(p)
      BY <2>4 DEF TripHalt
    <2>5. CASE PublishHalted(p)
      BY <2>5 DEF PublishHalted
    <2>6. CASE Latch(p) \/ RejectZeroTime(p)
      BY <2>6 DEF Latch, RejectZeroTime
    <2>7. CASE CountOrderFailure(p)
      BY <2>7 DEF CountOrderFailure, CommitCount
    <2>8. CASE CountTokenFailure(p)
      BY <2>8 DEF CountTokenFailure, CommitCount
    <2>9. QED
      BY <1>3, <2>1, <2>2, <2>3, <2>4, <2>5, <2>6, <2>7, <2>8 DEF TripBody
  <1>4. ASSUME NEW p \in Threads, ClearBody(p) PROVE OwedInv'
    <2>1. CASE SampleInflight(p)
      BY <2>1, SampledNone DEF SampleInflight
    <2>2. CASE CommitClear(p)
      BY <2>2 DEF CommitClear
    <2>3. CASE PublishClear(p)
      BY <2>3 DEF PublishClear
    <2>4. QED
      BY <1>4, <2>1, <2>2, <2>3 DEF ClearBody
  <1>5. ASSUME NEW p \in Threads, FinalizeBody(p) PROVE OwedInv'
    BY <1>5 DEF FinalizeBody, FinalizeMark, FinalizePublishPending, FinalizeTripHalt,
                FinalizePublishHalted
  <1>6. ASSUME NEW p \in Threads, Call(p) PROVE OwedInv'
    <2>1. ASSUME NEW o \in TripOps, NEW t, Begin(p, o, t) PROVE OwedInv'
      <3>1. /\ pc' = [pc EXCEPT ![p] = "wait"]
            /\ op' = [op EXCEPT ![p] = o]
            /\ mustHalt' = [mustHalt EXCEPT ![p] = o = "global" \/ (o = "token" /\ t = NoTime)]
            /\ UNCHANGED <<haltPhase, up, durableHalt, unpersistedPending, bootHalt, standing>>
        BY <2>1 DEF Begin
      <3>2. /\ up' /\ standing' => Halted'
            /\ ~up' /\ standing' => haltPhase' # "none"
        BY <3>1
      <3>3. ASSUME NEW q \in Threads
            PROVE  /\ pc'[q] \in {"unlock", "release"} /\ mustHalt'[q] => Halted'
                   /\ pc'[q] \in {"wait", "body"} /\ op'[q] = "order" => ~mustHalt'[q]
                   /\ pc'[q] = "clearCommitted" => ~standing'
        BY <3>1
      <3>4. ASSUME NEW q \in Threads, pc'[q] \in {"clearSampled", "clearCommitted"},
                   NEW r \in Threads, InSpan(r)'
            PROVE  pc'[r] = "wait"
        BY <3>1, <3>4
      <3>5. QED
        BY <3>2, <3>3, <3>4
    <2>2. CASE BeginClear(p) \/ BeginFinalize(p)
      BY <2>2 DEF BeginClear, BeginFinalize
    <2>3. QED
      BY <1>6, <2>1, <2>2 DEF Call, Trip, ReportOrderFailure, ReportTokenRefreshFailure, TripOps
  <1>7. ASSUME NEW p \in Threads, LockHaltMu(p) PROVE OwedInv'
    BY <1>7, ThreadsAssumption DEF LockHaltMu, LockHaltMuTo
  <1>8. ASSUME NEW p \in Threads, Unlock(p) PROVE OwedInv'
    BY <1>8 DEF Unlock
  <1>9. ASSUME NEW p \in Threads, Panic(p) PROVE OwedInv'
    BY <1>9 DEF Panic, CallsStore
  <1>10. ASSUME NEW p \in Threads, Recover(p) PROVE OwedInv'
    BY <1>10 DEF Recover
  <1>11. ASSUME NEW p \in Threads, Release(p) PROVE OwedInv'
    BY <1>11 DEF Release
  <1>12. QED
    BY <1>1, <1>2, <1>3, <1>4, <1>5, <1>6, <1>7, <1>8, <1>9, <1>10, <1>11 DEF Next, Proceed

-----------------------------------------------------------------------------
(* The results *)

LEMMA Inductive == Init => IInv
  <1> SUFFICES ASSUME Init PROVE IInv
    OBVIOUS
  <1>1. TypeOK
    BY TypeInit
  <1>2. LockInv
    BY ThreadsAssumption DEF Init, LockInv, LockedPcs
  <1>3. SpanInv
    <2>1. Span = {}
      BY DEF Init, Span, InSpan, SpanPcs
    <2>2. QED
      BY <2>1, FS_EmptySet DEF Init, SpanInv
  <1>4. PhaseInv /\ OwedInv
    BY DEF Init, PhaseInv, PhaseAt, DurableBeforeVisible, OwedInv, Halted, InSpan
  <1>5. QED
    BY <1>1, <1>2, <1>3, <1>4 DEF IInv

LEMMA InductiveStep == IInv /\ [Next]_vars => IInv'
  BY TypeStep, LockStep, SpanStep, PhaseStep, OwedStep DEF IInv

\* The strengthening of every invariant below holds in every reachable state.
THEOREM Invariance == Spec => []IInv
  BY Inductive, InductiveStep, PTL DEF Spec

\* Every variable keeps its type.
THEOREM TypeCorrect == Spec => []TypeOK
  <1>1. IInv => TypeOK
    BY DEF IInv
  <1>2. QED
    BY <1>1, Invariance, PTL

\* A trip in flight blocks: inflightTrips counts it, so it cannot read zero.
LEMMA InFlightIsSeen == IInv => InFlightBlocks
  <1> SUFFICES ASSUME IInv, NEW p \in Threads, InSpan(p)
               PROVE  GloballyBlocked
    BY DEF InFlightBlocks, CanSubmit
  <1>1. p \in Span
    BY DEF Span
  <1>2. Cardinality(Span) # 0 /\ Cardinality(Span) \in Nat
    BY <1>1, SpanCounted
  <1>3. QED
    BY <1>2 DEF IInv, SpanInv, GloballyBlocked

\* The gap between a commit and its publication is covered by the carrier.
LEMMA DurableIsSeen == IInv /\ up /\ haltPhase # "none" => GloballyBlocked
  <1> SUFFICES ASSUME IInv, up, haltPhase # "none" PROVE GloballyBlocked
    OBVIOUS
  <1>1. CASE Halted
    BY <1>1 DEF GloballyBlocked
  <1>2. CASE \E p \in Threads : pc[p] \in {"marked", "tripped"}
    <2>1. PICK p \in Threads : p \in Span
      BY <1>2 DEF Span, InSpan, SpanPcs
    <2>2. Cardinality(Span) # 0 /\ Cardinality(Span) \in Nat
      BY <2>1, SpanCounted
    <2>3. QED
      BY <2>2 DEF IInv, SpanInv, GloballyBlocked
  <1>3. QED
    BY <1>1, <1>2 DEF IInv, PhaseInv

\* No process submits over a halt the store holds, whatever crash, failed write, failed
\* load or interleaving came before (DurableHaltBlocks).
THEOREM DurableHaltSafety == Spec => []DurableHaltBlocks
  <1>1. IInv => DurableHaltBlocks
    BY DurableIsSeen DEF DurableHaltBlocks, CanSubmit
  <1>2. QED
    BY <1>1, Invariance, PTL

\* No process submits while any trip is between its increment and its decrement
\* (InFlightBlocks).
THEOREM InFlightSafety == Spec => []InFlightBlocks
  BY InFlightIsSeen, Invariance, PTL

\* No trip that had to halt is lost to an error, a panic or a clear that overlapped it
\* (NoTripLost).
THEOREM NoTripLostSafety == Spec => []NoTripLost
  <1>1. IInv => NoTripLost
    BY DEF IInv, OwedInv, NoTripLost
  <1>2. QED
    BY <1>1, Invariance, PTL

\* A halt that is owed is durable or reported to the shutdown (UnpersistedIsReported).
THEOREM ReportedSafety == Spec => []UnpersistedIsReported
  <1>1. IInv => UnpersistedIsReported
    BY DEF IInv, OwedInv, PhaseInv, Halted, UnpersistedIsReported, HasUnpersistedPendingHalt,
           TypeOK, Phases
  <1>2. QED
    BY <1>1, Invariance, PTL

\* The mirror never runs ahead of the store (DurableBeforeVisible).
THEOREM MirrorSafety == Spec => []DurableBeforeVisible
  <1>1. IInv => DurableBeforeVisible
    BY DEF IInv, PhaseInv
  <1>2. QED
    BY <1>1, Invariance, PTL

\* A count that reaches the threshold and the halt it trips are one commit
\* (CountHaltsAtomically).
THEOREM CountHaltsSafety == Spec => CountHaltsAtomically
  <1>1. ASSUME IInv, [Next]_vars,
               orderFailures' > orderFailures, orderFailures' >= OrderFailureThreshold
        PROVE  haltPhase' = "halted"
    <2>0. orderFailures' # orderFailures /\ orderFailures' # 0
      BY <1>1 DEF IInv, TypeOK
    <2>1. PICK p \in Threads : CountOrderFailure(p)
      BY <1>1, <2>0
         DEF Next, Environment, New, Crash, NotifyScanComplete, BootHalt, ReportOrderSuccess,
             TripSymbol, ClearSymbol, Call, Trip, ReportOrderFailure, ReportTokenRefreshFailure,
             Begin, BeginClear, BeginFinalize, LockHaltMu, LockHaltMuTo, Proceed, TripBody,
             GlobalAlreadyHalted, MarkHaltPending, PublishPending, TripHalt, PublishHalted,
             Latch, CountTokenFailure, RejectZeroTime, ClearBody, SampleInflight,
             CommitClear, PublishClear, FinalizeBody, FinalizeMark, FinalizePublishPending,
             FinalizeTripHalt, FinalizePublishHalted, Unlock, Panic, Recover, Release,
             vars, durable
    <2>2. pc[p] = "body" /\ (durableHalt = "halted" => UNCHANGED haltPhase)
          /\ (durableHalt # "halted" => haltPhase' = "halted")
      BY <1>1, <2>0, <2>1 DEF CountOrderFailure, CommitCount, Step
    <2>3. durableHalt = "halted" => haltPhase = "halted"
      BY <1>1, <2>2 DEF IInv, LockInv, PhaseInv, DurableBeforeVisible, LockedPcs, Pcs, SpanPcs,
                        ClearPcs, FinPcs
    <2>4. QED
      BY <2>2, <2>3
  <1>2. QED
    BY <1>1, Invariance, PTL DEF Spec, CountHaltsAtomically

-----------------------------------------------------------------------------
(* The kill switch implements HaltGuard *)

Open == up /\ ~GloballyBlocked

\* A gate that is open is open over nothing.
LEMMA OpenIsClear == IInv /\ Open => haltPhase = "none" /\ ~standing
  BY DurableIsSeen DEF Open, IInv, OwedInv, GloballyBlocked

ShutInFlight == \A p \in Threads : InSpan(p) => ~Open

\* Whoever is in flight keeps the gate shut.
LEMMA InFlightShuts == IInv => ShutInFlight
  <1> SUFFICES ASSUME NEW p \in Threads, IInv, InSpan(p) PROVE ~Open
    BY DEF ShutInFlight
  <1>1. p \in Span
    BY DEF Span
  <1>2. Cardinality(Span) # 0 /\ Cardinality(Span) \in Nat
    BY <1>1, SpanCounted
  <1>3. QED
    BY <1>2 DEF IInv, SpanInv, GloballyBlocked, Open

\* A body of a trip writes a halt, if anything, and neither opens nor shuts anything
\* that its carrier does not keep shut.
LEMMA TripWrites ==
  ASSUME IInv, IInv', NEW p \in Threads, TripBody(p)
  PROVE  ~Open /\ ~Open' /\ UNCHANGED standing /\ haltPhase' \in {haltPhase, "pending", "halted"}
  <1>0. TypeOK
    BY DEF IInv
  <1>1. InSpan(p) /\ UNCHANGED standing /\ haltPhase' \in {haltPhase, "pending", "halted"}
    <2> USE DEF Step, InSpan, SpanPcs, durable, history
    <2>1. CASE GlobalAlreadyHalted(p) \/ MarkHaltPending(p) \/ PublishPending(p) \/ TripHalt(p)
      BY <2>1 DEF GlobalAlreadyHalted, MarkHaltPending, PublishPending, TripHalt
    <2>2. CASE PublishHalted(p) \/ Latch(p) \/ RejectZeroTime(p)
      BY <2>2 DEF PublishHalted, Latch, RejectZeroTime
    <2>3. CASE CountOrderFailure(p) \/ CountTokenFailure(p)
      BY <2>3 DEF CountOrderFailure, CountTokenFailure, CommitCount
    <2>4. QED
      BY <2>1, <2>2, <2>3 DEF TripBody
  <1>2. InSpan(p)'
    BY <1>0, <1>1, BodyMoves DEF InSpan
  <1>3. (IInv => ShutInFlight)'
    BY InFlightShuts, PTL
  <1>4. QED
    BY <1>1, <1>2, <1>3, InFlightShuts DEF ShutInFlight

\* Every step is one of HaltGuard's, or leaves what HaltGuard sees as it is.
LEMMA GuardStep ==
  IInv /\ IInv' /\ [Next]_vars => [Guard!Next]_<<haltPhase, standing, Open>>
  <1> SUFFICES ASSUME IInv, IInv', [Next]_vars
               PROVE  Guard!Next \/ UNCHANGED <<haltPhase, standing, Open>>
    OBVIOUS
  <1> USE DEF Guard!Next, Guard!Shut, Guard!Close, Guard!Open, Guard!Persist, Guard!Owe,
              Guard!Clear, Guard!Restart
  <1>0. /\ Open => haltPhase = "none" /\ ~standing
        /\ (Open => haltPhase = "none" /\ ~standing)'
    <2>1. (IInv /\ Open => haltPhase = "none" /\ ~standing)'
      BY OpenIsClear, PTL
    <2>2. QED
      BY <2>1, OpenIsClear
  <1>1. CASE UNCHANGED <<haltPhase, standing>>
    <2>1. CASE Open'
      BY <1>0, <1>1, <2>1 DEF Open
    <2>2. CASE ~Open'
      BY <1>1, <2>2 DEF Open
    <2>3. QED
      BY <2>1, <2>2
  <1>2. CASE Crash
    BY <1>2 DEF Crash, durable, Open
  <1>3. ASSUME NEW p \in Threads, TripBody(p) PROVE Guard!Next \/ UNCHANGED <<haltPhase, standing, Open>>
    BY <1>1, <1>3, TripWrites DEF Open
  <1>4. ASSUME NEW p \in Threads, CommitClear(p) PROVE Guard!Next \/ UNCHANGED <<haltPhase, standing, Open>>
    <2>1. Open' = Open
      BY <1>4 DEF CommitClear, Open, GloballyBlocked, Halted, carriers, gates
    <2>2. CASE Open
      <3>1. haltPhase = "none" /\ standing = FALSE
        BY <1>0, <2>2 DEF IInv, TypeOK
      <3>2. QED
        BY <1>1, <1>4, <3>1 DEF CommitClear
    <2>3. CASE ~Open
      BY <1>1, <1>4, <2>1, <2>3 DEF CommitClear, Open
    <2>4. QED
      BY <2>2, <2>3
  <1>5. ASSUME NEW p \in Threads, FinalizeBody(p) PROVE Guard!Next \/ UNCHANGED <<haltPhase, standing, Open>>
    <2>1. UNCHANGED standing
      BY <1>5 DEF FinalizeBody, FinalizeMark, FinalizePublishPending, FinalizeTripHalt,
                  FinalizePublishHalted, history
    <2>2. CASE FinalizePublishPending(p) \/ FinalizePublishHalted(p)
      BY <1>1, <2>1, <2>2 DEF FinalizePublishPending, FinalizePublishHalted, durable
    <2>3. CASE FinalizeMark(p) \/ FinalizeTripHalt(p)
      <3>1. /\ UNCHANGED haltPhase \/ haltPhase' \in {"pending", "halted"}
            /\ UNCHANGED haltPhase \/ unpersistedPending
        BY <2>3 DEF FinalizeMark, FinalizeTripHalt, Step, IInv, PhaseInv, PhaseAt
      <3>2. UNCHANGED <<unpersistedPending, durableHalt, bootHalt, inflightTrips, scanComplete, up>>
        BY <2>3 DEF FinalizeMark, FinalizeTripHalt, Step, carriers, gates
      <3>3. unpersistedPending => ~Open /\ ~Open'
        BY <3>2 DEF Open, GloballyBlocked, Halted
      <3>4. QED
        BY <1>1, <2>1, <3>1, <3>3 DEF Open
    <2>4. QED
      BY <1>5, <2>2, <2>3 DEF FinalizeBody
  <1>6. ASSUME NEW p \in Threads, Release(p) PROVE Guard!Next \/ UNCHANGED <<haltPhase, standing, Open>>
    <2>1. UNCHANGED haltPhase /\ (standing' = standing \/ standing' = TRUE)
      BY <1>6 DEF Release, durable, IInv, TypeOK
    <2>2. InSpan(p)
      BY <1>6 DEF Release, Step, InSpan, SpanPcs
    <2>3. ~Open
      BY <2>2, InFlightShuts DEF ShutInFlight
    <2>4. QED
      BY <1>0, <1>1, <2>1, <2>3 DEF Open
  <1>7. CASE New \/ NotifyScanComplete \/ BootHalt \/ ReportOrderSuccess
               \/ \E s \in Symbols : TripSymbol(s) \/ ClearSymbol(s)
    BY <1>1, <1>7 DEF New, NotifyScanComplete, BootHalt, ReportOrderSuccess, TripSymbol,
                      ClearSymbol, durable, history
  <1>8. ASSUME NEW p \in Threads,
               Call(p) \/ LockHaltMu(p) \/ SampleInflight(p) \/ PublishClear(p)
                 \/ Unlock(p) \/ Panic(p) \/ Recover(p)
        PROVE  Guard!Next \/ UNCHANGED <<haltPhase, standing, Open>>
    BY <1>1, <1>8 DEF Call, Trip, ReportOrderFailure, ReportTokenRefreshFailure, Begin,
                      BeginClear, BeginFinalize, LockHaltMu, LockHaltMuTo, SampleInflight,
                      PublishClear, Unlock, Panic, Recover, durable, history
  <1>9. CASE UNCHANGED vars
    BY <1>1, <1>9 DEF vars, durable, history
  <1>10. QED
    BY <1>2, <1>3, <1>4, <1>5, <1>6, <1>7, <1>8, <1>9
       DEF Next, Environment, Proceed, ClearBody

\* Seen through its store, its predicate and what it owes, the switch is a HaltGuard
\* (ImplementsHaltGuard).
THEOREM Refinement == Spec => ImplementsHaltGuard
  <1>1. Init => Guard!Init
    BY DEF Init, Guard!Init
  <1>2. IInv /\ IInv' /\ [Next]_vars
          => [Guard!Next]_<<haltPhase, standing, up /\ ~GloballyBlocked>>
    BY GuardStep DEF Open
  <1>3. QED
    BY <1>1, <1>2, Invariance, PTL DEF Spec, ImplementsHaltGuard, Guard!Spec

-----------------------------------------------------------------------------
(* The window of the token-refresh counter: RefreshWindow.  A span that       *)
(* reaches the open window holds less than a threshold from before it, since  *)
(* those all lie in the window before (EarlierAreFew), and less than a        *)
(* threshold in it.                                                           *)

\* The failures before the window the counter is in, and those in it.
Opened == Len(log) - counter.value

\* What the clock, the counter and the log have to do with each other.
Anchored ==
  /\ now \in 0 .. MaxTime /\ cleared \in 0 .. Len(log) /\ log \in Seq(0 .. MaxTime)
  /\ counter \in [value : Nat, start : 0 .. MaxTime \cup {NoTime}]
  /\ \A i \in 1 .. Len(log) : log[i] <= now
  /\ counter.start = NoTime => Len(log) = 0 /\ counter.value = 0
  /\ counter.start # NoTime =>
       /\ counter.start <= now /\ counter.value \in 1 .. Len(log)
       /\ \A i \in 1 .. Len(log) :
            IF i <= Opened THEN log[i] <= counter.start
            ELSE log[i] \in counter.start .. counter.start + TokenRefreshWindow

\* A failure that trips nothing leaves less than a threshold; a clear may leave more.
BelowThreshold == ~halted => counter.value < TokenRefreshThreshold \/ cleared = Len(log)

\* The failures since the clear and before the window that occurred in the span that opens at a.
Earlier(a) == {i \in cleared + 1 .. Opened : log[i] \in a .. (a + TokenRefreshWindow)}

\* A span that reaches the window has less than a threshold of failures from before it.
EarlierAreFew ==
  ~halted => \A a \in Int : a + TokenRefreshWindow >= counter.start =>
               Cardinality(Earlier(a)) <= TokenRefreshThreshold - 1

WindowInv == Anchored /\ BelowThreshold /\ EarlierAreFew /\ MissedAtMostTwice

-----------------------------------------------------------------------------
\* A set of positions is finite and no larger than the interval it lies in.
LEMMA Within ==
  ASSUME NEW m \in Int, NEW n \in Int, NEW S, S \subseteq m .. n
  PROVE  /\ IsFiniteSet(S) /\ Cardinality(S) \in Nat
         /\ Cardinality(S) <= IF m > n THEN 0 ELSE n - m + 1
<1>1. IsFiniteSet(m .. n) /\ Cardinality(m .. n) = IF m > n THEN 0 ELSE n - m + 1
  BY FS_Interval
<1>2. IsFiniteSet(S) /\ Cardinality(S) <= Cardinality(m .. n)
  BY <1>1, FS_Subset
<1> QED
  BY <1>1, <1>2, FS_CardinalityType

\* The last v of n positions are v.
LEMMA LastOnes ==
  ASSUME NEW n \in Nat, NEW v \in Nat, v >= 1, NEW m, m = n - v
  PROVE  IsFiniteSet(m + 1 .. n) /\ Cardinality(m + 1 .. n) = v
<1>1. m + 1 \in Int /\ n \in Int /\ ~(m + 1 > n) /\ n - (m + 1) + 1 = v
  OBVIOUS
<1> QED
  BY <1>1, FS_Interval

LEMMA Covered ==
  ASSUME NEW S, NEW A, NEW B, IsFiniteSet(A), IsFiniteSet(B), S \subseteq A \cup B
  PROVE  Cardinality(S) <= Cardinality(A) + Cardinality(B)
<1>1. /\ IsFiniteSet(A \cup B)
      /\ Cardinality(A \cup B) = Cardinality(A) + Cardinality(B) - Cardinality(A \cap B)
  BY FS_Union
<1>2. IsFiniteSet(S) /\ Cardinality(S) <= Cardinality(A \cup B)
  BY <1>1, FS_Subset
<1>3. IsFiniteSet(A \cap B)
  BY FS_Intersection
<1>4. /\ Cardinality(A \cap B) \in Nat /\ Cardinality(A) \in Nat /\ Cardinality(B) \in Nat
      /\ Cardinality(S) \in Nat
  BY <1>2, <1>3, FS_CardinalityType
<1> QED
  BY <1>1, <1>2, <1>4

LEMMA Elements == ASSUME NEW T, NEW s \in Seq(T) PROVE \A i \in 1 .. Len(s) : s[i] \in T
  OBVIOUS

LEMMA Shape ==
  ASSUME Anchored
  PROVE  /\ Len(log) \in Nat /\ cleared \in Nat /\ cleared <= Len(log) /\ now \in Nat
         /\ counter.value \in Nat /\ counter.start \in Int
         /\ counter.start # NoTime => counter.start \in Nat /\ counter.start <= MaxTime
         /\ Opened \in Int /\ Opened = Len(log) - counter.value /\ Opened <= Len(log)
         /\ \A i \in 1 .. Len(log) : log[i] \in Nat
<1>1. /\ log \in Seq(0 .. MaxTime) /\ counter \in [value : Nat, start : 0 .. MaxTime \cup {NoTime}]
      /\ cleared \in 0 .. Len(log) /\ now \in 0 .. MaxTime
  BY DEF Anchored
<1>0. log \in Seq(0 .. MaxTime)
  BY <1>1
<1>2. Len(log) \in Nat
  BY <1>0
<1>5. \A i \in 1 .. Len(log) : log[i] \in 0 .. MaxTime
  BY <1>0, Elements
<1>3. counter.value \in Nat /\ counter.start \in 0 .. MaxTime \cup {NoTime}
  BY <1>1
<1>4. Opened = Len(log) - counter.value
  BY DEF Opened
<1> QED
  BY <1>1, <1>2, <1>3, <1>4, <1>5, BoundAssumption DEF NoTime

\* What a failure does to the log and the counter.
Failed ==
  /\ Len(log') = Len(log) + 1 /\ log' \in Seq(0 .. MaxTime)
  /\ \A i \in 1 .. Len(log) : log'[i] = log[i]
  /\ log'[Len(log) + 1] = now
  /\ now' = now /\ cleared' = cleared
  /\ counter' \in [value : Nat, start : 0 .. MaxTime \cup {NoTime}]
  /\ \/ /\ counter.start # NoTime /\ now - counter.start <= TokenRefreshWindow
        /\ counter'.start = counter.start /\ counter'.value = counter.value + 1
     \/ /\ counter.start = NoTime \/ now - counter.start > TokenRefreshWindow
        /\ counter'.start = now /\ counter'.value = 1

LEMMA Fails ==
  Anchored /\ Fail => Failed /\ halted' = (halted \/ counter'.value >= TokenRefreshThreshold)
<1> SUFFICES ASSUME Anchored, Fail
             PROVE  Failed /\ halted' = (halted \/ counter'.value >= TokenRefreshThreshold)
  OBVIOUS
<1> USE DEF Failed
<1>1. log \in Seq(0 .. MaxTime) /\ now \in 0 .. MaxTime /\ log' = Append(log, now)
  BY DEF Anchored, Fail
<1>2. counter \in [value : Nat, start : 0 .. MaxTime \cup {NoTime}]
  BY DEF Anchored
<1>3. /\ Len(log') = Len(log) + 1 /\ log' \in Seq(0 .. MaxTime)
      /\ \A i \in 1 .. Len(log) : log'[i] = log[i]
      /\ log'[Len(log) + 1] = now
  BY <1>1
<1>4. UNCHANGED <<now, cleared>> /\ halted' = (halted \/ counter'.value >= TokenRefreshThreshold)
  BY DEF Fail, TokenRefreshDue
<1>5. CASE counter.start = NoTime \/ now - counter.start > TokenRefreshWindow
  <2>1. counter' = [value |-> 1, start |-> now]
    BY <1>5 DEF Fail, NextTokenRefresh
  <2> QED
    BY <1>1, <1>3, <1>4, <1>5, <2>1
<1>6. CASE ~(counter.start = NoTime \/ now - counter.start > TokenRefreshWindow)
  <2>1. counter' = [counter EXCEPT !.value = @ + 1]
    BY <1>6 DEF Fail, NextTokenRefresh
  <2>2. counter'.start = counter.start /\ counter'.value = counter.value + 1
        /\ counter' \in [value : Nat, start : 0 .. MaxTime \cup {NoTime}]
    BY <1>2, <2>1
  <2>3. now - counter.start <= TokenRefreshWindow
    BY <1>1, <1>2, <1>6, RefreshAssumption DEF NoTime
  <2> QED
    BY <1>3, <1>4, <1>6, <2>2, <2>3
<1> QED
  BY <1>5, <1>6

LEMMA AnchoredStep == Anchored /\ [WindowNext]_windowVars => Anchored'
<1> SUFFICES ASSUME Anchored, [WindowNext]_windowVars PROVE Anchored'
  OBVIOUS
<1>1. CASE Tick
  <2>1. /\ now' \in 0 .. MaxTime /\ now <= now' /\ now \in Nat /\ now' \in Nat
        /\ log' = log /\ counter' = counter /\ cleared' = cleared
    BY <1>1, Shape, BoundAssumption DEF Tick, Anchored
  <2>2. \A i \in 1 .. Len(log) : log[i] <= now'
    <3>1. \A i \in 1 .. Len(log) : log[i] \in Nat /\ log[i] <= now
      BY Shape DEF Anchored
    <3> QED
      BY <2>1, <3>1
  <2>3. counter.start # NoTime => counter.start <= now'
    BY <2>1, Shape DEF Anchored
  <2>4. Opened' = Opened
    BY <2>1 DEF Opened
  <2> QED
    BY <2>1, <2>2, <2>3, <2>4 DEF Anchored
<1>2. CASE Clear
  <2>1. cleared' = Len(log) /\ log' = log /\ counter' = counter /\ now' = now /\ Opened' = Opened
    BY <1>2 DEF Clear, Opened
  <2>2. cleared' \in 0 .. Len(log')
    BY <2>1, Shape
  <2> QED
    BY <2>1, <2>2 DEF Anchored
<1>3. CASE UNCHANGED windowVars
  BY <1>3 DEF windowVars, Anchored, Opened
<1>4. CASE Fail
  <2>0. Failed
    BY <1>4, Fails
  <2>1. /\ now \in 0 .. MaxTime /\ now' \in 0 .. MaxTime /\ now' = now /\ now \in Nat
        /\ counter' \in [value : Nat, start : 0 .. MaxTime \cup {NoTime}]
        /\ log' \in Seq(0 .. MaxTime) /\ Len(log') = Len(log) + 1 /\ Len(log) \in Nat
    BY <2>0, Shape DEF Failed, Anchored
  <2>2. cleared' \in 0 .. Len(log')
    BY <2>0, <2>1, Shape DEF Failed
  <2>3. \A i \in 1 .. Len(log') : i \in 1 .. Len(log) \/ i = Len(log) + 1
    BY <2>1
  <2>4. \A i \in 1 .. Len(log') : log'[i] <= now'
    <3>1. \A i \in 1 .. Len(log) : log[i] <= now
      BY DEF Anchored
    <3> QED
      BY <2>0, <2>1, <2>3, <3>1 DEF Failed
  <2>5. Opened' = Len(log') - counter'.value
    BY DEF Opened
  <2>6. counter.value \in Nat /\ (counter.start # NoTime => counter.start \in Nat)
    BY Shape
  <2>7. CASE /\ counter.start # NoTime /\ now - counter.start <= TokenRefreshWindow
             /\ counter'.start = counter.start /\ counter'.value = counter.value + 1
    <3>1. /\ counter.start <= now /\ counter.value \in 1 .. Len(log)
          /\ \A i \in 1 .. Len(log) :
               IF i <= Opened THEN log[i] <= counter.start
               ELSE log[i] \in counter.start .. counter.start + TokenRefreshWindow
      BY <2>7 DEF Anchored
    <3>2. /\ Opened' = Opened /\ Opened < Len(log) + 1
          /\ counter'.value \in 1 .. Len(log')
      <4>1. Opened = Len(log) - counter.value /\ counter.value >= 1
        BY <3>1, Shape
      <4> QED
        BY <2>1, <2>5, <2>6, <2>7, <3>1, <4>1
    <3>3. \A i \in 1 .. Len(log') :
            IF i <= Opened' THEN log'[i] <= counter'.start
            ELSE log'[i] \in counter'.start .. counter'.start + TokenRefreshWindow
      <4> TAKE i \in 1 .. Len(log')
      <4>1. CASE i \in 1 .. Len(log)
        BY <2>0, <2>7, <3>1, <3>2, <4>1 DEF Failed
      <4>2. CASE i = Len(log) + 1
        <5>1. ~(i <= Opened') /\ log'[i] = now
          BY <2>0, <2>1, <3>2, <4>2, Shape DEF Failed
        <5> QED
          BY <2>1, <2>6, <2>7, <3>1, <5>1, RefreshAssumption
      <4> QED
        BY <2>3, <4>1, <4>2
    <3> QED
      BY <2>1, <2>2, <2>4, <2>7, <3>1, <3>2, <3>3 DEF Anchored
  <2>8. CASE counter'.start = now /\ counter'.value = 1
    <3>0. Opened' = Len(log) /\ now # NoTime
      BY <2>1, <2>5, <2>8 DEF NoTime
    <3>1. \A i \in 1 .. Len(log') :
            IF i <= Opened' THEN log'[i] <= counter'.start
            ELSE log'[i] \in counter'.start .. counter'.start + TokenRefreshWindow
      <4> TAKE i \in 1 .. Len(log')
      <4>1. CASE i \in 1 .. Len(log)
        BY <2>1, <2>4, <2>8, <3>0, <4>1
      <4>2. CASE i = Len(log) + 1
        <5>1. ~(i <= Opened') /\ log'[i] = now
          BY <2>0, <2>1, <3>0, <4>2 DEF Failed
        <5> QED
          BY <2>1, <2>8, <5>1, RefreshAssumption
      <4> QED
        BY <2>3, <4>1, <4>2
    <3>2. counter'.start <= now' /\ counter'.value \in 1 .. Len(log')
      BY <2>1, <2>8
    <3> QED
      BY <2>1, <2>2, <2>4, <2>8, <3>0, <3>1, <3>2 DEF Anchored
  <2> QED
    BY <2>0, <2>7, <2>8 DEF Failed
<1> QED
  BY <1>1, <1>2, <1>3, <1>4 DEF WindowNext

LEMMA BelowStep == Anchored /\ BelowThreshold /\ [WindowNext]_windowVars => BelowThreshold'
<1> SUFFICES ASSUME Anchored, BelowThreshold, [WindowNext]_windowVars PROVE BelowThreshold'
  OBVIOUS
<1>1. CASE Tick \/ UNCHANGED windowVars
  BY <1>1 DEF Tick, windowVars, BelowThreshold
<1>2. CASE Clear
  BY <1>2 DEF Clear, BelowThreshold
<1>3. CASE Fail
  <2>1. halted' = (halted \/ counter'.value >= TokenRefreshThreshold)
    BY <1>3, Fails
  <2>2. counter'.value \in Nat
    BY <1>3, Fails DEF Failed
  <2>3. ~(counter'.value >= TokenRefreshThreshold) => counter'.value < TokenRefreshThreshold
    BY <2>2, RefreshAssumption
  <2> QED
    BY <2>1, <2>3 DEF BelowThreshold
<1> QED
  BY <1>1, <1>2, <1>3 DEF WindowNext

LEMMA FewStep ==
  Anchored /\ BelowThreshold /\ EarlierAreFew /\ [WindowNext]_windowVars => EarlierAreFew'
<1> SUFFICES ASSUME Anchored, BelowThreshold, EarlierAreFew, [WindowNext]_windowVars, ~halted',
                    NEW a \in Int, a + TokenRefreshWindow >= counter'.start
             PROVE  Cardinality(Earlier(a)') <= TokenRefreshThreshold - 1
  BY DEF EarlierAreFew
<1>0. TokenRefreshThreshold - 1 \in Nat /\ TokenRefreshWindow \in Nat /\ TokenRefreshThreshold \in Nat
  BY RefreshAssumption
<1>a. Anchored'
  BY AnchoredStep
<1>1. CASE Tick \/ UNCHANGED windowVars
  <2>1. Earlier(a)' = Earlier(a) /\ counter' = counter /\ halted' = halted
    BY <1>1 DEF Tick, windowVars, Earlier, Opened
  <2> QED
    BY <2>1 DEF EarlierAreFew
<1>2. CASE Clear
  <2>1. cleared' = Len(log) /\ log' = log /\ Opened' = Opened
    BY <1>2 DEF Clear, Opened
  <2>2. Earlier(a)' = {}
    BY <2>1, Shape DEF Earlier
  <2> QED
    BY <1>0, <2>2, FS_EmptySet
<1>3. CASE Fail
  <2>0. ~halted /\ Failed
    BY <1>3, Fails
  <2>1. ~halted /\ cleared' = cleared /\ Len(log') = Len(log) + 1
        /\ \A i \in 1 .. Len(log) : log'[i] = log[i]
    BY <2>0 DEF Failed
  <2>2. Len(log) \in Nat /\ cleared \in Nat /\ cleared <= Len(log) /\ counter.value \in Nat
    BY Shape
  <2>3. CASE counter'.start = counter.start /\ counter'.value = counter.value + 1
    <3>1. Opened' = Opened /\ Opened <= Len(log) /\ Opened \in Int
      BY <2>1, <2>2, <2>3 DEF Opened
    <3>2. Earlier(a)' = Earlier(a)
      <4>1. \A i \in cleared + 1 .. Opened : i \in 1 .. Len(log)
        BY <2>2, <3>1
      <4> QED
        BY <2>1, <3>1, <4>1 DEF Earlier
    <3> QED
      BY <2>1, <2>3, <3>2 DEF EarlierAreFew
  <2>4. CASE /\ counter.start = NoTime \/ now - counter.start > TokenRefreshWindow
             /\ counter'.start = now /\ counter'.value = 1
    <3>1. Opened' = Len(log)
      BY <2>1, <2>2, <2>4 DEF Opened
    <3>2. CASE counter.start = NoTime
      <4>1. Earlier(a)' = {}
        BY <2>1, <2>2, <3>1, <3>2 DEF Earlier, Anchored
      <4> QED
        BY <1>0, <4>1, FS_EmptySet
    <3>3. CASE cleared = Len(log)
      <4>1. Earlier(a)' = {}
        BY <2>1, <2>2, <3>1, <3>3 DEF Earlier
      <4> QED
        BY <1>0, <4>1, FS_EmptySet
    <3>4. CASE counter.start # NoTime /\ counter.value < TokenRefreshThreshold
      <4>1. /\ now \in Nat /\ counter.start \in Nat /\ counter.value \in 1 .. Len(log)
            /\ \A i \in 1 .. Len(log) : i <= Opened => log[i] \in Nat /\ log[i] <= counter.start
        <5>1. /\ now \in Nat /\ counter.start \in Nat /\ \A i \in 1 .. Len(log) : log[i] \in Nat
          BY <3>4, Shape
        <5> QED
          BY <3>4, <5>1 DEF Anchored
      <4>2. a > counter.start
        BY <1>0, <2>4, <3>4, <4>1 DEF NoTime
      <4>3. Earlier(a)' \subseteq Opened + 1 .. Len(log)
        <5> SUFFICES ASSUME NEW i \in Earlier(a)' PROVE i \in Opened + 1 .. Len(log)
          OBVIOUS
        <5>1. i \in cleared + 1 .. Len(log) /\ log'[i] \in a .. (a + TokenRefreshWindow)
          BY <2>1, <3>1 DEF Earlier
        <5>2. i \in 1 .. Len(log) /\ log[i] = log'[i] /\ log[i] >= a
          BY <2>1, <2>2, <5>1
        <5>3. ~(i <= Opened)
          BY <4>1, <4>2, <5>2
        <5> QED
          BY <2>2, <5>2, <5>3 DEF Opened
      <4>4. Opened + 1 \in Int /\ Len(log) \in Int
        BY <2>2 DEF Opened
      <4>5. Cardinality(Earlier(a)') <= IF Opened + 1 > Len(log) THEN 0 ELSE Len(log) - (Opened + 1) + 1
        BY <4>3, <4>4, Within
      <4>6. Cardinality(Earlier(a)') \in Nat
        BY <4>3, <4>4, Within
      <4> QED
        <5>1. Opened = Len(log) - counter.value /\ counter.value >= 1
          BY <4>1, Shape
        <5>2. Cardinality(Earlier(a)') <= counter.value
          <6>1. ~(Opened + 1 > Len(log)) /\ Len(log) - (Opened + 1) + 1 = counter.value
            BY <2>2, <5>1
          <6> QED
            BY <4>5, <6>1
        <5> QED
          BY <1>0, <2>2, <3>4, <4>6, <5>2
    <3> QED
      BY <2>1, <3>2, <3>3, <3>4 DEF BelowThreshold
  <2> QED
    BY <2>0, <2>3, <2>4 DEF Failed
<1> QED
  BY <1>1, <1>2, <1>3 DEF WindowNext

\* The failures that make up the count that halts are the last ones, and all in its window.
LEMMA HaltStep ==
  ASSUME Anchored, Anchored', [WindowNext]_windowVars, ~halted, halted'
  PROVE  FullWindow(log')
<1> DEFINE T == TokenRefreshThreshold
           n == Len(log')
<1>1. Fail
  BY DEF WindowNext, Tick, Clear, windowVars
<1>2. counter'.value >= T /\ n = Len(log) + 1
  BY <1>1, Fails DEF Failed
<1>3. n \in Nat /\ n >= 1 /\ T \in Nat /\ T >= 1 /\ TokenRefreshWindow \in Nat
  BY <1>2, Shape, RefreshAssumption
<1>4. counter'.start # NoTime
  BY <1>2, <1>3 DEF Anchored
<1>5. /\ counter'.start \in 0 .. MaxTime /\ counter'.value \in 1 .. n
      /\ \A i \in 1 .. n : ~(i <= Opened') =>
           log'[i] \in counter'.start .. counter'.start + TokenRefreshWindow
  BY <1>4 DEF Anchored
<1>6. Opened' = n - counter'.value
  BY DEF Opened
<1> PICK start \in Nat, value \in Nat : start = counter'.start /\ value = counter'.value
  BY <1>5, BoundAssumption
<1>7. ASSUME NEW i \in n - T + 1 .. n PROVE log'[i] \in start .. start + TokenRefreshWindow
  <2>1. i \in 1 .. n /\ ~(i <= n - value)
    BY <1>2, <1>3, <1>5
  <2> QED
    BY <1>5, <1>6, <2>1
<1>8. n - T + 1 \in n - T + 1 .. n /\ n \in n - T + 1 .. n /\ n >= T
  BY <1>2, <1>3, <1>5
<1>9. log'[n - T + 1] \in start .. start + TokenRefreshWindow
      /\ log'[n] \in start .. start + TokenRefreshWindow
  BY <1>7, <1>8
<1>10. log'[n] - log'[n - T + 1] <= TokenRefreshWindow
  <2>1. PICK first \in start .. start + TokenRefreshWindow, last \in start .. start + TokenRefreshWindow :
          first = log'[n - T + 1] /\ last = log'[n]
    BY <1>9
  <2>2. last - first <= TokenRefreshWindow
    <3>1. TokenRefreshWindow \in Nat
      BY <1>3
    <3> QED
      BY <3>1
  <2> QED
    BY <2>1, <2>2
<1> QED
  BY <1>8, <1>10 DEF FullWindow

LEMMA MissedStep ==
  ASSUME Anchored, Anchored', BelowThreshold', EarlierAreFew', MissedAtMostTwice,
         [WindowNext]_windowVars
  PROVE  MissedAtMostTwice'
<1> SUFFICES ASSUME ~halted', NEW a \in 0 .. MaxTime
             PROVE  InWindow(a, cleared)' <= 2 * (TokenRefreshThreshold - 1)
  BY DEF MissedAtMostTwice
<1>0. /\ TokenRefreshThreshold \in Nat /\ TokenRefreshThreshold >= 1 /\ TokenRefreshWindow \in Nat
      /\ a \in Int
  BY RefreshAssumption, BoundAssumption
<1> DEFINE In == {i \in (cleared + 1) .. Len(log) : log[i] \in a .. (a + TokenRefreshWindow)}
<1>d. InWindow(a, cleared) = Cardinality(In) /\ InWindow(a, cleared)' = Cardinality(In')
  BY DEF InWindow
<1>f. /\ Len(log) \in Nat /\ cleared \in Nat /\ cleared <= Len(log)
      /\ Len(log') \in Nat /\ cleared' \in Nat /\ cleared' <= Len(log')
      /\ counter'.value \in Nat /\ Opened' = Len(log') - counter'.value /\ Opened' \in Int
      /\ cleared' + 1 \in Int
  <2>1. /\ Len(log') \in Nat /\ counter' \in [value : Nat, start : 0 .. MaxTime \cup {NoTime}]
        /\ cleared' \in 0 .. Len(log')
    BY DEF Anchored
  <2>2. Opened' = Len(log') - counter'.value
    BY DEF Opened
  <2> QED
    BY <2>1, <2>2, Shape
<1>1. CASE Tick \/ UNCHANGED windowVars
  <2>1. (halted <=> halted') /\ In' = In
    BY <1>1 DEF Tick, windowVars
  <2>2. Cardinality(In') = Cardinality(In)
    BY <2>1
  <2> HIDE DEF In
  <2> QED
    BY <1>d, <2>1, <2>2 DEF MissedAtMostTwice
<1>2. CASE Clear
  <2>1. cleared' = Len(log')
    BY <1>2 DEF Clear
  <2>2. In' = {}
    BY <1>f, <2>1
  <2>3. Cardinality(In') = 0
    BY <2>2, FS_EmptySet
  <2> HIDE DEF In
  <2> QED
    BY <1>0, <1>d, <2>3
<1>3. CASE Fail
  <2>1. /\ ~halted /\ cleared' = cleared /\ Len(log') = Len(log) + 1 /\ now' = now
        /\ \A i \in 1 .. Len(log) : log'[i] = log[i]
        /\ log'[Len(log) + 1] = now
    BY <1>3, Fails DEF Failed
  <2>2. counter'.value < TokenRefreshThreshold
    BY <1>f, <2>1 DEF BelowThreshold
  <2>3. counter'.start \in Nat /\ counter'.start <= now' /\ now' \in Nat
        /\ counter'.value >= 1 /\ counter'.value <= Len(log')
    <3>1. now' \in 0 .. MaxTime /\ Len(log') # 0
      BY <1>f, <2>1 DEF Anchored
    <3>2. counter'.start # NoTime
      BY <3>1 DEF Anchored
    <3>3. /\ counter'.start <= now' /\ counter'.value \in 1 .. Len(log')
          /\ counter'.start \in 0 .. MaxTime
      BY <3>2 DEF Anchored
    <3> QED
      BY <3>1, <3>3, BoundAssumption
  <2>4. CASE a + TokenRefreshWindow >= counter'.start
    <3>1. Cardinality(Earlier(a)') <= TokenRefreshThreshold - 1
      BY <1>0, <2>4 DEF EarlierAreFew
    <3> DEFINE inside == Opened' + 1 .. Len(log')
    <3>2. In' \subseteq Earlier(a)' \cup inside
      BY <1>f, <2>2 DEF Earlier
    <3>3. Earlier(a)' \subseteq cleared' + 1 .. Opened'
      BY DEF Earlier
    <3>4. IsFiniteSet(Earlier(a)') /\ Cardinality(Earlier(a)') \in Nat
      BY <1>f, <2>2, <3>3, Within
    <3>6. IsFiniteSet(inside) /\ Cardinality(inside) = counter'.value
      BY <1>f, <2>3, LastOnes
    <3> HIDE DEF inside, In
    <3>7. Cardinality(In') <= Cardinality(Earlier(a)') + Cardinality(inside)
      BY <3>2, <3>4, <3>6, Covered
    <3>8. In' \subseteq (cleared' + 1) .. Len(log')
      BY DEF In
    <3>9. Cardinality(In') \in Nat
      <4>1. cleared' + 1 \in Int /\ Len(log') \in Int
        BY <1>f
      <4> QED
        BY <3>8, <4>1, Within
    <3>10. Cardinality(In') <= (TokenRefreshThreshold - 1) + (TokenRefreshThreshold - 1)
      <4>1. counter'.value <= TokenRefreshThreshold - 1 /\ counter'.value \in Nat
        <5>1. TokenRefreshThreshold \in Nat /\ counter'.value \in Nat
          BY <1>0, <1>f
        <5> QED
          BY <2>2, <5>1
      <4>2. Cardinality(In') <= Cardinality(Earlier(a)') + counter'.value
        BY <3>6, <3>7
      <4> QED
        BY <1>0, <3>1, <3>4, <3>9, <4>1, <4>2
    <3>11. (TokenRefreshThreshold - 1) + (TokenRefreshThreshold - 1) = 2 * (TokenRefreshThreshold - 1)
      BY <1>0
    <3> QED
      BY <1>d, <3>10, <3>11
  <2>5. CASE ~(a + TokenRefreshWindow >= counter'.start)
    <3>1. ~(now \in a .. (a + TokenRefreshWindow))
      BY <1>0, <2>1, <2>3, <2>5
    <3>2. In' = In
      <4>1. \A i : i \in (cleared + 1) .. Len(log') <=> i \in (cleared + 1) .. Len(log) \/ i = Len(log) + 1
        BY <1>f, <2>1
      <4>2. \A i \in (cleared + 1) .. Len(log) : i \in 1 .. Len(log)
        BY <1>f
      <4> QED
        BY <2>1, <3>1, <4>1, <4>2
    <3>3. Cardinality(In') = Cardinality(In)
      BY <3>2
    <3> HIDE DEF In
    <3> QED
      BY <1>d, <2>1, <3>3 DEF MissedAtMostTwice
  <2> QED
    BY <2>4, <2>5
<1> QED
  BY <1>1, <1>2, <1>3 DEF WindowNext

LEMMA InitWindow == WindowInit => WindowInv
<1> SUFFICES ASSUME WindowInit PROVE WindowInv
  OBVIOUS
<1> USE RefreshAssumption, BoundAssumption DEF WindowInit, NoFailures
<1>1. Anchored
  <2>1. Len(log) = 0 /\ log \in Seq(0 .. MaxTime)
    OBVIOUS
  <2>2. counter = [value |-> 0, start |-> NoTime] /\ counter.start = NoTime /\ counter.value = 0
    OBVIOUS
  <2>3. counter \in [value : Nat, start : 0 .. MaxTime \cup {NoTime}]
    BY <2>2
  <2>4. now \in 0 .. MaxTime /\ cleared \in 0 .. Len(log)
    BY <2>1
  <2> QED
    BY <2>1, <2>2, <2>3, <2>4 DEF Anchored
<1>2. BelowThreshold
  BY DEF BelowThreshold
<1>3. EarlierAreFew
  <2>1. \A a : Earlier(a) = {}
    BY DEF Earlier, Opened
  <2> QED
    BY <2>1, FS_EmptySet DEF EarlierAreFew
<1>4. MissedAtMostTwice
  <2>1. \A a : InWindow(a, cleared) = Cardinality({})
    BY DEF InWindow
  <2> QED
    BY <2>1, FS_EmptySet DEF MissedAtMostTwice
<1> QED
  BY <1>1, <1>2, <1>3, <1>4 DEF WindowInv

LEMMA StepWindow == WindowInv /\ [WindowNext]_windowVars => WindowInv'
<1> SUFFICES ASSUME WindowInv, [WindowNext]_windowVars PROVE WindowInv'
  OBVIOUS
<1>1. Anchored' /\ BelowThreshold' /\ EarlierAreFew'
  BY AnchoredStep, BelowStep, FewStep DEF WindowInv
<1> QED
  BY <1>1, MissedStep DEF WindowInv

\* The inductive invariant of the windowed counter.
THEOREM WindowInvariance == WindowSpec => []WindowInv
  BY InitWindow, StepWindow, PTL DEF WindowSpec

\* For every threshold, window and schedule of failures and clears, each halt of the counter
\* comes with a full threshold of failures, the last ones, within one window (report.go:105-116).
THEOREM HaltEarned == WindowSpec => HaltIsEarned
<1>1. WindowInv /\ WindowInv' /\ [WindowNext]_windowVars
        => [~halted /\ halted' => FullWindow(log')]_windowVars
  BY HaltStep DEF WindowInv
<1> QED
  BY <1>1, WindowInvariance, PTL DEF WindowSpec, HaltIsEarned

\* An unhalted bot has seen at most two thresholds less two in any span since the clear.
THEOREM MissedTwice == WindowSpec => []MissedAtMostTwice
<1>1. WindowInv => MissedAtMostTwice
  BY DEF WindowInv
<1> QED
  BY <1>1, WindowInvariance, PTL
=============================================================================
