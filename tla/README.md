# Verification of toss-trade-bot

TLA+ specifications of the parts of the bot in which the order of steps
decides whether it is safe to trade, and of the gate that decides what is merged into
it, with TLC runs on small instances and TLAPS proofs for any. The bot is one Go process that places orders
with the Toss broker. It keeps its state in one SQLite file and its audit trail in
another directory, and is built to stop rather than guess: every failure it
cannot account for ends in a *halt* that only an operator clears.

1. [The system](#1-the-system)
2. [Modules and how they correspond to the code](#2-modules-and-how-they-correspond-to-the-code)
3. [The runs](#3-the-runs)
4. [What is proved](#4-what-is-proved)
5. [Where code and documents disagree](#5-where-code-and-documents-disagree)
6. [What is not modelled](#6-what-is-not-modelled)
7. [Plan](#7-plan)

`PROJECT.json` holds the same in machine-readable form: components, runs, the
lines each definition stands for (`map`), a plausible bug for every property
(`mutants`), the hazards the properties are for, and the theorems.

## 1. The system

### Components

| Component (`src/internal/...`) | State it keeps | Operations |
|---|---|---|
| `killswitch` | In memory: the mirror `durableHalt`, the latch `unpersistedPending`, `bootHalt`, `inflightTrips`, the replay gate, blocked symbols; two mutexes. In the store: the halt phase and two failure counters. | `CanSubmit`/`Reserve`/`Reconfirm`, `Trip`, `ReportOrderFailure`, `ReportOrderSuccess`, `ReportTokenRefreshFailure`, `ClearHalt`, `FinalizePendingHalt`, `BootHalt`, `NotifyScanComplete`, `ClearSymbol` |
| `store` | SQLite behind one write connection: intents, markers, resolutions, audit acks, the halt singleton, counters, the lifecycle sentinel, the schema version. | `Open` with its migrations, `AppendIntent`, `AppendMarker`, `ResolveIntent`, `RecordAuditAck`, `FinalizeFullyAudited`, `MarkHaltPending`, `TripHalt`, `ClearHalt`, `SetLifecycle`, `PruneTerminalIntents` |
| `order` | Nothing of its own; one `SubmitIntent` call per order. | `SubmitIntent` (two durable markers around one POST), `SubmitOrder`, `GetOrder` |
| `reconciler` | In memory: blocked symbols, watermark, newest counted failure, consecutive failures, `promoted`, last fills. | `BootScan`, `Reconcile`, `Run`, `Wake` |
| `audit` | Append-only segment files, the sequence, the sticky `poison`. | `New` (recovery), `Emit*`, `Close` |
| `toss` | The cached OAuth token, the flight in progress, pacing, unreported failures. | `Get`, `Post`, `WaitForRefreshQuiescence` |
| `runtime` | The supervisor's goroutines, the boot decision. | `Assemble`, `Boot`, `App.Run`, `Shutdown` |
| `config`, `account`, `market`, `strategy` | None that changes. | Typed reads |
| `gate`, `cmd/verdict-gate`, `.github/workflows/verdict-gate.yml` | On GitHub: check-runs of each commit, the conclusions of the workflow's own runs, auto-merge. | `resolve`, a leg per reviewer, `finalize`, `merge`, `clear-global-escalation` |
| `enforcement`, `cmd/presence-check` | None: it reads GitHub. | `Run` with its three pillars |

### How they interact

```
            signal                                     broker
              |                                        ^    ^
          runtime ---- boots, drains, judges           |    |
              |                                     POST   GET
    +---------+-----------+                            |    |
    v                     v                            |    |
 reconciler --------> killswitch <--- CanSubmit --- order   |
    |  |  verdicts, trips   ^  ^                       |    |
    |  |                    |  +-- token failures -- toss --+
    |  v                    v                          |
    | audit              store  <--- markers, acks ----+
    +-----------------------^
```

* `order` asks the kill switch twice, writes a marker to the store and a record
  to the audit sink before and after the second question, posts, and writes the
  order id. A call that cannot write one of these trips the halt.
* `reconciler` reads what is left unresolved, looks each acked order up at the
  broker, counts failures in the kill switch, blocks symbols there, resolves
  intents and re-emits the audit records whose acks are missing.
* `toss` refreshes the token in a goroutine of its own, outside the supervisor,
  and reports failures to the kill switch through a hook.
* `runtime` may write "clean" at shutdown, and the next boot halts unless it
  finds it. Before that, `store.Open` brings the file to the binary's schema or refuses it.
* The verdict gate and the presence check run on GitHub, around development: the first judges
  the pull requests of the autonomous loop with one or two reviewing legs and remembers in check-runs
  what it concluded; the second says whether the loop may work without the owner.

### What is hard

* **Interleaving.** The kill switch keeps a mirror of the store's halt under a
  mutex it must not hold across I/O. Trips overlap each other and an operator's
  clear. `SubmitIntent` calls race each other and the reconciler. Callers share
  one token.
* **Crashes.** Every durable step can be the last: the next process sees the
  store, the audit trail and the broker, and nothing else.
* **Failures of one step of several.** Counting a failure, halting, resolving and
  auditing are separate steps over two media.
* **Lost and late answers.** A POST may have happened, a token may have been issued.
* **Order of evidence.** A success resets a failure streak; what comes first is
  decided by submit time, not by when an answer is seen.
* **History.** A file outlives the binaries that wrote it; a verdict outlives the head it was made for.
  Both are read back later by code that must not trust them blindly.
* **Ending.** Waiters, detached flights and a shutdown that must not hang.

### What makes each component correct

| Component | Properties |
|---|---|
| kill switch | No submission while a trip is in flight or a halt is stored or owed; evidence and halt are one commit; nobody stays inside |
| journal | Markers follow the write-ahead protocol; a closed row keeps its verdict; nothing is pruned before its audit records are durable elsewhere |
| submit path | One POST per intent; evidence before it; a live order is never closed as not sent; no halt over a mere replay |
| reconciler | No failure is erased by an older success; a symbol with evidence against it stays blocked |
| runtime | No restart forgets a halt; "clean" is written only if earned, and then it is |
| token manager | No issuance without a cause; no refused token is sent again; a quiet shutdown has reported every failure |
| audit sink | What was acknowledged survives; the sequence has no gap; no crash leaves a trail that refuses to open |
| opening the store | No marker is lost or renumbered; since V4 the journal is lawful; a halt survives every upgrade; no lawful store is refused |
| verdict gate | Green means soundly approved by every leg its paths call for; a record stands; the repository-wide cap takes hold in time, that of a pull request as long as no forced push gives back a commit it had taken away |
| presence check | Green rests on fresh evidence and on nothing that was not there |

## 2. Modules and how they correspond to the code

| Module | Models | Extended or instantiated by |
|---|---|---|
| `RefreshCounter` | The arithmetic of the token-failure window (`killswitch/report.go`) | `KillSwitch`, `RefreshWindow` |
| `HaltGuard` | Abstract: a gate, what is durable, what is owed | `KillSwitch` (refinement) |
| `KillSwitch` | `killswitch`, with its store transactions | |
| `RefreshWindow` | The counter alone, over time | |
| `JournalRow` | One intent's row and what each statement does to it (`store/tx.go`, `audit_ack.go`, `prune.go`, `schema.go`) | `Journal`, `SubmitPath` |
| `AuditOutbox` | Abstract: records kept, records sent | `Journal` (refinement) |
| `Journal` | The journal under any callers, and pruning | |
| `SubmitPath` | `SubmitIntent` and the closing of prepared-only intents | |
| `Reconciler` | The reconciliation cycle | |
| `Sentinel` | Boot, run and shutdown over many processes (`runtime`) | |
| `TokenManager` | `toss/token.go` and the retry loops of `toss/client.go` | |
| `AuditWriter` | `audit/writer.go` over a file system | |
| `StoreOpen` | `store.Open` and the migrations, over binaries of several releases (`store/store.go`, `schema.go`) | |
| `GateRules` | The decisions of `internal/gate` as operators | `VerdictGate` |
| `VerdictGate` | The workflow that applies them | |
| `SacredRules` | Code ownership as `enforcement/codeowners*.go` evaluates it | `PresenceCheck` |
| `PresenceCheck` | `cmd/presence-check` over a repository that changes | |

`MC*` modules hold values for TLC that a `.cfg` cannot express; `*Proofs` modules
hold theorems about the modules they extend (section 4). Definitions named `...Not`,
`...Forgets` and so on that carry the comment *A slip* are not part of the
specification: they are the bugs of `mutants`.

**KillSwitch.** A thread is a goroutine in an exported method. A region under `mu`
is a step, so is a store transaction; `haltMu` is a variable with an owner. The
store's `haltPhase`, `orderFailures` and `tokenRefresh` survive `Crash`, the rest
is reset by `New`. A trip is *in span* from the increment of `inflightTrips` to its
decrement (`withTripCarrier`); a store call in a trip may fail or panic, and
`Recover` is what the deferred functions do. `standing` is a history variable: a
halt was decided and no later clear has committed. Left out: the halt notifier and
reason texts.

**RefreshWindow** checks the window itself, which needs longer runs of failures
than the interleaving model affords: time passes, failures are reported in the
order they occur, `log` remembers them.

**Journal.** There is one write connection, so a transaction is one step and a failed
one is no step. Callers are arbitrary, with two exceptions the code relies on: an
intent id is not reused (`order/submit.go`), and an ack of a record the journal
knows is sent only after that record was emitted (`reconciler.syncAudit`). Acks of
records that do not exist are allowed. Time is real time plus a skew that may change
at any moment, which is what the stamps `resolved_at` and `fully_audited_at` see.

**SubmitPath.** A step is one call into a medium. Calls may share an intent id. The guard may
refuse at any time and must while halted; the audit medium latches its first failure
(`Writer.poison`); `Crash` ends all calls. `Scan` and `ClosePreparedOnly` are the
two halves of the reconciler's closing of old prepared-only intents, from a snapshot
that may be stale when used. `Prompt` says that a call gets from one marker to the
next within the abandonment floor: the assumption the code states at
`reconciler.go:121-137`, and the only one the proofs and the run make of callers.

**Reconciler.** One cycle at a time (`cycleMu`); its locals are `view`, `cur` and
`needBlock`. `order` is what became of each intent: at the broker once acked. Calls,
broker, clock, operator and crashes move between any two steps. `streak` and
`evidence` are history variables. Left out: the snapshots of fills that avoid
repeated records, and payloads that do not decode.

**Sentinel.** `pc` is where `main` is, from `Assemble` to `Exit`. The kill switch
appears as what `KillSwitch` shows of it: a halt is durable, latched or a boot halt.
Flights of the token manager run outside the supervisor, and owe a report after they
end. `owed` and `doubt` are history variables: a halt was decided or a failed refresh
went uncounted; and something happened that excuses a run from being certified.

**TokenManager.** A step is a region under `mu`, one exchange with the broker, or a wait.
A token is named by the flight that issued it, so issuing and revoking are visible.
The clock is abstract: a token is *fresh*, *due*, *expired*; a failure is *held* for a
while. `events` counts the causes a new token may have (a failure, a late answer, a
revocation, ageing).

**AuditWriter.** The writer has one mutex, so the steps are its calls into the file
system. That is modelled by entries and inodes, each with what a process sees
(`entries`, `contents`) and what is on the disk (`kept`, `synced`). `PowerLoss`
leaves, of whatever was not synced, any part, a torn frame or nothing; `Die` ends the
process, in the middle of a write for one; `Settle` is the system's own write-back.
`Settles` is the assumption explained in section 5. A frame is a record or `Torn`;
sizes are abstract, so a segment with a record in it may always be full. The recovery reads one
segment a step (`Scan`). There are inodes enough that a new
segment always finds a `Free` one (`InodesSuffice` in `TrailProofs`). `Commit` begins an emission:
it writes to the active segment or rotates first.

**StoreOpen.** The version, the objects of the schema, the markers with their numbers and the halt row
are what a file holds; a process is started with a release and goes through
`Start`, `Connect`, one `Migrate` a migration (a transaction: done, failed or cut
short) and `Opened`, or is refused. A release writes what it may: before V4 any marker, since V4
what `appendMarker` and the constraints accept. `Violations` are the probes of V4's precheck and the
constraints of the new table, over the same rows. `written`, `late`, `tripped` and `stepped` are history.
Processes do not overlap: one process is the premise of ADR-0005 and of `runtime/doc.go`. Pruning, and
with it gaps in the numbers, is in `Journal`.

**VerdictGate.** A run of the workflow is in a job: `resolve`, the legs, `finalize`, `merge`. The legs run
beside each other and read the history (`History`) when they are asked. A commit is its content, its last
record, whether the owner reviewed since, and the required check. `line` keeps what the branch was with each commit
as its head, as git does: a push starts from any commit of the branch, and a forced push makes any commit ever made the head, one that was
dropped before included. Pushes, forced pushes, reviews and
clears come between any two steps; any step may fail. Of the file configured at
`configs/gate/risk-classification.json` the run uses a copy (`Mapping`). Taken as given: the check is
required for a merge (phase B of ADR-0011), the concurrency group holds back a second run of a pull
request, and the times of reviews and records differ. `vouched`, `refused`, `halted` and `restored` (the pull
requests that were given back a dropped commit) are history.

**PresenceCheck.** Each API call is a step, with a failure as an outcome. What is unparseable counts as a failed
read. A pattern is its segments, and a segment with stars the set of names it stands for; names are
compared exactly, where the code ignores case. A workflow run keeps the revision it was dispatched with, and may open its pull
request under the next one: the straggler that `identity.go:177-196` accepts is in the
model, so freshness is stated by when a pull request was opened. A revision that comes back, so that
GitHub's last commit for the path is an old one, is not. `begun` and `stood` are history.

## 3. The runs

Deadlock is checked everywhere except in `RefreshWindow`, whose log and clock
really run out, and in `StoreOpen` and `VerdictGate`, where an operator may stop starting
processes or workflows.

| Run | Checks | Shows |
|---|---|---|
| `KillSwitch` | `InFlightBlocks`, `NoTripLost`, `UnpersistedIsReported`, `ImplementsHaltGuard`, `CallsSettle` | Two goroutines in any methods, with errors, panics, crashes and restarts: no halt is lost or opened over, and every call ends |
| `RefreshWindow` | `HaltIsEarned`, `MissedAtMostTwice` | Each halt, the first as much as one after a clear, comes with a full threshold of failures, the last ones, within one window; an unhalted bot has missed at most 2·(threshold − 1) within any |
| `Journal` | `MarkerProtocol`, `FlagMeansAudited`, `GraceKept`, `ImplementsAuditOutbox` | Any order of transactions, with stale and bogus acks and a stepping clock |
| `SubmitPath` | `OnePost`, `EvidenceBeforePost`, `LiveOrderTracked`, `OutcomeTruthful`, `HaltOnlyOnFailure` | Three calls over two intent ids with failing media, lost answers, crashes and a reconciler |
| `Reconciler` | `NoFailureErased`, `EvidenceBlocks`, `OrderedResets` | Cycles over two intents of one symbol with failed lookups, unknown statuses, a failing medium and a restart |
| `Sentinel` | `NoHaltForgotten`, `CleanIsEarned`, `OrdinaryExitIsClean`, `ShutdownEnds` | Any number of lifetimes over a store that may fail in each call |
| `TokenManager` | `NoHerd`, `CacheIsCurrent`, `QuietIsReported`, `EveryCallEnds` | A GET and a POST, repeated for ever, with failing, late and lost issuances and a shutdown's wait |
| `AuditWriter` | `AckedSurvives`, `InSequence`, `BootsAgain` | Emissions over rotating segments with failing calls, dying processes and power losses |
| `AuditWriterRestart` | `AckedSurvives` is violated | The same without `Settles` |
| `StoreOpen` | `JournalIsKept`, `LawfulSinceV4`, `HaltStands`, `RefusalIsEarned` | A file opened by releases V1, V3 and V5 in any order, with crashes anywhere and a clock set back |
| `VerdictGate` | `GreenIsReviewed`, `StreakIsCapped`, `OvershootIsBounded`, `VerdictSticks` | Two pull requests and three runs of the workflow, with pushes, forced pushes, reviews, clears and failing steps |
| `PresenceCheck` | `EvidenceIsFresh`, `GreenIsEarned` | Checks over a repository in which everything they read changes between the reads |

The modules state a few more properties that no run lists, because a theorem
proves them: the `TypeOK` of every module with proofs, `CountHaltsAtomically`, `ClosedStaysClosed`,
`RefusedNotResent`, `DropsOnlyRefused` and `EscalationHolds`.

### Bounds, and why they are enough

* **KillSwitch**: 2 threads, 1 symbol, thresholds of 2, at most 2 counted failures.
  Crashes, clears and manual trips are unbounded. Two threads show every pairwise race;
  a third is covered by the proofs, which hold for any set of threads. A threshold of 2 has a
  count below it, at it, and the halt of a count that finds a halt already there.
  The model without symmetry is what liveness needs.
* **RefreshWindow**: threshold 3, window 2, 8 instants, 8 failures: room for two
  partial windows, a clear, and counting after it. Proved for any numbers.
* **Journal**: 2 intents, 1 order id, retention 2, skew 1, real time 0–1, batch 1. The batch makes
  pruning choose; the skew lets the wall clock pass the retention that real time has not. The
  proofs cover the rest.
* **SubmitPath**: 3 calls, 2 intents, 2 failures. Two calls share an id while a third
  runs beside them, or follows after a crash; two failures break both media. A crash ends every
  call, so crashes are bounded by the calls.
* **Reconciler**: 2 intents of one symbol, settle window 2, thresholds 2, clock to 3,
  1 failure, 1 crash. Two intents are the least at which an older one can be wronged
  by a newer, and sharing a symbol makes their blocks collide. Lookups may fail at
  any time without counting as a failure of a medium. Proved for any numbers.
* **Sentinel**: 2 unreported failures at a time; lifetimes are unbounded.
* **TokenManager**: 1 GET, 1 POST, 1 retry, 2 events; each call is repeated without bound. Two
  events allow a second failure during the recovery from a first. The safety
  properties are proved for any numbers.
* **AuditWriter**: 4 emissions, 3 failing calls; deaths, power losses and restarts are
  unbounded. Four emissions are enough for three segments with a torn one in any
  place; three failures for one to write, one to cut it off and one in recovery. Proved for any numbers.
* **StoreOpen**: 2 intents, 1 order id, 3 releases, 4 markers, 2 instants, 3 starts. Three starts allow
  a release before V4, an upgrade that is cut short and another; V1, V3 and V5 put a binary on
  either side of the halt's and the markers' conversion. Four markers hold the whole protocol of
  one intent and a row that breaks it. Proved without bounds.
* **VerdictGate**: 2 pull requests, one of them with a push, limits 1 and 0, 3 runs, 1 review, 1 clear.
  A repository-wide limit of 0 is exceeded by the first failure, and a clear lets the runs go on.
  The repository-wide cap is overtaken, if at all, by a third failure, one more than there are pull requests. A streak over the cap needs two
  commits and two runs, of which the third leaves one to repeat a record or to judge it anew. The commits of one pull request need both legs or one, the
  other carries an injection; in a second setting neither is eligible. The answers hold a
  sound approval and one of each kind that must not count. Proved for any numbers.
* **PresenceCheck**: 2 revisions, a window of 1, 2 instants, and `MaxChanges` = 3 revisions and pull requests together.
  Two revisions are a workflow and its replacement, in the same second or not; the window of 1 lets a newer pull request push out
  the evidence. Two `CODEOWNERS` files, each of which looks owned but for its order. Proved
  without bounds.

### Fairness

* **KillSwitch** (`CallsSettle`): a goroutine that can proceed does (weak fairness of
  its steps: store calls return, with or without an error), and `haltMu` is not
  granted to others for ever while one waits (strong fairness of its lock; a Go mutex hands over to a
  starved waiter). Nothing is assumed of callers, operators or crashes.
* **Sentinel** (`ShutdownEnds`): `main` is one goroutine whose waits have timeouts, so its own
  steps are weakly fair; closing the store and the sink is taken to return. Nothing is assumed of
  the reconciler or of token flights: they may hang.
* **TokenManager** (`EveryCallEnds`): every flight ends, by its HTTP timeout or by the `recover`
  boundary around it, and a call that is running goes on. No context has to end. Flights stop failing once `events` are
  used up; without that a call could be retried for ever in a row of
  failures, but each of its waits would still end.

All other properties are safety properties and assume no fairness.

## 4. What is proved

For all values of the constants, under the `ASSUME`s the modules name:

| Module | Theorems | Argument |
|---|---|---|
| `KillSwitchProofs` | `TypeCorrect`, `DurableHaltSafety`, `InFlightSafety`, `NoTripLostSafety`, `ReportedSafety`, `MirrorSafety`, `CountHaltsSafety`, `Refinement` (implements `HaltGuard`) | `IInv` ties the owner of `haltMu` to program counters, `inflightTrips` to the number of trips in span (a cardinality argument), store to mirror at every point under `haltMu`, and says where in its course each trip has made the halt it owes |
| `KillSwitchProofs` (`RefreshWindow`) | `HaltEarned`, `MissedTwice` | `WindowInv`: the counter is anchored at a logged failure and holds the number of failures logged since (`Anchored`, `BelowThreshold`); every window that ended before the anchor missed few enough (`EarlierAreFew`), so that a window that overlaps the anchor is the sum of two parts below the threshold |
| `TrailProofs` (`Journal`) | `TypeCorrect`, `ProtocolSafety`, `FlagSafety`, `ClosedSafety`, `GraceSafety`, `Refinement` (implements `AuditOutbox`) | `IInv`: a deleted row is blank, an ack names a record that exists and was emitted with what it still says, a flagged row is closed and fully acked, no flag is stamped before its real time |
| `TrailProofs` (`AuditWriter`) | with `Settles` `AcksSurvive`, `TrailInSequence`, `AlwaysBoots` | `WriterInv`: the segments count on from one another; on the disk and before the process all but the last are whole, the last differs in its last frame or lacks its entry, and nothing of that is acknowledged. The recovery is at a segment whose predecessors it has counted (`Scanning`); a new segment gets its entry only after its content is durable (`Newborn`) |
| `SubmitPathProofs` | `TypeCorrect`, `PostOnce`, `EvidenceFirst`, `OutcomesTruthful`, and with `Prompt` `LiveOrdersTracked`, `HaltsOnFailure` | `Inv`: what each program point of a call implies for its row, its records and its POST; the unique prepared marker gives one call the right to go on. `PromptInv` adds that no cycle holds the intent of a call on its way, so that its row is open and the store grants each marker it asks for |
| `ReconcilerProofs` | `TypeCorrect`, `FailureErasedNever`, `EvidenceHolds`, `ResetsInOrder` | `IInv`: what a cycle has in view stays true where nothing can change it (`Seen`, `Course`), so a reset is of an order that was filled; what is counted is known to this process or older than its first scan (`Known`), so that a reset passes over nothing newer; what has no answer is seen by every cycle to come, or held in `needBlock` (`Held`, `Aging`); a fill on its way to a reset left nothing before it in doubt (`Waited`) |
| `LifetimeProofs` (`StoreOpen`) | `JournalSurvives`, `LawfulFromV4`, `HaltSurvives`, `RefusalsEarned` | `IInv`: what objects the schema has at each version (so no migration meets one it creates or misses one it needs), where in the ladder a process is, that the probes of V4 find nothing exactly if the rows are lawful as far as times show, and that times do not fall unless the clock was set back |
| `LifetimeProofs` (`Sentinel`) | `TypeCorrect`, `NoHaltForgottenSafety`, `CleanSafety`, `OrdinaryExit` | `LifetimeInv` joins two half-arguments: while a process runs, what is owed blocks; while none runs, what is owed keeps the store from saying clean. The steps of the judgment carry that nothing is left that could halt |
| `VerdictGateProofs` | `GateTypeCorrect`, `OvershootBounded`, `EscalationHeld`, `VerdictKept`, `GreenEarnedSafety`, `StreakCapped` | `IInv`: a run requested under the escalation has legs that skipped; a run of a recorded commit can only repeat its record unless a review came; the withheld verdicts and the runs that may still add one (a cardinality argument) stay under the bound. `GreenInv`: what has an approval, or is about to publish one, was vouched for by each leg it needs (`ContentAssumption`: the classification calls guarded paths critical). `StreakInv`: every record was made where there was room for one more before it, an approval too, since it may turn indeterminate; nothing after the commit judged has a record; a review is of all records before it; and all that holds of every prefix a forced push may lead back to. It is an invariant of the pull requests that were never given back a commit: from such a commit on nothing is claimed |
| `PresenceCheckProofs` | `PresenceTypeCorrect`, `FreshEvidence`, `EarnedGreen` | `IInv`: revisions go live, and pull requests are opened, in the order of their times; a check that is past a read holds a revision no older than its begin, and a time no earlier than that revision's |
| `TokenManagerProofs` | `TypeCorrect`, `NoHerdSafety`, `CacheIsCurrentSafety`, `RefusedNotResentSafety`, `DropsOnlyRefusedSafety`, `QuietIsReportedSafety` | `IInv`: flights begin in order and one asks at a time, so the cache holds the newest answer; the number of flights exceeds the number of events by at most one, and only for a flight or a token still of use (`Slack`) |

None of the properties is inductive by itself. `NoTripLost`, say, speaks of halts that stand: a step
that releases a trip keeps it only because `OwedInv` says that the trip had already made
its halt, and a clear keeps it only because `SpanInv` makes the sample
`inflightTrips = 0` mean that no trip is past its wait.

Each `Invariance` theorem has the usual three parts (`Init`, one lemma or step
per action, the property). The refinements map initial states and then each action to an abstract action or a
stutter.

With that every safety property and action property of a passing run is proved. Only model-checked are
the liveness properties `CallsSettle`, `ShutdownEnds` and `EveryCallEnds`: fairness and `ENABLED` are
beyond the prover.

Two results are conditional, as their runs are: those with `Prompt` on callers that are as quick as the code assumes,
those with `Settles` on a disk that has caught up before the next process starts. What happens without
is in section 5.

An argument by induction over data (the last failure in a window, the first segment that is torn) is made about
the least or greatest element of a set of numbers, from the library's theorem that `<` is well-founded on `Nat`.
Where a definition would have been a recursion over a sequence, the model counts positions instead: the streak of
`VerdictGate` is the cardinality of a set of indices of the branch.

`RECURSIVE` operators are avoided altogether: the prover rejects them.

## 5. Where code and documents disagree

`AuditWriterRestart` looks for a state that the comments exclude, and finds it
(`audit/writer.go:313-335`). If the process ends, or the directory sync
fails, between the rename of a segment and the sync of its entry, the next
process takes the segment for durable, syncs the file alone and returns Acks; a power loss
can drop the entry. `Settles`, in the run that passes, says that what a process left behind has reached the disk before
the next one starts. Both runs take a successful `fsync` to make a file durable whole.

The following have no run; the properties that do hold are stated so as to leave them out.

* **Submit path** (`reconciler/drive.go:110-115`). A prepared-only intent is closed by the age of a snapshot,
  while `store.resolveIntent` asks only that the row is live. A call suspended between its
  markers for longer than the floor, or a wall clock stepped ahead, has its intent closed as
  never submitted while its POST goes out, against `reconciler.go:130-131`. With
  `Prompt = FALSE` the run finds `LiveOrderTracked` violated; the marker that is refused then halts the
  bot, so `HaltOnlyOnFailure` is too.
* **Reconciler** (`drive.go:244-247`, ADR-0014 Decision 8). A rejection whose count fails stays
  unresolved, but the in-doubt set was built from lookups before it; a newer fill of the same cycle
  resets the streak over it. `OrderedResets` is the same property while counts succeed.
* **Reconciler** (`drive.go:133`, `run.go:25-29`). A failed lookup keeps only a block this process already
  holds. After a restart there is none, so an order last seen with an unclassifiable
  status is not blocked when the gate opens. `EvidenceBlocks` leaves out that case.
* **Kill switch.** The comments call the token-failure window *sliding* (`killswitch/switch.go:30`,
  `report.go:105`); it is anchored at the first failure it counts and then starts again. `MissedAtMostTwice`
  bounds what this can miss.
* **Token manager** (`toss/token.go:331-343`). When the refresh budget elapses just as a refresh fails for
  good, `getStaleLocked` may serve the cached token one last time: the
  terminal failure is seen by the next call.
* **Migrations** (`store/schema.go:236-245`). "An imported post-terminal marker ... keeps `fully_audited_at` unset" holds of an intent
  not flagged before; V4 does not look at the flag a V3 binary may have set.
* **Verdict gate, two legs** (`verdict-gate.yml:1340` and around). Each leg reads the history for itself. If the
  repository-wide cap is reached between the two, one repeats the approval of a commit and the
  other skips, which adds up to an indeterminate record, while the required check of that
  commit, "deliberately left unset" for such a record, is still green from the approval.
* **Verdict gate, forced pushes** (`verdict-gate.yml:532-562`). `gateconfig.go:3-7` gives the maximum of consecutive
  non-approve outcomes a pull request "may accumulate" before the owner reviews it. The streak is walked over the commits
  the pull request has at the time. With a limit of 1, B is pushed and rejected; the branch is forced back to A, and A is
  rejected, as the walk finds nothing; the branch is forced to B again, and two rejections stand in a row. Stated
  for all pull requests, without the exception of `restored`, `StreakIsCapped` is violated in just this way. Likewise a pull request whose only
  commit is amended again and again never reaches the limit; what is dropped is not in its branch, so
  the property does not speak of it. The repository-wide cap counts runs, not commits, and takes hold in either case.
* **Verdict gate, repeats.** A run that repeats a record publishes it with a new time. A review the owner made after the
  verdict, but before the repetition, stops counting (`verdict-gate.yml:564-589`). Each repetition of a reject
  is one more failure for the global count, and so is any failed step, though
  the comment at 591-595 equates a failed run with a withheld approval. An approval is repeated without looking
  at the risk classification again.
* **Verdict gate, diffs** (`gate/diffparse.go`). A removed or added line that itself begins with `-- ` or `++ ` looks like a file
  header and ends the hunk it belongs to. The model's diffs are parsed already.

## 6. What is not modelled

* Of `store.Open`: the check of the path and the modes of the files.
* The `Pruner` loop, which nothing starts yet; the pass it would run is `PruneOnce`.
* Request and response formats of `order` and `toss`, rate-limit headers, backoff lengths.
* Fill snapshots in `Reconciler`, which avoid repeated audit records, and payloads that do not decode.
* `config`, `account`, `market`: typed reads without state. `strategy` is empty.
* Of the verdict gate: prompts, the reading of answers (malformed JSON fails the run's step, which is `Fail`),
  the loading of its configuration, and the sticky records of an installation before phase B. Which paths need
  both legs is judged in `GreenIsReviewed` by the paths themselves. The run has a guarded path only as the source of a rename, where it is
  easiest to overlook; the proof is for any changes.
* How GitHub itself reads `CODEOWNERS`: *owned*, in `GreenIsEarned` as in the check, is what the code's matcher says. A pattern that
  GitHub reads differently, such as a directory without its trailing slash, is out of reach.
* Of `enforcement`: `adrprotects.go`, which only tests call. It compares files with each other.
* The bot's `main`, the other workflows and the scripts.
* `promoted` is latched for the life of a process
  (`reconciler/run.go:197-205`), by decision. After an operator clears the halt, a later row of failed cycles does
  not halt again; the counters, which do not depend on it, still can.

## 7. Plan

The order of work was: the kill switch first, as everything else stops the bot through it; then
the media it and the submit path write to; then those who write; then what a file
and a merge bring with them from the past. All modules of that
list are written and checked (section 2), and their safety properties proved (section 4). What could follow, in this order:

1. A composition of the submit path, the reconciler and the kill switch over
   one journal, with `HaltGuard` in place of the kill switch's detail.
2. Abstract specifications of the submit path (each intent posts at most once and is closed by what became of it) and of
   the audit trail (a sequence of which a prefix is durable), with the refinements proved.
3. Fill snapshots in `Reconciler`, and the `Pruner` loop once something starts it.
