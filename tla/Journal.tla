-------------------------------- MODULE Journal --------------------------------
(***************************************************************************)
(* The intent journal of internal/store: the write transactions on intents, *)
(* markers and audit acks, and the retention pass of Pruner.  There is one  *)
(* write connection, so every transaction is one step; one that fails or    *)
(* panics is rolled back and is no step at all.                             *)
(*                                                                          *)
(* The callers are the environment.  They may call anything at any time,    *)
(* with stale views, but they acknowledge a record the journal knows only   *)
(* after it was emitted (reconciler.syncAudit) and never reuse an intent id *)
(* (the strategy's contract in order/submit.go).  The wall clock that stamps *)
(* the rows runs up to MaxSkew ahead of real time and may step back.        *)
(***************************************************************************)
EXTENDS JournalRow, FiniteSets

CONSTANTS
  Intents,             \* intent ids
  RetentionWindow,     \* PruneConfig
  MaxBatch,            \* PruneConfig
  MaxSkew,             \* bound: how far the wall clock may be ahead
  MaxTime              \* bound: real time

ASSUME PruneConfigAssumption ==
  RetentionWindow \in Nat \ {0} /\ MaxBatch \in Nat \ {0}

ASSUME ClockAssumption == MaxSkew \in Nat /\ MaxTime \in Nat

VARIABLES
  journal,      \* the rows
  now, skew,    \* real time, and what the wall clock adds to it
  used,         \* history: ids a caller has used
  emitted,      \* history: <<intent, record>> that are durable in the audit trail
  flaggedAt     \* history: the real time each row was flagged fully audited

vars == <<journal, now, skew, used, emitted, flaggedAt>>

Wall == now + skew

Init ==
  /\ journal = [i \in Intents |-> NoRow]
  /\ now = 0 /\ skew = 0
  /\ used = {} /\ emitted = {}
  /\ flaggedAt = [i \in Intents |-> NoTime]

-----------------------------------------------------------------------------
Tick == now < MaxTime /\ now' = now + 1 /\ UNCHANGED <<journal, skew, used, emitted, flaggedAt>>

AdjustClock ==
  /\ skew' \in 0 .. MaxSkew
  /\ UNCHANGED <<journal, now, used, emitted, flaggedAt>>

AppendIntent(i) ==
  /\ i \notin used /\ used' = used \cup {i}
  /\ ~Present(journal[i])
  /\ journal' = [journal EXCEPT ![i] = NewRow]
  /\ UNCHANGED <<now, skew, emitted, flaggedAt>>

AppendMarker(i, k, o) ==
  /\ AppendsMarker(journal[i], k, o)
  /\ journal' = [journal EXCEPT ![i] = WithMarker(@, k, o)]
  /\ UNCHANGED <<now, skew, used, emitted, flaggedAt>>

ResolveIntent(i, v) ==
  /\ Resolves(journal[i], v)
  /\ journal' = [journal EXCEPT ![i] = WithVerdict(@, v, Wall)]
  /\ UNCHANGED <<now, skew, used, emitted, flaggedAt>>

\* A caller emits one of unackedLifecycleRecords, whoever has emitted it before.
Emit(i, k) ==
  /\ Present(journal[i]) /\ k \in LifecycleKeys(journal[i]) \ journal[i].acked
  /\ emitted' = emitted \cup {<<i, LifecycleRecord(journal[i], k)>>}
  /\ UNCHANGED <<journal, now, skew, used, flaggedAt>>

\* Honest about what it emitted, or with a key the journal does not know.
MayAck(i, k) ==
  k \in LifecycleKeys(journal[i]) => <<i, LifecycleRecord(journal[i], k)>> \in emitted

RecordAuditAck(i, k) ==
  /\ MayAck(i, k)
  /\ AcceptsAck(journal[i], k)
  /\ journal' = [journal EXCEPT ![i] = WithAck(@, k)]
  /\ UNCHANGED <<now, skew, used, emitted, flaggedAt>>

FinalizeFullyAudited(i) ==
  /\ Finalizes(journal[i])
  /\ journal' = [journal EXCEPT ![i] = WithAuditedAt(@, Wall)]
  /\ flaggedAt' = [flaggedAt EXCEPT ![i] = now]
  /\ UNCHANGED <<now, skew, used, emitted>>

\* pruneCandidateQuery: at most a batch, those eligible longest.
Candidates(cutoff) ==
  LET eligible == {i \in Intents : PruneEligible(journal[i], cutoff)}
      Before(S) == \A i \in S, j \in eligible \ S :
                     EligibleSince(journal[i]) <= EligibleSince(journal[j])
  IN  {S \in SUBSET eligible :
         /\ Cardinality(S) <= MaxBatch
         /\ S # eligible => Cardinality(S) = MaxBatch
         /\ Before(S)}

\* One pass, all of it or, rolled back, none of it.
PruneOnce ==
  \E S \in Candidates(Wall - RetentionWindow) :
    /\ journal' = [i \in Intents |-> IF i \in S THEN NoRow ELSE journal[i]]
    /\ UNCHANGED <<now, skew, used, emitted, flaggedAt>>

-----------------------------------------------------------------------------
\* The keys a caller can have: of any intent it has ever seen.
Keys == 0 .. Cardinality(MarkerKinds)

Next ==
  \/ Tick \/ AdjustClock \/ PruneOnce
  \/ \E i \in Intents :
       \/ AppendIntent(i) \/ FinalizeFullyAudited(i)
       \/ \E k \in MarkerKinds, o \in OrderIds \cup {NoOrder} : AppendMarker(i, k, o)
       \/ \E v \in Verdicts : ResolveIntent(i, v)
       \/ \E k \in Keys : Emit(i, k) \/ RecordAuditAck(i, k)

Spec == Init /\ [][Next]_vars

-----------------------------------------------------------------------------
TypeOK ==
  /\ journal \in [Intents -> Rows]
  /\ \A i \in Intents : Resolved(journal[i]) <=> journal[i].resolvedAt # NoTime
  /\ now \in Nat /\ skew \in 0 .. MaxSkew
  /\ used \subseteq Intents
  /\ flaggedAt \in [Intents -> Nat \cup {NoTime}]

\* Absence of submit-attempted means that no POST was made, and an order id is found
\* only behind one: a row's markers are an initial part of prepared,
\* submit-attempted, acked, and the acked one alone names an order (integrity.go).
MarkerProtocol ==
  \A i \in Intents : \A n \in DOMAIN journal[i].markers :
    /\ n <= 3
    /\ journal[i].markers[n].kind = <<"prepared", "submit-attempted", "acked">>[n]
    /\ journal[i].markers[n].orderId \in OrderIds <=> n = 3

\* The prune gate is open only over a row whose whole lifecycle, intermediate markers
\* and verdict, is durable in the audit trail, whatever was acknowledged early, late or
\* for a key that did not exist (audit_ack.go:122-138).
FlagMeansAudited ==
  \A i \in Intents : Audited(journal[i]) =>
    \A r \in ReconstructLifecycleRecords(journal[i]) : <<i, r>> \in emitted

\* A closed intent stays as it was closed: until it is pruned no later verdict, marker
\* or order id changes what was decided, nor a retry when (tx.go, resolveIntent).
ClosedStaysClosed ==
  [][\A i \in Intents : Resolved(journal[i]) =>
       \/ journal'[i] = NoRow
       \/ /\ journal'[i].resolution = journal[i].resolution
          /\ journal'[i].resolvedAt = journal[i].resolvedAt
          /\ journal'[i].markers = journal[i].markers]_vars

\* A row lives on for the retention window after its flag was set, less what the wall
\* clock may have jumped, however often it stepped between the two (prune.go:88-99).
GraceKept ==
  [][\A i \in Intents : Present(journal[i]) /\ ~Present(journal'[i]) =>
       now - flaggedAt[i] >= RetentionWindow - MaxSkew]_vars

\* The journal is the outbox of the audit trail: no record is dropped, or comes to say
\* something else, before it was sent.
Kept == UNION {{<<i, r>> : r \in ReconstructLifecycleRecords(journal[i])} : i \in Intents}
Outbox == INSTANCE AuditOutbox WITH kept <- Kept, sent <- emitted
ImplementsAuditOutbox == Outbox!Spec
=============================================================================
