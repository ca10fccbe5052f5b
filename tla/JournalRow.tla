------------------------------- MODULE JournalRow -------------------------------
(***************************************************************************)
(* One row of the intent journal of internal/store with its markers and     *)
(* audit acks, and what each statement on it requires and does.  An intent  *)
(* is born with its prepared marker, so a row without markers is no row.    *)
(***************************************************************************)
EXTENDS Integers, Sequences

CONSTANTS
  OrderIds, NoOrder,      \* order ids the broker issues, and the empty one
  Verdicts, NoVerdict     \* terminal resolutions, and none

ASSUME RowAssumption == NoOrder \notin OrderIds /\ NoVerdict \notin Verdicts

MarkerKinds == {"prepared", "submit-attempted", "acked"}
MarkerShapes == [kind : MarkerKinds, orderId : OrderIds \cup {NoOrder}]

NoTime == -1     \* NULL in resolved_at and fully_audited_at
Terminal == 0    \* terminalAckKey; a marker's key is its number

Rows == [markers : Seq(MarkerShapes), resolution : Verdicts \cup {NoVerdict},
         resolvedAt : Nat \cup {NoTime}, acked : SUBSET Nat,
         auditedAt : Nat \cup {NoTime}]

NoRow == [markers |-> <<>>, resolution |-> NoVerdict, resolvedAt |-> NoTime,
          acked |-> {}, auditedAt |-> NoTime]

Present(r) == r.markers # <<>>
Resolved(r) == r.resolution # NoVerdict
Live(r) == Present(r) /\ ~Resolved(r)        \* loadUnresolvedIntents
Audited(r) == r.auditedAt # NoTime

Has(r, k) == \E n \in DOMAIN r.markers : r.markers[n].kind = k

-----------------------------------------------------------------------------
(* appendMarker *)

requiredPredecessor(k) ==
  CASE k = "submit-attempted" -> "prepared" [] k = "acked" -> "submit-attempted"
    [] OTHER -> "none"

\* A slip: no predecessor is asked for.
AppendsMarkerAnyOrder(r, k, o) ==
  /\ Live(r)
  /\ ~Has(r, k)
  /\ (k = "acked") <=> (o # NoOrder)

\* The row-spanning guards of the insert, the unique index and the shape check.
AppendsMarker(r, k, o) ==
  /\ Live(r)
  /\ requiredPredecessor(k) # "none" => Has(r, requiredPredecessor(k))
  /\ ~Has(r, k)
  /\ (k = "acked") <=> (o # NoOrder)

WithMarker(r, k, o) == [r EXCEPT !.markers = Append(@, [kind |-> k, orderId |-> o])]

\* appendIntent: the row and its prepared marker.
NewRow == WithMarker(NoRow, "prepared", NoOrder)

\* resolveIntent writes; the same verdict again is a success that writes nothing.
Resolves(r, v) == Live(r)

WithVerdict(r, v, t) == [r EXCEPT !.resolution = v, !.resolvedAt = t]

-----------------------------------------------------------------------------
(* Audit acks *)

\* The keys of ReconstructLifecycleRecords: a marker each, and the terminal.
LifecycleKeys(r) == DOMAIN r.markers \cup {k \in {Terminal} : Resolved(r)}

\* The order id the row's acked marker carries.
OrderOf(r) ==
  IF \E n \in DOMAIN r.markers : r.markers[n].orderId # NoOrder
  THEN CHOOSE o \in OrderIds : \E n \in DOMAIN r.markers : r.markers[n].orderId = o
  ELSE NoOrder

\* What the record of a key says: the marker or the verdict, and the order id.
LifecycleRecord(r, k) ==
  IF k = Terminal THEN [key |-> k, marker |-> r.resolution, orderId |-> OrderOf(r)]
  ELSE [key |-> k, marker |-> r.markers[k].kind, orderId |-> r.markers[k].orderId]

ReconstructLifecycleRecords(r) == {LifecycleRecord(r, k) : k \in LifecycleKeys(r)}

\* A slip: any key is accepted for an intent that exists.
AcceptsAnyAck(r, k) == Present(r)

AcceptsAck(r, k) == Present(r) /\ k \in LifecycleKeys(r)
WithAck(r, k) == [r EXCEPT !.acked = @ \cup {k}]

\* A slip: the terminal ack alone opens the gate.
FinalizesOnTerminal(r) == Present(r) /\ Resolved(r) /\ ~Audited(r) /\ Terminal \in r.acked

\* finalizeFullyAudited sets the flag.
Finalizes(r) ==
  Present(r) /\ Resolved(r) /\ ~Audited(r) /\ LifecycleKeys(r) \subseteq r.acked
WithAuditedAt(r, t) == [r EXCEPT !.auditedAt = t]

-----------------------------------------------------------------------------
(* Retention *)

Later(a, b) == IF a >= b THEN a ELSE b

\* The key prune orders by and compares with its cutoff.
EligibleSince(r) == Later(r.resolvedAt, r.auditedAt)

\* A slip: the window runs from the resolution.
PruneEligibleSinceResolution(r, cutoff) ==
  Present(r) /\ Resolved(r) /\ Audited(r) /\ r.resolvedAt <= cutoff

PruneEligible(r, cutoff) ==
  Present(r) /\ Resolved(r) /\ Audited(r) /\ EligibleSince(r) <= cutoff
=============================================================================
