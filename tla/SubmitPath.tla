------------------------------- MODULE SubmitPath -------------------------------
(***************************************************************************)
(* Submitter.SubmitIntent of internal/order: the two-marker write-ahead     *)
(* sequence around one POST.  Calls run concurrently, with each other and   *)
(* with the reconciler that closes intents behind their back; any call may  *)
(* reuse an intent id, the media may fail and the process may crash between *)
(* any two steps.  A step is one call of the code into the journal, the     *)
(* audit sink, the kill switch or the broker.                               *)
(*                                                                          *)
(* The wake seam is left out: it hastens a cycle the ticker runs anyway, and *)
(* Scan may happen at any time.  The guard may refuse for a block of its    *)
(* own at any time and must refuse while the global halt stands (KillSwitch  *)
(* has the details); a Trip that fails blocks the process all the same.      *)
(***************************************************************************)
EXTENDS JournalRow, FiniteSets

CONSTANTS
  Calls,       \* invocations of SubmitIntent
  Intents,     \* intent ids
  Aborted,     \* the verdict aborted-before-submit
  MaxFaults,   \* bound: failures of the store and of the audit medium
  Prompt       \* a call passes from prepared to submit-attempted within the floor

NoIntent == "none"

ASSUME SubmitAssumption ==
  /\ Aborted \in Verdicts /\ NoIntent \notin Intents
  /\ MaxFaults \in Nat /\ Prompt \in BOOLEAN

VARIABLES
  calls,       \* what each invocation is about to do and holds in its locals
  journal,     \* the rows
  records,     \* the records durable in the audit trail
  latched,     \* the audit writer's sticky failure
  halted,      \* the global halt
  sent,        \* the calls that made their POST
  accepted,    \* the order the broker made of a call's POST
  scan,        \* the intents the reconciler's cycle found abandoned and has yet to close
  faults       \* history: media failures so far

vars == <<calls, journal, records, latched, halted, sent, accepted, scan, faults>>

\* What SubmitIntent returns; dead went down with its process.
Returned == {"blocked", "duplicate", "unresolved", "acked", "failed", "dead"}

\* Between the prepared commit and the submit-attempted commit.
Preparing == {"emitPrepared", "reconfirm", "mark"}
Submitting == Preparing \cup
  {"emitAttempted", "post", "ack", "preserve", "emitAcked", "trip"}
Acking == {"ack", "preserve", "emitAcked", "acked"}
Steps == {"start", "lookup", "guard", "append", "recheck"} \cup Submitting \cup Returned

OrderId == OrderIds \cup {NoOrder}
CallStates == [at : Steps, intent : Intents \cup {NoIntent}, order : OrderId, then : Returned]
Record(i, k, o) == [intent |-> i, kind |-> k, order |-> o]
OrphanOrder == "orphan"    \* the ERROR record of preserveOrphanOrderID

Init ==
  /\ calls = [c \in Calls |->
       [at |-> "start", intent |-> NoIntent, order |-> NoOrder, then |-> "failed"]]
  /\ journal = [i \in Intents |-> NoRow]
  /\ records = {} /\ latched = FALSE /\ halted = FALSE
  /\ sent = {} /\ accepted = [c \in Calls |-> NoOrder]
  /\ scan = {} /\ faults = 0

-----------------------------------------------------------------------------
At(c, step) == calls[c].at = step
Go(c, step) == calls' = [calls EXCEPT ![c].at = step]
Row(c) == journal[calls[c].intent]
Write(c, row) == journal' = [journal EXCEPT ![calls[c].intent] = row]

Fault == faults < MaxFaults /\ faults' = faults + 1
Broker == <<sent, accepted>>

Start(c, i) ==
  /\ At(c, "start")
  /\ calls' = [calls EXCEPT ![c].at = "lookup", ![c].intent = i]
  /\ UNCHANGED <<journal, records, latched, halted, Broker, scan, faults>>

\* duplicateOutcome
Duplicate(c) ==
  calls' = [calls EXCEPT ![c].at = "duplicate", ![c].order = OrderOf(Row(c))]

\* A slip: a replay takes up the submit that was left without an answer.
LookupResumes(c) ==
  /\ At(c, "lookup")
  /\ IF ~Live(Row(c)) THEN Go(c, "guard")
     ELSE IF Has(Row(c), "submit-attempted") /\ OrderOf(Row(c)) = NoOrder THEN Go(c, "post")
     ELSE Duplicate(c)
  /\ UNCHANGED <<journal, records, latched, halted, Broker, scan, faults>>

\* lookup over the live rows; the second alternative is a read error.
Lookup(c) ==
  /\ At(c, "lookup")
  /\ \/ IF Live(Row(c)) THEN Duplicate(c) ELSE Go(c, "guard")
     \/ Go(c, "failed")
  /\ UNCHANGED <<journal, records, latched, halted, Broker, scan, faults>>

CanSubmit(c) ==
  /\ At(c, "guard")
  /\ \/ ~halted /\ Go(c, "append")
     \/ Go(c, "blocked")
  /\ UNCHANGED <<journal, records, latched, halted, Broker, scan, faults>>

AppendIntent(c) ==
  /\ At(c, "append")
  /\ \/ ~Present(Row(c)) /\ Write(c, NewRow) /\ Go(c, "emitPrepared") /\ UNCHANGED faults
     \/ Present(Row(c)) /\ Go(c, "recheck") /\ UNCHANGED <<journal, faults>>
     \/ Fault /\ Go(c, "recheck") /\ UNCHANGED journal
  /\ UNCHANGED <<records, latched, halted, Broker, scan>>

\* A slip: the error that remains is taken for a media failure.
RecheckTrips(c) ==
  /\ At(c, "recheck")
  /\ IF Live(Row(c)) THEN Duplicate(c) ELSE Go(c, "trip")
  /\ UNCHANGED <<journal, records, latched, halted, Broker, scan, faults>>

\* The fallback lookup.  The error that remains is not escalated.
Recheck(c) ==
  /\ At(c, "recheck")
  /\ \/ Live(Row(c)) /\ Duplicate(c)
     \/ Go(c, "failed")
  /\ UNCHANGED <<journal, records, latched, halted, Broker, scan, faults>>

\* The sink refuses: it failed before, or does so now.
Broken == Fault \/ (latched /\ UNCHANGED faults)

\* A slip: a failed emit is passed over once the halt was tripped.
EmitGoesOn(c, from, kind, to, back) ==
  /\ At(c, from)
  /\ Go(c, to)
  /\ \/ ~latched /\ records' = records \cup {Record(calls[c].intent, kind, calls[c].order)}
        /\ UNCHANGED <<latched, halted, faults>>
     \/ Broken /\ latched' = TRUE /\ halted' = TRUE /\ UNCHANGED records
  /\ UNCHANGED <<journal, Broker, scan>>

\* emit: durable, or fail-closed (the sink's failure latches it) with a trip, or
\* refused for a reason that is not the medium's.
Emit(c, from, kind, to, back) ==
  /\ At(c, from)
  /\ \/ /\ ~latched /\ records' = records \cup {Record(calls[c].intent, kind, calls[c].order)}
        /\ Go(c, to) /\ UNCHANGED <<latched, faults>>
     \/ /\ Broken /\ latched' = TRUE
        /\ calls' = [calls EXCEPT ![c].at = "trip", ![c].then = back]
        /\ UNCHANGED records
     \/ Go(c, back) /\ UNCHANGED <<records, latched, faults>>
  /\ UNCHANGED <<journal, halted, Broker, scan>>

EmitPrepared(c) == Emit(c, "emitPrepared", "prepared", "reconfirm", "unresolved")

Reconfirm(c) ==
  /\ At(c, "reconfirm")
  /\ \/ ~halted /\ Go(c, "mark")
     \/ Go(c, "blocked")
  /\ UNCHANGED <<journal, records, latched, halted, Broker, scan, faults>>

\* The store refuses a marker: the protocol does not allow it, or the medium failed.
Refused(c, k) ==
  Fault \/ (~AppendsMarker(Row(c), k, calls[c].order) /\ UNCHANGED faults)

\* AppendMarker(submit-attempted) on the caller's context: written, given up by the
\* caller, or failed, which trips whether the medium or the protocol refused it.
Mark(c) ==
  /\ At(c, "mark")
  /\ \/ /\ AppendsMarker(Row(c), "submit-attempted", NoOrder)
        /\ Write(c, WithMarker(Row(c), "submit-attempted", NoOrder))
        /\ Go(c, "emitAttempted") /\ UNCHANGED faults
     \/ Go(c, "failed") /\ UNCHANGED <<journal, faults>>
     \/ /\ Refused(c, "submit-attempted")
        /\ calls' = [calls EXCEPT ![c].at = "trip", ![c].then = "failed"]
        /\ UNCHANGED journal
  /\ UNCHANGED <<records, latched, halted, Broker, scan>>

EmitAttempted(c) == Emit(c, "emitAttempted", "submit-attempted", "post", "unresolved")

Fresh(o) == o \in OrderIds /\ \A c \in Calls : accepted[c] # o

\* The broker makes an order o and the client learns of it, or the answer is lost or
\* names no order and the caller gets an error.
SubmitOrder(c, o) ==
  /\ Fresh(o) /\ accepted' = [accepted EXCEPT ![c] = o]
  /\ \/ calls' = [calls EXCEPT ![c].at = "ack", ![c].order = o]
     \/ Go(c, "unresolved")

\* The one POST; it may also end in an error with no order behind it.
Post(c) ==
  /\ At(c, "post")
  /\ sent' = sent \cup {c}
  /\ \/ \E o \in OrderIds : SubmitOrder(c, o)
     \/ Go(c, "unresolved") /\ UNCHANGED accepted
  /\ UNCHANGED <<journal, records, latched, halted, scan, faults>>

\* A slip: the outcome is acked though the marker is not.
AckBestEffort(c) ==
  /\ At(c, "ack")
  /\ \/ /\ AppendsMarker(Row(c), "acked", calls[c].order)
        /\ Write(c, WithMarker(Row(c), "acked", calls[c].order)) /\ UNCHANGED faults
     \/ Refused(c, "acked") /\ UNCHANGED journal
  /\ Go(c, "emitAcked")
  /\ UNCHANGED <<records, latched, halted, Broker, scan>>

\* AppendMarker(acked, orderId), out of the caller's reach.
Ack(c) ==
  /\ At(c, "ack")
  /\ \/ /\ AppendsMarker(Row(c), "acked", calls[c].order)
        /\ Write(c, WithMarker(Row(c), "acked", calls[c].order))
        /\ Go(c, "emitAcked") /\ UNCHANGED faults
     \/ /\ Refused(c, "acked")
        /\ Go(c, "preserve") /\ UNCHANGED journal
  /\ UNCHANGED <<records, latched, halted, Broker, scan>>

\* preserveOrphanOrderID, whose own failure is swallowed; the trip follows.
Preserve(c) ==
  /\ At(c, "preserve")
  /\ calls' = [calls EXCEPT ![c].at = "trip", ![c].then = "unresolved"]
  /\ \/ /\ ~latched
        /\ records' = records \cup {Record(calls[c].intent, OrphanOrder, calls[c].order)}
        /\ UNCHANGED <<latched, faults>>
     \/ Fault /\ latched' = TRUE /\ UNCHANGED records
     \/ UNCHANGED <<records, latched, faults>>
  /\ UNCHANGED <<journal, halted, Broker, scan>>

EmitAcked(c) == Emit(c, "emitAcked", "acked", "acked", "acked")

Trip(c) ==
  /\ At(c, "trip")
  /\ halted' = TRUE
  /\ Go(c, calls[c].then)
  /\ UNCHANGED <<journal, records, latched, Broker, scan, faults>>

-----------------------------------------------------------------------------
(* The reconciler, the operator and the process *)

PreparedOnly(i) == Live(journal[i]) /\ ~Has(journal[i], "submit-attempted")
BeingPrepared(i) == \E c \in Calls : calls[c].intent = i /\ calls[c].at \in Preparing

\* A slip: nothing keeps the abandonment floor above the time a call may take.
AgedAtOnce(i) == PreparedOnly(i)

\* Old enough to close.  Only a call slower than the floor can still be at work on it.
Aged(i) == PreparedOnly(i) /\ (Prompt => ~BeingPrepared(i))

\* A cycle loads the live rows and finds some of the prepared-only ones old enough.
Scan ==
  /\ scan' \in SUBSET {i \in Intents : Aged(i)}
  /\ UNCHANGED <<calls, journal, records, latched, halted, Broker, faults>>

\* closePreparedOnly acts on the snapshot; resolveIntent asks for a live row only.
ClosePreparedOnly(i) ==
  /\ i \in scan /\ scan' = scan \ {i}
  /\ journal' = IF Resolves(journal[i], Aborted)
                THEN [journal EXCEPT ![i] = WithVerdict(@, Aborted, 0)] ELSE journal
  /\ UNCHANGED <<calls, records, latched, halted, Broker, faults>>

\* An acked intent whose order is looked up and found terminal.
CloseAcked(i, v) ==
  /\ v # Aborted /\ Resolves(journal[i], v) /\ OrderOf(journal[i]) # NoOrder
  /\ journal' = [journal EXCEPT ![i] = WithVerdict(@, v, 0)]
  /\ UNCHANGED <<calls, records, latched, halted, Broker, scan, faults>>

\* The operator clears the halt, or a crash loses one that never became durable.
ClearHalt ==
  /\ halted /\ halted' = FALSE
  /\ UNCHANGED <<calls, journal, records, latched, Broker, scan, faults>>

Crash ==
  /\ calls' = [c \in Calls |->
       IF calls[c].at \in {"start"} \cup Returned THEN calls[c]
       ELSE [calls[c] EXCEPT !.at = "dead"]]
  /\ latched' = FALSE /\ scan' = {}
  /\ UNCHANGED <<journal, records, halted, Broker, faults>>

SubmitIntent(c) ==
  \/ \E i \in Intents : Start(c, i)
  \/ Lookup(c) \/ CanSubmit(c) \/ AppendIntent(c) \/ Recheck(c) \/ EmitPrepared(c)
  \/ Reconfirm(c) \/ Mark(c) \/ EmitAttempted(c) \/ Post(c) \/ Ack(c) \/ Preserve(c)
  \/ EmitAcked(c) \/ Trip(c)

Next ==
  \/ \E c \in Calls : SubmitIntent(c)
  \/ \E i \in Intents : ClosePreparedOnly(i) \/ \E v \in Verdicts : CloseAcked(i, v)
  \/ Scan \/ ClearHalt \/ Crash

Spec == Init /\ [][Next]_vars

-----------------------------------------------------------------------------
\* The POST was answered, and a trip on the way out does not hide it.
Answered(c) == calls[c].at \in Acking \/ (At(c, "trip") /\ calls[c].then \in Acking)

\* A started call has an intent, an answered one the order id of the answer.
CallsOK ==
  /\ calls \in [Calls -> CallStates]
  /\ \A c \in Calls : calls[c].intent = NoIntent => At(c, "start")
  /\ \A c \in Calls : Answered(c) => calls[c].order \in OrderIds

TypeOK ==
  /\ CallsOK
  /\ journal \in [Intents -> Rows]
  /\ records \subseteq [intent : Intents, kind : MarkerKinds \cup {OrphanOrder}, order : OrderId]
  /\ latched \in BOOLEAN /\ halted \in BOOLEAN
  /\ sent \subseteq Calls
  /\ accepted \in [Calls -> OrderId]
  /\ scan \subseteq Intents
  /\ faults \in 0 .. MaxFaults

\* One intent, one POST: whatever ran concurrently, was replayed, crashed or was
\* resolved in between, no second call reaches the broker for it (submit.go:212).
OnePost ==
  \A c, d \in sent : calls[c].intent = calls[d].intent => c = d

\* When a POST leaves, its submit-attempted marker and the audit records of both
\* markers are durable, and they outlive the process that made it (submit.go:235-237).
EvidenceBeforePost ==
  \A c \in sent :
    /\ Has(journal[calls[c].intent], "submit-attempted")
    /\ \A k \in {"prepared", "submit-attempted"} :
         Record(calls[c].intent, k, NoOrder) \in records

\* An intent behind which the broker made an order stays live, where the reconciler
\* looks, until the journal names that order; it is never closed as one whose POST did
\* not happen (drive.go:105-112, submit.go:385-399).
LiveOrderTracked ==
  \A c \in Calls : accepted[c] # NoOrder =>
    LET row == journal[calls[c].intent] IN
      Live(row) \/ (row.resolution # Aborted /\ OrderOf(row) = accepted[c])

\* What callers are told is so: an order id in an outcome is one the broker gave that
\* intent, and behind acked it is in the journal (submit.go:105-141).
OutcomeTruthful ==
  \A c \in Calls : calls[c].at \in Returned /\ calls[c].order # NoOrder =>
    /\ \E d \in sent : calls[d].intent = calls[c].intent /\ accepted[d] = calls[c].order
    /\ calls[c].at \in {"acked", "duplicate"} => OrderOf(journal[calls[c].intent]) = calls[c].order

\* The path halts the bot over a broken medium, never over a replay, a caller that
\* gave up or a race with another call (submit.go:319-335).
HaltOnlyOnFailure == halted => faults > 0
=============================================================================
