--------------------------- MODULE SubmitPathProofs ---------------------------
(***************************************************************************)
(* The submit path for any number of calls, intents and media failures.     *)
(***************************************************************************)
EXTENDS SubmitPath, TLAPS

\* A marker of the row carries the order id.
Names(r, o) == \E n \in DOMAIN r.markers : r.markers[n].orderId = o

-----------------------------------------------------------------------------
(* Rows *)

LEMMA BlankRow == NoRow \in Rows /\ ~Present(NoRow) /\ ~Resolved(NoRow)
                   /\ (\A k : ~Has(NoRow, k)) /\ (\A o : ~Names(NoRow, o))
  BY DEF NoRow, Rows, Present, Resolved, Has, Names

LEMMA MarkedRow ==
  ASSUME NEW r \in Rows, NEW k \in MarkerKinds, NEW o \in OrderId
  PROVE  /\ WithMarker(r, k, o) \in Rows
         /\ Present(WithMarker(r, k, o))
         /\ WithMarker(r, k, o).resolution = r.resolution
         /\ \A l : Has(WithMarker(r, k, o), l) <=> Has(r, l) \/ l = k
         /\ \A p : Names(WithMarker(r, k, o), p) <=> Names(r, p) \/ p = o
  <1> DEFINE m == [kind |-> k, orderId |-> o]
             ms == Append(r.markers, m)
  <1>1. m \in MarkerShapes /\ r.markers \in Seq(MarkerShapes)
    BY DEF MarkerShapes, OrderId, Rows
  <1>2. WithMarker(r, k, o) = [r EXCEPT !.markers = ms]
    BY DEF WithMarker
  <1>3. m.kind = k /\ m.orderId = o
    OBVIOUS
  <1> HIDE DEF m
  <1>4. ms \in Seq(MarkerShapes) /\ ms # <<>>
    BY <1>1
  <1>5. /\ DOMAIN r.markers = 1 .. Len(r.markers) /\ Len(r.markers) \in Nat
        /\ DOMAIN ms = 1 .. Len(r.markers) + 1
        /\ \A n \in DOMAIN r.markers : n \in DOMAIN ms /\ ms[n] = r.markers[n]
        /\ ms[Len(r.markers) + 1] = m
        /\ \A n \in DOMAIN ms : n \in DOMAIN r.markers \/ n = Len(r.markers) + 1
    BY <1>1
  <1>6. Len(r.markers) + 1 \in DOMAIN ms
    BY <1>5
  <1> HIDE DEF ms
  <1>7. /\ WithMarker(r, k, o) \in Rows
        /\ WithMarker(r, k, o).markers = ms
        /\ WithMarker(r, k, o).resolution = r.resolution
    BY <1>2, <1>4 DEF Rows
  <1>8. \A l : (\E n \in DOMAIN ms : ms[n].kind = l) <=> Has(r, l) \/ l = k
    BY <1>3, <1>5, <1>6 DEF Has
  <1>9. \A p : (\E n \in DOMAIN ms : ms[n].orderId = p) <=> Names(r, p) \/ p = o
    BY <1>3, <1>5, <1>6 DEF Names
  <1>10. QED
    BY <1>7, <1>4, <1>8, <1>9 DEF Present, Has, Names

LEMMA FirstRow == NewRow \in Rows /\ Present(NewRow) /\ ~Resolved(NewRow)
                   /\ (\A k : Has(NewRow, k) <=> k = "prepared")
                   /\ (\A o : Names(NewRow, o) <=> o = NoOrder)
  BY BlankRow, MarkedRow DEF NewRow, MarkerKinds, OrderId, Resolved

LEMMA ClosedRow ==
  ASSUME NEW r \in Rows, NEW v \in Verdicts
  PROVE  /\ WithVerdict(r, v, 0) \in Rows
         /\ Present(WithVerdict(r, v, 0)) <=> Present(r)
         /\ WithVerdict(r, v, 0).resolution = v
         /\ \A l : Has(WithVerdict(r, v, 0), l) <=> Has(r, l)
         /\ \A p : Names(WithVerdict(r, v, 0), p) <=> Names(r, p)
  <1>1. /\ WithVerdict(r, v, 0) \in Rows /\ WithVerdict(r, v, 0).resolution = v
        /\ WithVerdict(r, v, 0).markers = r.markers
    BY DEF WithVerdict, Rows
  <1>2. QED
    BY <1>1 DEF Present, Has, Names

LEMMA MarkersTyped ==
  ASSUME NEW r \in Rows PROVE \A n \in DOMAIN r.markers : r.markers[n] \in MarkerShapes
  <1>1. r.markers \in Seq(MarkerShapes)
    BY DEF Rows
  <1>2. QED
    BY <1>1

LEMMA OrderOfRow ==
  ASSUME NEW r \in Rows
  PROVE  /\ OrderOf(r) \in OrderId
         /\ OrderOf(r) # NoOrder => Names(r, OrderOf(r))
         /\ \A o \in OrderIds :
              Names(r, o) /\ (\A p \in OrderIds : Names(r, p) => p = o) => OrderOf(r) = o
  <1>1. \A n \in DOMAIN r.markers : r.markers[n].orderId \in OrderId
    BY MarkersTyped DEF MarkerShapes, OrderId
  <1> DEFINE Some == \E n \in DOMAIN r.markers : r.markers[n].orderId # NoOrder
             Pick == CHOOSE o \in OrderIds : \E n \in DOMAIN r.markers : r.markers[n].orderId = o
  <1>2. OrderOf(r) = IF Some THEN Pick ELSE NoOrder
    BY DEF OrderOf
  <1>3. Some => \E o \in OrderIds : \E n \in DOMAIN r.markers : r.markers[n].orderId = o
    BY <1>1 DEF OrderId
  <1>4. Some => Pick \in OrderIds /\ Names(r, Pick)
    BY <1>3 DEF Names
  <1>5. \A o \in OrderIds : Names(r, o) => Some
    BY RowAssumption DEF Names
  <1> HIDE DEF Some, Pick
  <1>6. QED
    BY <1>2, <1>4, <1>5 DEF OrderId

-----------------------------------------------------------------------------
(* What no step takes back *)

\* A call that is on the path of its intent, or made the POST for it.
Holder(c) == calls[c].at \in Submitting \/ c \in sent

Unanswered ==
  {"start", "lookup", "guard", "append", "recheck"} \cup Preparing \cup {"emitAttempted", "post"}

\* A call before its POST holds no order; one whose POST was answered holds its order.
AnswerOK(c) ==
  /\ calls[c].at \in Unanswered => c \notin sent /\ calls[c].order = NoOrder
  /\ c \notin sent => accepted[c] = NoOrder
  /\ Answered(c) => c \in sent /\ accepted[c] = calls[c].order

PresentOK(c) == Holder(c) => Present(Row(c))

EvidenceOK(c) ==
  /\ calls[c].at \in {"reconfirm", "mark", "emitAttempted", "post"} \/ c \in sent =>
       Record(calls[c].intent, "prepared", NoOrder) \in records
  /\ calls[c].at = "post" \/ c \in sent =>
       Record(calls[c].intent, "submit-attempted", NoOrder) \in records
  /\ calls[c].at \in {"emitAttempted", "post"} \/ c \in sent =>
       Has(Row(c), "submit-attempted")

Exclusive ==
  \A c, d \in Calls : Holder(c) /\ Holder(d) /\ calls[c].intent = calls[d].intent => c = d

\* The broker gave the order to a call of that intent.
Given(i, o) == \E d \in sent : calls[d].intent = i /\ accepted[d] = o

GivenOK(c) == calls[c].order # NoOrder => Given(calls[c].intent, calls[c].order)

NamesGiven == \A i \in Intents : \A o \in OrderIds : Names(journal[i], o) => Given(i, o)

\* What a call will say of an order is what the journal says.
Told(c) ==
  \/ calls[c].at \in {"emitAcked", "acked", "duplicate"}
  \/ calls[c].at = "trip" /\ calls[c].then \in {"acked", "duplicate"}

ToldOK(c) == Told(c) /\ calls[c].order # NoOrder => Names(Row(c), calls[c].order)

Inv ==
  /\ TypeOK /\ Exclusive /\ NamesGiven
  /\ \A c \in Calls : AnswerOK(c) /\ PresentOK(c) /\ EvidenceOK(c) /\ GivenOK(c) /\ ToldOK(c)

LEMMA Initial == Init => Inv
  <1> SUFFICES ASSUME Init PROVE Inv
    OBVIOUS
  <1>1. TypeOK
    <2>1. CallsOK
      BY DEF Init, CallsOK, CallStates, Steps, Returned, Acking, Answered, OrderId, At
    <2>2. journal \in [Intents -> Rows] /\ accepted \in [Calls -> OrderId]
      BY BlankRow DEF Init, OrderId
    <2>3. faults \in 0 .. MaxFaults
      BY SubmitAssumption DEF Init
    <2>4. QED
      BY <2>1, <2>2, <2>3 DEF Init, TypeOK
  <1>2. \A c \in Calls : calls[c].at = "start" /\ calls[c].order = NoOrder /\ c \notin sent
    BY DEF Init
  <1>3. \A c \in Calls : ~Holder(c) /\ ~Told(c)
    BY <1>2 DEF Holder, Submitting, Preparing, Told
  <1>4. NamesGiven
    BY BlankRow DEF Init, NamesGiven
  <1>5. \A c \in Calls : AnswerOK(c) /\ EvidenceOK(c)
    BY <1>2 DEF Init, AnswerOK, EvidenceOK, Acking, Answered, At
  <1>6. QED
    BY <1>1, <1>2, <1>3, <1>4, <1>5 DEF Inv, Exclusive, PresentOK, GivenOK, ToldOK

-----------------------------------------------------------------------------
(* Types *)

\* A call that has started has an intent, with a row.
LEMMA Started ==
  ASSUME TypeOK, NEW c \in Calls, ~At(c, "start")
  PROVE  calls[c].intent \in Intents /\ Row(c) \in Rows
  BY DEF TypeOK, CallsOK, CallStates, Row, At

LEMMA WriteType ==
  ASSUME TypeOK, NEW c \in Calls, NEW row \in Rows, Write(c, row)
  PROVE  journal' \in [Intents -> Rows]
  BY DEF TypeOK, Write

\* Where a call may go next, with or without a place to return to after it.
LEMMA GoType ==
  ASSUME TypeOK, NEW c \in Calls, ~At(c, "start"), NEW at \in Steps \ {"trip"},
         at \in Acking => calls[c].order \in OrderIds, Go(c, at)
  PROVE  CallsOK'
  BY DEF TypeOK, CallsOK, CallStates, Answered, Go, At

LEMMA TripType ==
  ASSUME TypeOK, NEW c \in Calls, ~At(c, "start"), NEW then \in Returned,
         then \in Acking => calls[c].order \in OrderIds,
         calls' = [calls EXCEPT ![c].at = "trip", ![c].then = then]
  PROVE  CallsOK'
  <1>1. "trip" \in Steps /\ "trip" \notin Acking
    BY DEF Steps, Submitting, Acking
  <1>2. QED
    BY <1>1 DEF TypeOK, CallsOK, CallStates, Answered, At

\* The same with an order id learned.
LEMMA LearnType ==
  ASSUME TypeOK, NEW c \in Calls, ~At(c, "start"), NEW at \in Steps \ {"trip"},
         NEW o \in OrderId, at \in Acking => o \in OrderIds,
         calls' = [calls EXCEPT ![c].at = at, ![c].order = o]
  PROVE  CallsOK'
  BY DEF TypeOK, CallsOK, CallStates, Answered, At

LEMMA DuplicateType ==
  ASSUME TypeOK, NEW c \in Calls, ~At(c, "start"), Duplicate(c)
  PROVE  CallsOK'
  <1>1. OrderOf(Row(c)) \in OrderId
    BY Started, OrderOfRow
  <1>2. "duplicate" \in Steps \ {"trip"} /\ "duplicate" \notin Acking
    BY DEF Steps, Returned, Acking
  <1>3. calls' = [calls EXCEPT ![c].at = "duplicate", ![c].order = OrderOf(Row(c))]
    BY DEF Duplicate
  <1> HIDE DEF Duplicate
  <1>4. QED
    BY <1>1, <1>2, <1>3, LearnType

LEMMA FaultType == TypeOK /\ Fault => faults' \in 0 .. MaxFaults
  BY SubmitAssumption DEF TypeOK, Fault

LEMMA EmitType ==
  ASSUME TypeOK, NEW c \in Calls, NEW from \in Steps \ {"start"}, NEW kind \in MarkerKinds,
         NEW to \in Steps \ {"trip"}, NEW back \in Returned,
         to \in Acking \/ back \in Acking => calls[c].at \in Acking,
         Emit(c, from, kind, to, back)
  PROVE  TypeOK'
  <1>1. ~At(c, "start") /\ calls[c].order \in OrderId
    BY DEF Emit, At, TypeOK, CallsOK, CallStates
  <1>2. calls[c].intent \in Intents
    BY <1>1, Started
  <1>3. CallsOK'
    <2>1. to \in Acking \/ back \in Acking => calls[c].order \in OrderIds
      BY DEF TypeOK, CallsOK, Answered
    <2>2. back \in Steps \ {"trip"}
      BY DEF Steps, Returned
    <2>3. QED
      BY <1>1, <2>1, <2>2, GoType, TripType DEF Emit
  <1>4. Record(calls[c].intent, kind, calls[c].order) \in
          [intent : Intents, kind : MarkerKinds \cup {OrphanOrder}, order : OrderId]
    BY <1>1, <1>2 DEF Record
  <1>5. faults' \in 0 .. MaxFaults /\ latched' \in BOOLEAN
    BY FaultType DEF TypeOK, Emit, Broken
  <1>6. QED
    BY <1>3, <1>4, <1>5 DEF TypeOK, Emit, Broker

LEMMA TypeStep == TypeOK /\ Next => TypeOK'
  <1> SUFFICES ASSUME TypeOK, Next PROVE TypeOK'
    OBVIOUS
  <1> USE DEF TypeOK
  <1>1. ASSUME NEW c \in Calls, SubmitIntent(c) PROVE TypeOK'
    <2> USE DEF Broker
    <2>1. CASE \E i \in Intents : Start(c, i)
      <3>1. PICK i \in Intents : Start(c, i)
        BY <2>1
      <3>2. "lookup" \in Steps /\ "lookup" \notin Acking /\ "lookup" # "trip"
        BY DEF Steps, Acking
      <3>3. calls' = [calls EXCEPT ![c].at = "lookup", ![c].intent = i] /\ calls[c].at = "start"
        BY <3>1 DEF Start, At
      <3>4. CallsOK'
        <4>1. calls' \in [Calls -> CallStates]
          BY <3>2, <3>3 DEF CallsOK, CallStates
        <4>2. \A d \in Calls : calls'[d].intent = NoIntent => At(d, "start")'
          BY <3>3, SubmitAssumption DEF CallsOK, CallStates, At
        <4>3. ASSUME NEW d \in Calls, Answered(d)' PROVE calls'[d].order \in OrderIds
          <5>1. CASE d = c
            <6>1. calls'[c].at = "lookup"
              BY <3>3 DEF CallsOK, CallStates
            <6>2. ~Answered(c)'
              BY <3>2, <6>1 DEF Answered, At
            <6>3. QED
              BY <4>3, <5>1, <6>2
          <5>2. CASE d # c
            <6>1. calls'[d] = calls[d]
              BY <3>3, <5>2 DEF CallsOK
            <6>2. QED
              BY <4>3, <6>1 DEF CallsOK, Answered, At
          <5>3. QED
            BY <5>1, <5>2
        <4>4. QED
          BY <4>1, <4>2, <4>3 DEF CallsOK
      <3>5. QED
        BY <3>1, <3>4 DEF Start
    <2>2. CASE Lookup(c)
      <3>1. ~At(c, "start")
        BY <2>2 DEF Lookup, At
      <3>2. CallsOK'
        BY <2>2, <3>1, DuplicateType, GoType DEF Lookup, Steps, Returned, Acking
      <3>3. QED
        BY <2>2, <3>2 DEF Lookup
    <2>3. CASE CanSubmit(c)
      <3>1. CallsOK'
        BY <2>3, GoType DEF CanSubmit, At, Steps, Returned, Acking
      <3>2. QED
        BY <2>3, <3>1 DEF CanSubmit
    <2>4. CASE AppendIntent(c)
      <3>1. CallsOK'
        BY <2>4, GoType DEF AppendIntent, At, Steps, Submitting, Preparing, Returned, Acking
      <3>2. journal' \in [Intents -> Rows]
        BY <2>4, FirstRow, WriteType DEF AppendIntent
      <3>3. QED
        BY <2>4, <3>1, <3>2, FaultType DEF AppendIntent
    <2>5. CASE Recheck(c)
      <3>1. CallsOK'
        BY <2>5, DuplicateType, GoType DEF Recheck, At, Steps, Returned, Acking
      <3>2. QED
        BY <2>5, <3>1 DEF Recheck
    <2>6. CASE EmitPrepared(c)
      <3>1. /\ "emitPrepared" \in Steps \ {"start"} /\ "reconfirm" \in Steps \ {"trip"}
            /\ "unresolved" \in Returned /\ "prepared" \in MarkerKinds
            /\ "reconfirm" \notin Acking /\ "unresolved" \notin Acking
        BY DEF Steps, Submitting, Preparing, Returned, MarkerKinds, Acking
      <3>2. QED
        BY <2>6, <3>1, EmitType DEF EmitPrepared
    <2>7. CASE Reconfirm(c)
      <3>1. CallsOK'
        BY <2>7, GoType DEF Reconfirm, At, Steps, Submitting, Preparing, Returned, Acking
      <3>2. QED
        BY <2>7, <3>1 DEF Reconfirm
    <2>8. CASE Mark(c)
      <3>1. CallsOK'
        BY <2>8, GoType, TripType DEF Mark, At, Steps, Submitting, Returned, Acking
      <3>2. journal' \in [Intents -> Rows]
        BY <2>8, Started, MarkedRow, WriteType DEF Mark, At, MarkerKinds, OrderId
      <3>3. QED
        BY <2>8, <3>1, <3>2, FaultType DEF Mark, Refused
    <2>9. CASE EmitAttempted(c)
      <3>1. /\ "emitAttempted" \in Steps \ {"start"} /\ "post" \in Steps \ {"trip"}
            /\ "unresolved" \in Returned /\ "submit-attempted" \in MarkerKinds
            /\ "post" \notin Acking /\ "unresolved" \notin Acking
        BY DEF Steps, Submitting, Returned, MarkerKinds, Acking
      <3>2. QED
        BY <2>9, <3>1, EmitType DEF EmitAttempted
    <2>10. CASE Post(c)
      <3>1. CallsOK' /\ accepted' \in [Calls -> OrderId]
        <4>1. CASE Go(c, "unresolved") /\ UNCHANGED accepted
          BY <2>10, <4>1, GoType DEF Post, At, Steps, Returned, Acking
        <4>2. CASE \E o \in OrderIds : SubmitOrder(c, o)
          <5>1. PICK o \in OrderIds : SubmitOrder(c, o)
            BY <4>2
          <5>2. accepted' \in [Calls -> OrderId]
            BY <5>1 DEF SubmitOrder, OrderId
          <5>3. CallsOK'
            BY <2>10, <5>1, GoType, LearnType
               DEF SubmitOrder, Post, At, Steps, Submitting, Returned, Acking, OrderId
          <5>4. QED
            BY <5>2, <5>3
        <4>3. QED
          BY <2>10, <4>1, <4>2 DEF Post
      <3>2. QED
        BY <2>10, <3>1 DEF Post
    <2>11. CASE Ack(c)
      <3>1. calls[c].order \in OrderIds /\ ~At(c, "start")
        BY <2>11 DEF Ack, At, CallsOK, Answered, Acking
      <3>2. CallsOK'
        BY <2>11, <3>1, GoType DEF Ack, Steps, Submitting, Returned
      <3>3. journal' \in [Intents -> Rows]
        <4>1. Row(c) \in Rows /\ "acked" \in MarkerKinds /\ calls[c].order \in OrderId
          BY <3>1, Started DEF MarkerKinds, OrderId
        <4>2. WithMarker(Row(c), "acked", calls[c].order) \in Rows
          BY <4>1, MarkedRow
        <4>3. QED
          BY <2>11, <4>2, WriteType DEF Ack
      <3>4. QED
        BY <2>11, <3>2, <3>3, FaultType DEF Ack, Refused
    <2>12. CASE Preserve(c)
      <3>1. calls[c].order \in OrderId /\ calls[c].intent \in Intents
        BY <2>12, Started DEF Preserve, At, CallsOK, CallStates
      <3>2. CallsOK'
        BY <2>12, TripType DEF Preserve, At, Returned, Acking
      <3>3. Record(calls[c].intent, OrphanOrder, calls[c].order) \in
              [intent : Intents, kind : MarkerKinds \cup {OrphanOrder}, order : OrderId]
        BY <3>1 DEF Record
      <3>4. QED
        BY <2>12, <3>2, <3>3, FaultType DEF Preserve
    <2>13. CASE EmitAcked(c)
      <3>1. /\ "emitAcked" \in Steps \ {"start"} /\ "acked" \in Steps \ {"trip"}
            /\ "acked" \in Returned /\ "acked" \in MarkerKinds /\ "emitAcked" \in Acking
        BY DEF Steps, Submitting, Returned, MarkerKinds, Acking
      <3>2. calls[c].at \in Acking
        BY <2>13, <3>1 DEF EmitAcked, Emit, At
      <3>3. QED
        BY <2>13, <3>1, <3>2, EmitType DEF EmitAcked
    <2>14. CASE Trip(c)
      <3>1. calls[c].then \in Returned
        BY DEF CallsOK, CallStates
      <3>2. calls[c].then \in Steps \ {"trip"} /\ ~At(c, "start")
        BY <2>14, <3>1 DEF Trip, At, Steps, Returned
      <3>3. calls[c].then \in Acking => calls[c].order \in OrderIds
        BY <2>14 DEF Trip, CallsOK, Answered
      <3>4. CallsOK'
        BY <2>14, <3>2, <3>3, GoType DEF Trip
      <3>5. QED
        BY <2>14, <3>4 DEF Trip
    <2>15. QED
      BY <1>1, <2>1, <2>2, <2>3, <2>4, <2>5, <2>6, <2>7, <2>8, <2>9, <2>10, <2>11, <2>12,
         <2>13, <2>14 DEF SubmitIntent
  <1> USE DEF Broker
  <1>2. ASSUME NEW i \in Intents, ClosePreparedOnly(i) PROVE TypeOK'
    <2>1. WithVerdict(journal[i], Aborted, 0) \in Rows
      BY ClosedRow, SubmitAssumption
    <2>2. QED
      BY <1>2, <2>1 DEF ClosePreparedOnly, CallsOK, Answered, At
  <1>3. ASSUME NEW i \in Intents, NEW v \in Verdicts, CloseAcked(i, v) PROVE TypeOK'
    <2>1. WithVerdict(journal[i], v, 0) \in Rows
      BY ClosedRow
    <2>2. QED
      BY <1>3, <2>1 DEF CloseAcked, CallsOK, Answered, At
  <1>4. CASE Scan
    BY <1>4 DEF Scan, CallsOK, Answered, At
  <1>5. CASE ClearHalt
    BY <1>5 DEF ClearHalt, CallsOK, Answered, At
  <1>6. CASE Crash
    <2>1. CallsOK'
      BY <1>6 DEF Crash, CallsOK, CallStates, Answered, At, Steps, Returned, Acking
    <2>2. QED
      BY <1>6, <2>1 DEF Crash
  <1>7. QED
    BY <1>1, <1>2, <1>3, <1>4, <1>5, <1>6 DEF Next

-----------------------------------------------------------------------------
(* What no step takes back *)

\* Row s has what r had.
Grows(r, s) ==
  /\ Present(r) => Present(s)
  /\ \A k : Has(r, k) => Has(s, k)
  /\ \A o : Names(r, o) => Names(s, o)

Kept ==
  /\ \A i \in Intents : Grows(journal[i], journal'[i])
  /\ records \subseteq records' /\ sent \subseteq sent'
  /\ \A c \in sent : accepted'[c] = accepted[c]
  /\ \A c \in Calls : ~At(c, "start") => calls'[c].intent = calls[c].intent

\* How a call moves on, and no other with it.
Moved(c, at, o, then) ==
  /\ \A d \in Calls \ {c} : calls'[d] = calls[d]
  /\ calls'[c].at = at /\ calls'[c].intent = calls[c].intent
  /\ calls'[c].order = o /\ calls'[c].then = then

LEMMA GoMoves ==
  ASSUME TypeOK, NEW c \in Calls, NEW at, Go(c, at)
  PROVE  Moved(c, at, calls[c].order, calls[c].then)
  BY DEF TypeOK, CallsOK, CallStates, Go, Moved

LEMMA TripMoves ==
  ASSUME TypeOK, NEW c \in Calls, NEW at, NEW then,
         calls' = [calls EXCEPT ![c].at = at, ![c].then = then]
  PROVE  Moved(c, at, calls[c].order, then)
  BY DEF TypeOK, CallsOK, CallStates, Moved

LEMMA LearnMoves ==
  ASSUME TypeOK, NEW c \in Calls, NEW at, NEW o,
         calls' = [calls EXCEPT ![c].at = at, ![c].order = o]
  PROVE  Moved(c, at, o, calls[c].then)
  BY DEF TypeOK, CallsOK, CallStates, Moved

LEMMA DuplicateMoves ==
  ASSUME TypeOK, NEW c \in Calls, Duplicate(c)
  PROVE  Moved(c, "duplicate", OrderOf(Row(c)), calls[c].then)
  BY LearnMoves DEF Duplicate

\* Every step of a call but the first.
LEMMA StepMoves ==
  ASSUME TypeOK, NEW c \in Calls, SubmitIntent(c), ~At(c, "start")
  PROVE  \E at, o, then : Moved(c, at, o, then)
  <1>1. (\E at : Go(c, at)) => \E at, o, then : Moved(c, at, o, then)
    BY GoMoves
  <1>2. (\E at, then : calls' = [calls EXCEPT ![c].at = at, ![c].then = then])
          => \E at, o, then : Moved(c, at, o, then)
    BY TripMoves
  <1>3. (\E at, o : calls' = [calls EXCEPT ![c].at = at, ![c].order = o])
          => \E at, o, then : Moved(c, at, o, then)
    BY LearnMoves
  <1>4. CASE \E o \in OrderIds : SubmitOrder(c, o)
    BY <1>1, <1>3, <1>4 DEF SubmitOrder
  <1>5. QED
    BY <1>1, <1>2, <1>3, <1>4
       DEF SubmitIntent, Start, Lookup, CanSubmit, AppendIntent, Recheck, Duplicate, EmitPrepared,
           Emit, Reconfirm, Mark, EmitAttempted, Post, Ack, Preserve, EmitAcked, Trip

\* Only its own row is written by a call.
LEMMA WriteGrows ==
  ASSUME TypeOK, NEW c \in Calls, ~At(c, "start"), NEW row \in Rows, Write(c, row),
         Grows(Row(c), row)
  PROVE  \A i \in Intents : Grows(journal[i], journal'[i])
  <1>1. \A i \in Intents : IF i = calls[c].intent THEN journal'[i] = row
                            ELSE journal'[i] = journal[i]
    BY DEF TypeOK, Write
  <1>2. QED
    BY <1>1 DEF Row, Grows

LEMMA MarkGrows ==
  ASSUME NEW r \in Rows, NEW k \in MarkerKinds, NEW o \in OrderId
  PROVE  Grows(r, WithMarker(r, k, o))
  BY MarkedRow DEF Grows

LEMMA FirstGrows ==
  ASSUME NEW r \in Rows, ~Present(r) PROVE Grows(r, NewRow)
  <1>1. DOMAIN r.markers = {}
    BY DEF Present
  <1>2. QED
    BY <1>1 DEF Grows, Present, Has, Names

LEMMA CallKept ==
  ASSUME Inv, NEW c \in Calls, SubmitIntent(c) PROVE Kept
  <1>1. TypeOK
    BY DEF Inv
  <1>2. \A i \in Intents : Grows(journal[i], journal'[i])
    <2>1. CASE UNCHANGED journal
      BY <2>1 DEF Grows
    <2>2. ASSUME NEW row, Write(c, row), Row(c) \in Rows => row \in Rows /\ Grows(Row(c), row),
                 ~At(c, "start")
          PROVE  \A i \in Intents : Grows(journal[i], journal'[i])
      BY <1>1, <2>2, Started, WriteGrows
    <2>3. CASE ~Present(Row(c)) /\ Write(c, NewRow) /\ ~At(c, "start")
      BY <2>2, <2>3, FirstRow, FirstGrows
    <2>4. CASE Write(c, WithMarker(Row(c), "submit-attempted", NoOrder)) /\ ~At(c, "start")
      BY <2>2, <2>4, MarkedRow, MarkGrows DEF MarkerKinds, OrderId
    <2>5. CASE Write(c, WithMarker(Row(c), "acked", calls[c].order)) /\ ~At(c, "start")
      <3>1. calls[c].order \in OrderId
        BY <1>1 DEF TypeOK, CallsOK, CallStates
      <3>2. QED
        BY <2>2, <2>5, <3>1, MarkedRow, MarkGrows DEF MarkerKinds
    <2>6. QED
      BY <2>1, <2>3, <2>4, <2>5
         DEF SubmitIntent, Start, Lookup, CanSubmit, AppendIntent, Recheck, EmitPrepared, Emit,
             Reconfirm, Mark, EmitAttempted, Post, Ack, Preserve, EmitAcked, Trip, At
  <1>3. records \subseteq records'
    BY DEF SubmitIntent, Start, Lookup, CanSubmit, AppendIntent, Recheck, EmitPrepared, Emit,
           Reconfirm, Mark, EmitAttempted, Post, Ack, Preserve, EmitAcked, Trip
  <1>4. sent \subseteq sent' /\ \A d \in sent : accepted'[d] = accepted[d]
    <2>1. CASE UNCHANGED Broker
      BY <2>1 DEF Broker
    <2>2. CASE Post(c)
      <3>1. c \notin sent
        BY <2>2 DEF Inv, AnswerOK, Post, At, Unanswered
      <3>2. \A d \in Calls \ {c} : accepted'[d] = accepted[d]
        BY <2>2, <1>1 DEF Post, SubmitOrder, TypeOK
      <3>3. sent \subseteq Calls
        BY <1>1 DEF TypeOK
      <3>4. QED
        BY <2>2, <3>1, <3>2, <3>3 DEF Post
    <2>3. QED
      BY <2>1, <2>2
         DEF SubmitIntent, Start, Lookup, CanSubmit, AppendIntent, Recheck, EmitPrepared, Emit,
             Reconfirm, Mark, EmitAttempted, Ack, Preserve, EmitAcked, Trip
  <1>5. \A d \in Calls : ~At(d, "start") => calls'[d].intent = calls[d].intent
    <2>1. CASE ~At(c, "start")
      BY <1>1, <2>1, StepMoves DEF Moved
    <2>2. CASE \E i \in Intents : Start(c, i)
      BY <1>1, <2>2 DEF Start, TypeOK, CallsOK, At
    <2>3. QED
      BY <2>1, <2>2
         DEF SubmitIntent, Start, Lookup, CanSubmit, AppendIntent, Recheck, EmitPrepared, Emit,
             Reconfirm, Mark, EmitAttempted, Post, Ack, Preserve, EmitAcked, Trip, At
  <1>6. QED
    BY <1>2, <1>3, <1>4, <1>5 DEF Kept

LEMMA AllKept == Inv /\ Next => Kept
  <1> SUFFICES ASSUME Inv, Next PROVE Kept
    OBVIOUS
  <1>1. TypeOK
    BY DEF Inv
  <1>2. ASSUME NEW i \in Intents, NEW v \in Verdicts,
               journal' = [journal EXCEPT ![i] = WithVerdict(@, v, 0)]
        PROVE  \A j \in Intents : Grows(journal[j], journal'[j])
    BY <1>1, <1>2, ClosedRow DEF TypeOK, Grows
  <1>3. CASE \E i \in Intents : ClosePreparedOnly(i) \/ \E v \in Verdicts : CloseAcked(i, v)
    <2>1. \A i \in Intents : Grows(journal[i], journal'[i])
      BY <1>2, <1>3, SubmitAssumption DEF ClosePreparedOnly, CloseAcked, Grows
    <2>2. QED
      BY <1>3, <2>1 DEF ClosePreparedOnly, CloseAcked, Kept, Broker
  <1>4. CASE Scan \/ ClearHalt
    BY <1>4 DEF Scan, ClearHalt, Kept, Grows, Broker
  <1>5. CASE Crash
    BY <1>1, <1>5 DEF Crash, Kept, Grows, Broker, TypeOK, CallsOK, CallStates
  <1>6. QED
    BY <1>3, <1>4, <1>5, CallKept DEF Next

\* The rest of the calls stay where they are.
LEMMA OthersKept ==
  ASSUME Inv, NEW c \in Calls, SubmitIntent(c), NEW d \in Calls \ {c}
  PROVE  calls'[d] = calls[d] /\ (d \in sent' <=> d \in sent) /\ accepted'[d] = accepted[d]
  <1>1. TypeOK
    BY DEF Inv
  <1>2. calls'[d] = calls[d]
    <2>1. CASE ~At(c, "start")
      BY <1>1, <2>1, StepMoves DEF Moved
    <2>2. CASE \E i \in Intents : Start(c, i)
      BY <1>1, <2>2 DEF Start, TypeOK, CallsOK
    <2>3. QED
      BY <2>1, <2>2
         DEF SubmitIntent, Start, Lookup, CanSubmit, AppendIntent, Recheck, EmitPrepared, Emit,
             Reconfirm, Mark, EmitAttempted, Post, Ack, Preserve, EmitAcked, Trip, At
  <1>3. (d \in sent' <=> d \in sent) /\ accepted'[d] = accepted[d]
    <2>1. CASE UNCHANGED Broker
      BY <2>1 DEF Broker
    <2>2. CASE Post(c)
      BY <2>2, <1>1 DEF Post, SubmitOrder, TypeOK
    <2>3. QED
      BY <2>1, <2>2
         DEF SubmitIntent, Start, Lookup, CanSubmit, AppendIntent, Recheck, EmitPrepared, Emit,
             Reconfirm, Mark, EmitAttempted, Ack, Preserve, EmitAcked, Trip
  <1>4. QED
    BY <1>2, <1>3

LEMMA GivenKept ==
  ASSUME Inv, Kept, NEW i, NEW o, Given(i, o) PROVE Given(i, o)'
  <1>1. PICK d \in sent : calls[d].intent = i /\ accepted[d] = o
    BY DEF Given
  <1>2. d \in Calls /\ ~At(d, "start")
    BY DEF Inv, TypeOK, AnswerOK, Unanswered, At
  <1>3. calls'[d].intent = i /\ accepted'[d] = o /\ d \in sent'
    BY <1>1, <1>2 DEF Kept
  <1>4. QED
    BY <1>3 DEF Given

-----------------------------------------------------------------------------
(* The acting call *)

LEMMA AnswerStep ==
  ASSUME Inv, NEW c \in Calls, SubmitIntent(c) PROVE AnswerOK(c)'
  <1>1. TypeOK /\ AnswerOK(c)
    BY DEF Inv
  <1> USE DEF AnswerOK, Unanswered, Preparing, Acking, Answered, At
  <1>2. ASSUME NEW at, NEW o, NEW then, Moved(c, at, o, then), UNCHANGED Broker,
               at \in Unanswered => calls[c].at \in Unanswered /\ o = calls[c].order,
               at \in Acking \/ (at = "trip" /\ then \in Acking) => Answered(c) /\ o = calls[c].order
        PROVE  AnswerOK(c)'
    BY <1>1, <1>2 DEF Moved, Broker
  <1>3. CASE \E i \in Intents : Start(c, i)
    BY <1>1, <1>3 DEF Start, At, TypeOK, CallsOK, CallStates, Broker
  <1>4. CASE Lookup(c) \/ Recheck(c)
    <2>1. Moved(c, "duplicate", OrderOf(Row(c)), calls[c].then)
          \/ \E at \in {"guard", "failed"} : Moved(c, at, calls[c].order, calls[c].then)
      BY <1>1, <1>4, GoMoves, LearnMoves DEF Lookup, Recheck, Duplicate
    <2>2. QED
      BY <1>2, <1>4, <2>1 DEF Lookup, Recheck, At
  <1>5. CASE CanSubmit(c) \/ Reconfirm(c)
    BY <1>1, <1>2, <1>5, GoMoves DEF CanSubmit, Reconfirm, At
  <1>6. CASE AppendIntent(c)
    BY <1>1, <1>2, <1>6, GoMoves DEF AppendIntent, At
  <1>7. CASE EmitPrepared(c)
    BY <1>1, <1>2, <1>7, GoMoves, TripMoves DEF EmitPrepared, Emit, At
  <1>8. CASE Mark(c)
    BY <1>1, <1>2, <1>8, GoMoves, TripMoves DEF Mark, At
  <1>9. CASE EmitAttempted(c)
    BY <1>1, <1>2, <1>9, GoMoves, TripMoves DEF EmitAttempted, Emit, At
  <1>10. CASE Post(c)
    <2>1. CASE \E o \in OrderIds : SubmitOrder(c, o)
      <3>1. PICK o \in OrderIds : SubmitOrder(c, o)
        BY <2>1
      <3>2. Moved(c, "ack", o, calls[c].then) \/ Moved(c, "unresolved", calls[c].order, calls[c].then)
        BY <1>1, <3>1, GoMoves, LearnMoves DEF SubmitOrder
      <3>3. accepted'[c] = o /\ c \in sent'
        BY <1>1, <1>10, <3>1 DEF SubmitOrder, Post, TypeOK
      <3>4. QED
        BY <3>2, <3>3 DEF Moved
    <2>2. CASE Go(c, "unresolved") /\ UNCHANGED accepted
      BY <1>1, <1>10, <2>2, GoMoves DEF Post, Moved
    <2>3. QED
      BY <1>10, <2>1, <2>2 DEF Post
  <1>11. CASE Ack(c)
    BY <1>1, <1>2, <1>11, GoMoves DEF Ack, At
  <1>12. CASE Preserve(c)
    <2>1. Moved(c, "trip", calls[c].order, "unresolved")
      BY <1>1, <1>12, TripMoves DEF Preserve
    <2>2. UNCHANGED Broker
      BY <1>12 DEF Preserve, Broker
    <2>3. "trip" \notin Unanswered \cup Acking /\ "unresolved" \notin Acking
      OBVIOUS
    <2>4. QED
      BY <1>2, <2>1, <2>2, <2>3
  <1>13. CASE EmitAcked(c)
    BY <1>1, <1>2, <1>13, GoMoves, TripMoves DEF EmitAcked, Emit, At
  <1>14. CASE Trip(c)
    <2>1. Moved(c, calls[c].then, calls[c].order, calls[c].then) /\ calls[c].at = "trip"
      BY <1>1, <1>14, GoMoves DEF Trip
    <2>2. UNCHANGED Broker
      BY <1>14 DEF Trip, Broker
    <2>3. calls[c].then \in Returned
      BY <1>1 DEF TypeOK, CallsOK, CallStates
    <2>4. calls[c].then \notin Unanswered /\ calls[c].then # "trip"
      BY <2>3 DEF Returned
    <2>5. QED
      BY <1>2, <2>1, <2>2, <2>4
  <1>15. QED
    BY <1>3, <1>4, <1>5, <1>6, <1>7, <1>8, <1>9, <1>10, <1>11, <1>12, <1>13, <1>14
       DEF SubmitIntent

\* A call enters the path by creating the row.
LEMMA HolderStep ==
  ASSUME Inv, NEW c \in Calls, SubmitIntent(c), Holder(c)'
  PROVE  Holder(c) \/ (~At(c, "start") /\ ~Present(Row(c)) /\ Present(Row(c))')
  <1>1. TypeOK
    BY DEF Inv
  <1>2. CASE At(c, "start") \/ At(c, "lookup") \/ At(c, "guard") \/ At(c, "recheck")
    <2>1. calls'[c].at \in {"lookup", "guard", "append", "duplicate", "blocked", "failed"}
      <3>1. CASE \E i \in Intents : Start(c, i)
        BY <1>1, <3>1 DEF Start, TypeOK, CallsOK, CallStates
      <3>2. CASE Lookup(c) \/ Recheck(c)
        BY <1>1, <3>2, GoMoves, LearnMoves DEF Lookup, Recheck, Duplicate, Moved
      <3>3. CASE CanSubmit(c)
        BY <1>1, <3>3, GoMoves DEF CanSubmit, Moved
      <3>4. QED
        BY <1>2, <3>1, <3>2, <3>3
           DEF SubmitIntent, AppendIntent, EmitPrepared, Emit, Reconfirm, Mark, EmitAttempted,
               Post, Ack, Preserve, EmitAcked, Trip, At
    <2>2. sent' = sent
      BY <1>2 DEF SubmitIntent, Start, Lookup, CanSubmit, AppendIntent, Recheck, EmitPrepared,
                  Emit, Reconfirm, Mark, EmitAttempted, Post, Ack, Preserve, EmitAcked, Trip, At,
                  Broker
    <2>3. QED
      BY <2>1, <2>2 DEF Holder, Submitting, Preparing
  <1>3. CASE AppendIntent(c)
    <2>1. CASE ~Present(Row(c)) /\ Write(c, NewRow) /\ Go(c, "emitPrepared")
      <3>1. calls'[c].intent = calls[c].intent
        BY <1>1, <2>1, GoMoves DEF Moved
      <3>2. calls[c].intent \in Intents
        BY <1>1, <1>3, Started DEF AppendIntent, At
      <3>3. Row(c)' = NewRow
        BY <1>1, <2>1, <3>1, <3>2 DEF Write, Row, TypeOK
      <3>4. QED
        BY <1>3, <2>1, <3>3, FirstRow DEF AppendIntent, At
    <2>2. CASE Go(c, "recheck")
      BY <1>1, <1>3, <2>2, GoMoves DEF AppendIntent, Moved, Holder, Submitting, Preparing, Broker
    <2>3. QED
      BY <1>3, <2>1, <2>2 DEF AppendIntent
  <1>4. CASE calls[c].at \in Submitting
    BY <1>4 DEF Holder
  <1>5. QED
    BY <1>2, <1>3, <1>4
       DEF SubmitIntent, Start, Lookup, CanSubmit, Recheck, EmitPrepared, Emit, Reconfirm, Mark,
           EmitAttempted, Post, Ack, Preserve, EmitAcked, Trip, At, Submitting, Preparing

\* The row of a call that has started keeps what it had.
LEMMA OwnRow ==
  ASSUME Inv, Kept, NEW c \in Calls, ~At(c, "start")
  PROVE  Grows(Row(c), Row(c)')
  <1>1. calls'[c].intent = calls[c].intent /\ calls[c].intent \in Intents
    BY Started DEF Inv, Kept
  <1>2. QED
    BY <1>1 DEF Kept, Row

LEMMA HolderStarted ==
  ASSUME Inv, NEW c \in Calls, Holder(c)
  PROVE  ~At(c, "start") /\ Present(Row(c))
  BY DEF Inv, Holder, PresentOK, AnswerOK, Unanswered, Submitting, Preparing, At

LEMMA PresentStep ==
  ASSUME Inv, Kept, NEW c \in Calls, Holder(c)' => Holder(c) \/ Present(Row(c))'
  PROVE  PresentOK(c)'
  BY OwnRow, HolderStarted DEF PresentOK, Grows

\* At most the acting call is new on a path, and then nobody else was on it.
LEMMA ExclusiveStep ==
  ASSUME Inv, Kept, NEW c \in Calls,
         \A d \in Calls \ {c} : Holder(d)' => Holder(d),
         Holder(c)' => Holder(c) \/ (~Present(Row(c)) /\ ~At(c, "start"))
  PROVE  Exclusive'
  <1>1. \A d \in Calls : Holder(d)' => calls'[d].intent = calls[d].intent
    BY HolderStarted DEF Kept
  <1>2. \A d \in Calls \ {c} : Holder(c)' /\ Holder(d)' => calls[d].intent # calls[c].intent
    BY HolderStarted DEF Inv, Exclusive, Row
  <1>3. QED
    BY <1>1, <1>2 DEF Exclusive, Inv

\* Evidence is never withdrawn, so only a call's own progress asks for more.
LEMMA EvidenceKept ==
  ASSUME Inv, Kept, NEW c \in Calls, ~At(c, "start"),
         calls'[c].at \in {"reconfirm", "mark", "emitAttempted", "post"} \/ c \in sent' =>
           Record(calls[c].intent, "prepared", NoOrder) \in records',
         calls'[c].at = "post" \/ c \in sent' =>
           Record(calls[c].intent, "submit-attempted", NoOrder) \in records',
         calls'[c].at \in {"emitAttempted", "post"} \/ c \in sent' =>
           Has(Row(c), "submit-attempted") \/ Has(Row(c)', "submit-attempted")
  PROVE  EvidenceOK(c)'
  BY OwnRow DEF EvidenceOK, Kept, Grows

LEMMA EvidenceStep ==
  ASSUME Inv, Kept, NEW c \in Calls, SubmitIntent(c) PROVE EvidenceOK(c)'
  <1>1. TypeOK /\ EvidenceOK(c) /\ AnswerOK(c) /\ records \subseteq records'
    BY DEF Inv, Kept
  <1>2. ASSUME NEW at, NEW o, NEW then, Moved(c, at, o, then), UNCHANGED Broker, ~At(c, "start"),
               at \notin {"reconfirm", "mark", "emitAttempted", "post"}
        PROVE  EvidenceOK(c)'
    BY <1>1, <1>2, EvidenceKept DEF Moved, Broker, EvidenceOK
  <1>3. CASE \E i \in Intents : Start(c, i)
    BY <1>1, <1>3 DEF Start, At, TypeOK, CallsOK, CallStates, Broker, EvidenceOK, AnswerOK, Unanswered
  <1>4. CASE Lookup(c) \/ Recheck(c)
    <2>1. Moved(c, "duplicate", OrderOf(Row(c)), calls[c].then)
          \/ \E at \in {"guard", "failed"} : Moved(c, at, calls[c].order, calls[c].then)
      BY <1>1, <1>4, GoMoves, LearnMoves DEF Lookup, Recheck, Duplicate
    <2>2. QED
      BY <1>2, <1>4, <2>1 DEF Lookup, Recheck, At
  <1>5. CASE CanSubmit(c)
    BY <1>1, <1>2, <1>5, GoMoves DEF CanSubmit, At
  <1>6. CASE AppendIntent(c)
    BY <1>1, <1>2, <1>6, GoMoves DEF AppendIntent, At
  <1>7. CASE EmitPrepared(c)
    <2>1. CASE Moved(c, "reconfirm", calls[c].order, calls[c].then)
               /\ records' = records \cup {Record(calls[c].intent, "prepared", calls[c].order)}
      <3>1. calls[c].order = NoOrder /\ c \notin sent' /\ ~At(c, "start")
        BY <1>1, <1>7 DEF AnswerOK, Unanswered, Preparing, EmitPrepared, Emit, At, Broker
      <3>2. QED
        BY <2>1, <3>1, EvidenceKept DEF Moved
    <2>2. QED
      BY <1>1, <1>2, <1>7, <2>1, GoMoves, TripMoves DEF EmitPrepared, Emit, At
  <1>8. CASE Reconfirm(c)
    <2>1. CASE Moved(c, "mark", calls[c].order, calls[c].then)
      BY <1>1, <1>8, <2>1, EvidenceKept DEF Reconfirm, At, Moved, Broker, EvidenceOK
    <2>2. QED
      BY <1>1, <1>2, <1>8, <2>1, GoMoves DEF Reconfirm, At
  <1>9. CASE Mark(c)
    <2>1. CASE Moved(c, "emitAttempted", calls[c].order, calls[c].then)
               /\ Write(c, WithMarker(Row(c), "submit-attempted", NoOrder))
      <3>1. calls[c].intent \in Intents /\ Row(c) \in Rows
        BY <1>1, <1>9, Started DEF Mark, At
      <3>2. Row(c)' = WithMarker(Row(c), "submit-attempted", NoOrder)
        BY <1>1, <2>1, <3>1 DEF Moved, Write, Row, TypeOK
      <3>3. Has(Row(c)', "submit-attempted")
        BY <3>1, <3>2, MarkedRow DEF MarkerKinds, OrderId
      <3>4. QED
        BY <1>1, <1>9, <2>1, <3>3, EvidenceKept
           DEF Mark, At, Moved, Broker, EvidenceOK, AnswerOK, Unanswered, Preparing
    <2>2. QED
      BY <1>1, <1>2, <1>9, <2>1, GoMoves, TripMoves DEF Mark, At
  <1>10. CASE EmitAttempted(c)
    <2>1. CASE Moved(c, "post", calls[c].order, calls[c].then)
               /\ records' = records \cup {Record(calls[c].intent, "submit-attempted", calls[c].order)}
      <3>1. calls[c].order = NoOrder /\ ~At(c, "start")
        BY <1>1, <1>10 DEF AnswerOK, Unanswered, EmitAttempted, Emit, At
      <3>2. QED
        BY <1>1, <1>10, <2>1, <3>1, EvidenceKept DEF Moved, EvidenceOK, EmitAttempted, Emit, At, Broker
    <2>2. QED
      BY <1>1, <1>2, <1>10, <2>1, GoMoves, TripMoves DEF EmitAttempted, Emit, At
  <1>11. CASE Post(c)
    BY <1>1, <1>11, EvidenceKept DEF Post, At, EvidenceOK
  <1>12. CASE Ack(c)
    BY <1>1, <1>2, <1>12, GoMoves DEF Ack, At
  <1>13. CASE Preserve(c)
    <2>1. Moved(c, "trip", calls[c].order, "unresolved")
      BY <1>1, <1>13, TripMoves DEF Preserve
    <2>2. QED
      BY <1>2, <1>13, <2>1 DEF Preserve, At, Broker
  <1>14. CASE EmitAcked(c)
    BY <1>1, <1>2, <1>14, GoMoves, TripMoves DEF EmitAcked, Emit, At
  <1>15. CASE Trip(c)
    <2>1. calls[c].then \in Returned
      BY <1>1 DEF TypeOK, CallsOK, CallStates
    <2>2. QED
      BY <1>1, <1>2, <1>15, <2>1, GoMoves DEF Trip, At, Returned
  <1>16. QED
    BY <1>3, <1>4, <1>5, <1>6, <1>7, <1>8, <1>9, <1>10, <1>11, <1>12, <1>13, <1>14, <1>15
       DEF SubmitIntent

\* What the acting call knows of an order it had before, reads, or is given.
LEMMA OrderStep ==
  ASSUME Inv, NEW c \in Calls, SubmitIntent(c)
  PROVE  \/ calls'[c].order = calls[c].order
         \/ /\ calls'[c].order # NoOrder => Names(Row(c), calls'[c].order)
            /\ ~At(c, "start") /\ calls'[c].at = "duplicate"
         \/ /\ calls'[c].at = "ack" /\ ~At(c, "start")
            /\ c \in sent' /\ accepted'[c] = calls'[c].order
  <1>1. TypeOK
    BY DEF Inv
  <1>2. (\E at : Go(c, at)) => calls'[c].order = calls[c].order
    BY <1>1, GoMoves DEF Moved
  <1>3. (\E at, then : calls' = [calls EXCEPT ![c].at = at, ![c].then = then])
          => calls'[c].order = calls[c].order
    BY <1>1, TripMoves DEF Moved
  <1>4. CASE \E i \in Intents : Start(c, i)
    BY <1>1, <1>4 DEF Start, TypeOK, CallsOK, CallStates
  <1>5. CASE Duplicate(c) /\ (Lookup(c) \/ Recheck(c))
    <2>1. Moved(c, "duplicate", OrderOf(Row(c)), calls[c].then) /\ ~At(c, "start")
      BY <1>1, <1>5, LearnMoves DEF Duplicate, Lookup, Recheck, At
    <2>2. QED
      BY <1>1, <2>1, Started, OrderOfRow DEF Moved
  <1>6. CASE Post(c) /\ \E o \in OrderIds : SubmitOrder(c, o)
    <2>1. PICK o \in OrderIds : SubmitOrder(c, o)
      BY <1>6
    <2>2. CASE calls' = [calls EXCEPT ![c].at = "ack", ![c].order = o]
      <3>1. Moved(c, "ack", o, calls[c].then)
        BY <1>1, <2>2, LearnMoves
      <3>2. QED
        BY <1>1, <1>6, <2>1, <3>1 DEF Moved, Post, SubmitOrder, TypeOK, At
    <2>3. QED
      BY <1>2, <2>1, <2>2 DEF SubmitOrder
  <1>7. QED
    BY <1>2, <1>3, <1>4, <1>5, <1>6
       DEF SubmitIntent, Lookup, CanSubmit, AppendIntent, Recheck, EmitPrepared,
           Emit, Reconfirm, Mark, EmitAttempted, Post, Ack, Preserve, EmitAcked, Trip

LEMMA StartKept ==
  ASSUME Inv, NEW c \in Calls, At(c, "start"), SubmitIntent(c)
  PROVE  calls'[c].order = NoOrder
  <1>1. TypeOK /\ calls[c].order = NoOrder
    BY DEF Inv, AnswerOK, Unanswered, At
  <1>2. QED
    BY <1>1 DEF SubmitIntent, Start, Lookup, CanSubmit, AppendIntent, Recheck, EmitPrepared, Emit,
           Reconfirm, Mark, EmitAttempted, Post, Ack, Preserve, EmitAcked, Trip, At,
           TypeOK, CallsOK, CallStates

LEMMA GivenStep ==
  ASSUME Inv, Kept, NEW c \in Calls, SubmitIntent(c) PROVE GivenOK(c)'
  <1>1. CASE At(c, "start")
    BY <1>1, StartKept DEF GivenOK
  <1>2. CASE ~At(c, "start")
    <2>1. calls'[c].intent = calls[c].intent /\ calls[c].intent \in Intents /\ Row(c) \in Rows
      BY <1>2, Started DEF Inv, Kept
    <2>2. CASE calls'[c].order = calls[c].order
      BY <2>1, <2>2, GivenKept DEF Inv, GivenOK
    <2>3. CASE Names(Row(c), calls'[c].order) /\ calls'[c].order # NoOrder
      <3>1. calls'[c].order \in OrderIds
        <4>1. \A n \in DOMAIN Row(c).markers : Row(c).markers[n] \in MarkerShapes
          BY <2>1, MarkersTyped
        <4>2. QED
          BY <2>3, <4>1 DEF Names, MarkerShapes
      <3>2. Given(calls[c].intent, calls'[c].order)
        BY <2>1, <2>3, <3>1 DEF Inv, NamesGiven, Row
      <3>3. QED
        BY <2>1, <3>2, GivenKept DEF GivenOK
    <2>4. CASE c \in sent' /\ accepted'[c] = calls'[c].order
      BY <2>4 DEF GivenOK, Given
    <2>5. QED
      BY <2>2, <2>3, <2>4, OrderStep DEF GivenOK
  <1>3. QED
    BY <1>1, <1>2

\* A name that is new in the journal is the acked call's own.
LEMMA NamesStep ==
  ASSUME Inv, Kept, NEW c \in Calls, SubmitIntent(c) PROVE NamesGiven'
  <1>1. TypeOK
    BY DEF Inv
  <1>2. ASSUME \A i \in Intents : \A o \in OrderIds :
                 Names(journal'[i], o) => Names(journal[i], o) \/ Given(i, o)
        PROVE  NamesGiven'
    BY <1>2, GivenKept DEF NamesGiven, Inv
  <1>3. CASE UNCHANGED journal
    BY <1>2, <1>3
  <1>4. ASSUME NEW row, Write(c, row), ~At(c, "start"),
               \A o \in OrderIds :
                 Names(row, o) => Names(Row(c), o) \/ Given(calls[c].intent, o)
        PROVE  NamesGiven'
    <2>1. \A i \in Intents : IF i = calls[c].intent THEN journal'[i] = row
                              ELSE journal'[i] = journal[i]
      BY <1>1, <1>4 DEF TypeOK, Write
    <2>2. QED
      BY <1>2, <1>4, <2>1 DEF Row
  <1>5. CASE AppendIntent(c)
    BY <1>3, <1>4, <1>5, FirstRow, RowAssumption DEF AppendIntent, At
  <1>6. CASE Mark(c)
    <2>1. Row(c) \in Rows /\ ~At(c, "start")
      BY <1>1, <1>6, Started DEF Mark, At
    <2>2. \A o \in OrderIds :
            Names(WithMarker(Row(c), "submit-attempted", NoOrder), o) => Names(Row(c), o)
      BY <2>1, MarkedRow, RowAssumption DEF MarkerKinds, OrderId
    <2>3. QED
      BY <1>3, <1>4, <1>6, <2>1, <2>2 DEF Mark
  <1>7. CASE Ack(c)
    <2>1. Row(c) \in Rows /\ ~At(c, "start") /\ calls[c].order \in OrderId
      BY <1>1, <1>7, Started DEF Ack, At, TypeOK, CallsOK, CallStates
    <2>2. Given(calls[c].intent, calls[c].order)
      BY <1>7 DEF Inv, AnswerOK, Answered, Acking, Ack, At, Given
    <2>3. \A o \in OrderIds :
            Names(WithMarker(Row(c), "acked", calls[c].order), o)
              => Names(Row(c), o) \/ Given(calls[c].intent, o)
      BY <2>1, <2>2, MarkedRow DEF MarkerKinds
    <2>4. QED
      BY <1>3, <1>4, <1>7, <2>1, <2>3 DEF Ack
  <1>8. QED
    BY <1>3, <1>5, <1>6, <1>7
       DEF SubmitIntent, Start, Lookup, CanSubmit, Recheck, EmitPrepared, Emit,
           Reconfirm, EmitAttempted, Post, Preserve, EmitAcked, Trip

LEMMA ToldStep ==
  ASSUME Inv, Kept, NEW c \in Calls, SubmitIntent(c) PROVE ToldOK(c)'
  <1>1. TypeOK /\ ToldOK(c)
    BY DEF Inv
  <1>2. ASSUME NEW at, NEW then, Moved(c, at, calls[c].order, then), ~At(c, "start"),
               at \in {"emitAcked", "acked", "duplicate"}
                 \/ (at = "trip" /\ then \in {"acked", "duplicate"}) => Told(c)
        PROVE  ToldOK(c)'
    BY <1>1, <1>2, OwnRow DEF Moved, ToldOK, Told, Grows
  <1>3. CASE \E i \in Intents : Start(c, i)
    BY <1>3, StartKept DEF ToldOK, Start
  <1>4. CASE Lookup(c) \/ Recheck(c)
    <2>1. ~At(c, "start")
      BY <1>4 DEF Lookup, Recheck, At
    <2>2. CASE Duplicate(c)
      <3>1. Moved(c, "duplicate", OrderOf(Row(c)), calls[c].then)
        BY <1>1, <2>2, LearnMoves DEF Duplicate
      <3>2. QED
        BY <1>1, <2>1, <3>1, Started, OrderOfRow, OwnRow DEF Moved, ToldOK, Grows
    <2>3. QED
      BY <1>1, <1>2, <1>4, <2>1, <2>2, GoMoves DEF Lookup, Recheck
  <1>5. CASE CanSubmit(c) \/ Reconfirm(c)
    BY <1>1, <1>2, <1>5, GoMoves DEF CanSubmit, Reconfirm, At
  <1>6. CASE AppendIntent(c)
    BY <1>1, <1>2, <1>6, GoMoves DEF AppendIntent, At
  <1>7. CASE EmitPrepared(c)
    BY <1>1, <1>2, <1>7, GoMoves, TripMoves DEF EmitPrepared, Emit, At
  <1>8. CASE Mark(c)
    BY <1>1, <1>2, <1>8, GoMoves, TripMoves DEF Mark, At
  <1>9. CASE EmitAttempted(c)
    BY <1>1, <1>2, <1>9, GoMoves, TripMoves DEF EmitAttempted, Emit, At
  <1>10. CASE Post(c)
    <2>1. CASE \E o \in OrderIds : SubmitOrder(c, o)
      <3>1. PICK o \in OrderIds : SubmitOrder(c, o)
        BY <2>1
      <3>2. Moved(c, "ack", o, calls[c].then) \/ Moved(c, "unresolved", calls[c].order, calls[c].then)
        BY <1>1, <3>1, GoMoves, LearnMoves DEF SubmitOrder
      <3>3. QED
        BY <3>2 DEF Moved, ToldOK, Told
    <2>2. CASE Go(c, "unresolved")
      BY <1>1, <1>2, <1>10, <2>2, GoMoves DEF Post, At
    <2>3. QED
      BY <1>10, <2>1, <2>2 DEF Post
  <1>11. CASE Ack(c)
    <2>1. CASE Go(c, "preserve")
      BY <1>1, <1>2, <1>11, <2>1, GoMoves DEF Ack, At
    <2>2. CASE Go(c, "emitAcked") /\ Write(c, WithMarker(Row(c), "acked", calls[c].order))
      <3>1. calls[c].intent \in Intents /\ Row(c) \in Rows /\ calls[c].order \in OrderId
        BY <1>1, <1>11, Started DEF Ack, At, TypeOK, CallsOK, CallStates
      <3>2. calls'[c].intent = calls[c].intent /\ calls'[c].order = calls[c].order
        BY <1>1, <2>2, GoMoves DEF Moved
      <3>3. Row(c)' = WithMarker(Row(c), "acked", calls[c].order)
        BY <1>1, <2>2, <3>1, <3>2 DEF Write, Row, TypeOK
      <3>4. QED
        BY <3>1, <3>2, <3>3, MarkedRow DEF ToldOK, MarkerKinds
    <2>3. QED
      BY <1>11, <2>1, <2>2 DEF Ack
  <1>12. CASE Preserve(c)
    <2>1. Moved(c, "trip", calls[c].order, "unresolved")
      BY <1>1, <1>12, TripMoves DEF Preserve
    <2>2. QED
      BY <1>2, <1>12, <2>1 DEF Preserve, At
  <1>13. CASE EmitAcked(c)
    BY <1>1, <1>2, <1>13, GoMoves, TripMoves DEF EmitAcked, Emit, At, Told
  <1>14. CASE Trip(c)
    <2>1. calls[c].then \in Returned
      BY <1>1 DEF TypeOK, CallsOK, CallStates
    <2>2. QED
      BY <1>1, <1>2, <1>14, <2>1, GoMoves DEF Trip, At, Told, Returned
  <1>15. QED
    BY <1>3, <1>4, <1>5, <1>6, <1>7, <1>8, <1>9, <1>10, <1>11, <1>12, <1>13, <1>14
       DEF SubmitIntent

\* What a step of another call leaves of a call.
LEMMA OtherStep ==
  ASSUME Inv, Kept, NEW d \in Calls, calls'[d] = calls[d], d \in sent' <=> d \in sent,
         accepted'[d] = accepted[d]
  PROVE  /\ AnswerOK(d)' /\ EvidenceOK(d)' /\ GivenOK(d)' /\ ToldOK(d)' /\ PresentOK(d)'
         /\ Holder(d)' => Holder(d)
  <1>1. AnswerOK(d) /\ EvidenceOK(d) /\ GivenOK(d) /\ ToldOK(d) /\ PresentOK(d)
    BY DEF Inv
  <1>2. CASE At(d, "start")
    <2>1. d \notin sent /\ calls[d].order = NoOrder
      BY <1>1, <1>2 DEF AnswerOK, Unanswered, At
    <2>2. QED
      BY <1>1, <1>2, <2>1 DEF AnswerOK, EvidenceOK, GivenOK, ToldOK, PresentOK, Holder, Answered, At,
                              Submitting, Preparing
  <1>3. CASE ~At(d, "start")
    <2>1. Grows(Row(d), Row(d)') /\ records \subseteq records'
      BY <1>3, OwnRow DEF Kept
    <2>2. AnswerOK(d)' /\ (Holder(d)' => Holder(d))
      BY <1>1 DEF AnswerOK, Answered, At, Holder
    <2>3. EvidenceOK(d)' /\ ToldOK(d)'
      BY <1>1, <2>1 DEF EvidenceOK, ToldOK, Told, Grows
    <2>4. PresentOK(d)'
      BY <2>2, PresentStep
    <2>5. GivenOK(d)'
      BY <1>1, GivenKept DEF GivenOK
    <2>6. QED
      BY <2>2, <2>3, <2>4, <2>5
  <1>4. QED
    BY <1>2, <1>3

\* A step that leaves the calls and the broker alone and adds no name.
LEMMA OutsideStep ==
  ASSUME Inv, Kept, TypeOK', UNCHANGED <<calls, Broker>>,
         \A i \in Intents : \A o : Names(journal'[i], o) => Names(journal[i], o)
  PROVE  Inv'
  <1>1. \A d \in Calls : /\ AnswerOK(d)' /\ EvidenceOK(d)' /\ GivenOK(d)' /\ ToldOK(d)'
                         /\ PresentOK(d)' /\ (Holder(d)' => Holder(d))
    BY OtherStep DEF Broker
  <1>2. NamesGiven'
    BY GivenKept DEF NamesGiven, Inv
  <1>3. Exclusive'
    BY <1>1 DEF Exclusive, Inv
  <1>4. QED
    BY <1>1, <1>2, <1>3 DEF Inv

LEMMA InvStep == Inv /\ [Next]_vars => Inv'
  <1> SUFFICES ASSUME Inv, [Next]_vars PROVE Inv'
    OBVIOUS
  <1>1. CASE UNCHANGED vars
    <2>1. Kept /\ TypeOK'
      BY <1>1 DEF vars, Kept, Grows, Inv, TypeOK, CallsOK, Answered, At
    <2>2. QED
      BY <1>1, <2>1, OutsideStep DEF vars, Broker
  <1>2. CASE Next
    <2>1. Kept /\ TypeOK'
      BY <1>2, AllKept, TypeStep DEF Inv
    <2>2. ASSUME NEW c \in Calls, SubmitIntent(c) PROVE Inv'
      <3>1. \A d \in Calls \ {c} :
              /\ AnswerOK(d)' /\ EvidenceOK(d)' /\ GivenOK(d)' /\ ToldOK(d)' /\ PresentOK(d)'
              /\ Holder(d)' => Holder(d)
        BY <2>1, <2>2, OthersKept, OtherStep
      <3>2. AnswerOK(c)' /\ EvidenceOK(c)' /\ GivenOK(c)' /\ ToldOK(c)'
        BY <2>1, <2>2, AnswerStep, EvidenceStep, GivenStep, ToldStep
      <3>3. Holder(c)' => Holder(c) \/ (~At(c, "start") /\ ~Present(Row(c)) /\ Present(Row(c))')
        BY <2>2, HolderStep
      <3>4. PresentOK(c)' /\ Exclusive' /\ NamesGiven'
        BY <2>1, <2>2, <3>1, <3>3, PresentStep, ExclusiveStep, NamesStep
      <3>5. QED
        BY <2>1, <3>1, <3>2, <3>4 DEF Inv
    <2>3. ASSUME NEW i \in Intents, NEW v \in Verdicts,
                 journal' = [journal EXCEPT ![i] = WithVerdict(@, v, 0)]
          PROVE  \A j \in Intents : \A o : Names(journal'[j], o) => Names(journal[j], o)
      BY <2>3, ClosedRow DEF Inv, TypeOK
    <2>4. CASE \E i \in Intents : ClosePreparedOnly(i) \/ \E v \in Verdicts : CloseAcked(i, v)
      <3>1. \A j \in Intents : \A o : Names(journal'[j], o) => Names(journal[j], o)
        BY <2>3, <2>4, SubmitAssumption DEF ClosePreparedOnly, CloseAcked
      <3>2. QED
        BY <2>1, <2>4, <3>1, OutsideStep DEF ClosePreparedOnly, CloseAcked
    <2>5. CASE Scan \/ ClearHalt
      BY <2>1, <2>5, OutsideStep DEF Scan, ClearHalt
    <2>6. CASE Crash
      <3>1. TypeOK /\ UNCHANGED <<journal, records, sent, accepted>>
        BY <2>6 DEF Inv, Crash, Broker
      <3>2. ASSUME NEW d \in Calls, calls'[d] # calls[d]
            PROVE  /\ AnswerOK(d)' /\ EvidenceOK(d)' /\ GivenOK(d)' /\ ToldOK(d)'
                   /\ Holder(d)' => Holder(d)
        <4>1. /\ calls'[d].at = "dead" /\ calls'[d].intent = calls[d].intent
              /\ calls'[d].order = calls[d].order
          BY <2>6, <3>1, <3>2 DEF Crash, TypeOK, CallsOK, CallStates
        <4>2. Row(d)' = Row(d)
          BY <3>1, <4>1 DEF Row
        <4>3. AnswerOK(d)' /\ (Holder(d)' => Holder(d)) /\ ToldOK(d)'
          BY <3>1, <4>1 DEF Inv, AnswerOK, Unanswered, Preparing, Answered, Acking, At, Holder,
                            Submitting, ToldOK, Told
        <4>4. EvidenceOK(d)'
          BY <3>1, <4>1, <4>2 DEF Inv, EvidenceOK
        <4>5. GivenOK(d)'
          BY <2>1, <3>1, <4>1, GivenKept DEF Inv, GivenOK
        <4>6. QED
          BY <4>3, <4>4, <4>5
      <3>3. \A d \in Calls : /\ AnswerOK(d)' /\ EvidenceOK(d)' /\ GivenOK(d)' /\ ToldOK(d)'
                             /\ (Holder(d)' => Holder(d))
        BY <2>1, <3>1, <3>2, OtherStep
      <3>4. \A d \in Calls : PresentOK(d)'
        BY <2>1, <3>3, PresentStep
      <3>5. Exclusive'
        <4>1. \A d \in Calls : Holder(d)' => calls'[d].intent = calls[d].intent
          BY <2>1, <3>3, HolderStarted DEF Kept
        <4>2. QED
          BY <3>3, <4>1 DEF Exclusive, Inv
      <3>6. NamesGiven'
        BY <2>1, <3>1, GivenKept DEF NamesGiven, Inv
      <3>7. QED
        BY <2>1, <3>3, <3>4, <3>5, <3>6 DEF Inv
    <2>7. QED
      BY <1>2, <2>2, <2>4, <2>5, <2>6 DEF Next
  <1>3. QED
    BY <1>1, <1>2

-----------------------------------------------------------------------------
(* Theorems *)

\* The strengthening behind the properties below: each call has the evidence, the
\* intent and the order that SubmitIntent relies on at its step (submit.go:212-444).
THEOREM Invariance == Spec => []Inv
  <1>1. Init => Inv
    BY Initial
  <1>2. Inv /\ [Next]_vars => Inv'
    BY InvStep
  <1>3. QED
    BY <1>1, <1>2, PTL DEF Spec

\* Every invocation holds an intent, an answered one the order id of its answer, and the
\* journal holds rows the store could have written (submit.go:212-444, store/tx.go).
THEOREM TypeCorrect == Spec => []TypeOK
  <1>1. Inv => TypeOK
    BY DEF Inv
  <1>2. QED
    BY <1>1, Invariance, PTL

\* No two calls make a POST for one intent, for any number of concurrent callers,
\* replays, crashes and resolutions (submit.go:212, schema.go's primary key).
THEOREM PostOnce == Spec => []OnePost
  <1>1. Inv => OnePost
    BY DEF Inv, TypeOK, Exclusive, Holder, OnePost
  <1>2. QED
    BY <1>1, Invariance, PTL

\* The marker and both audit records are durable before a POST leaves and stay so
\* (submit.go:235-237).
THEOREM EvidenceFirst == Spec => []EvidenceBeforePost
  <1>1. Inv => EvidenceBeforePost
    <2> SUFFICES ASSUME Inv, NEW c \in sent
                 PROVE  /\ Has(Row(c), "submit-attempted")
                        /\ Record(calls[c].intent, "prepared", NoOrder) \in records
                        /\ Record(calls[c].intent, "submit-attempted", NoOrder) \in records
      BY DEF EvidenceBeforePost, Row
    <2>1. c \in Calls
      BY DEF Inv, TypeOK
    <2>2. QED
      BY <2>1 DEF Inv, EvidenceOK
  <1>2. QED
    BY <1>1, Invariance, PTL

\* An order id a caller is told is one the broker gave that intent, and behind acked and
\* duplicate the journal names the same one (submit.go:105-141).
THEOREM OutcomesTruthful == Spec => []OutcomeTruthful
  <1>1. Inv => OutcomeTruthful
    <2> SUFFICES ASSUME Inv, NEW c \in Calls, calls[c].at \in Returned,
                        calls[c].order # NoOrder
                 PROVE  /\ Given(calls[c].intent, calls[c].order)
                        /\ calls[c].at \in {"acked", "duplicate"} => OrderOf(Row(c)) = calls[c].order
      BY DEF OutcomeTruthful, Given, Row
    <2>1. Given(calls[c].intent, calls[c].order)
      BY DEF Inv, GivenOK
    <2>2. ~At(c, "start")
      BY DEF At, Returned
    <2>3. calls[c].intent \in Intents /\ Row(c) \in Rows /\ calls[c].order \in OrderIds
      BY <2>2, Started DEF Inv, TypeOK, CallsOK, CallStates, OrderId
    <2>4. \A p \in OrderIds : Names(Row(c), p) => p = calls[c].order
      <3>1. \A d, e \in sent : calls[d].intent = calls[e].intent => d = e
        BY DEF Inv, TypeOK, Exclusive, Holder
      <3>2. QED
        BY <2>1, <2>3, <3>1 DEF Inv, NamesGiven, Given, Row
    <2>5. calls[c].at \in {"acked", "duplicate"} => Names(Row(c), calls[c].order)
      BY DEF Inv, ToldOK, Told
    <2>6. QED
      BY <2>1, <2>3, <2>4, <2>5, OrderOfRow
  <1>2. QED
    BY <1>1, Invariance, PTL
-----------------------------------------------------------------------------
(* With calls that keep to the floor: the intents a cycle may close, the    *)
(* orders nobody loses sight of and the halts nobody asked for.  Unlike the *)
(* properties above these fail for a call slower than the floor.            *)

\* From the prepared commit to the answer of the broker.
Early == Preparing \cup {"emitAttempted", "post", "ack"}
OnPath(c) == calls[c].at \in Early \/ c \in sent

\* The row of a call on its way is open and has the markers of its step.
PathOK(c) ==
  calls[c].at \in Early =>
    /\ Live(Row(c)) /\ Has(Row(c), "prepared") /\ ~Has(Row(c), "acked")
    /\ \A o \in OrderIds : ~Names(Row(c), o)
    /\ calls[c].at \in Preparing => ~Has(Row(c), "submit-attempted")

\* A cycle that is about to close intents as never submitted holds none of those.
UnscannedOK(c) == OnPath(c) => calls[c].intent \notin scan
ScanOK == \A i \in scan : Present(journal[i])

\* An order the broker made is looked for, or named.
TrackedOK(c) ==
  accepted[c] # NoOrder =>
    Live(Row(c)) \/ (Row(c).resolution # Aborted /\ Names(Row(c), accepted[c]))

\* Whatever escalates does so over a failure.
FailureOK(c) == calls[c].at \in {"preserve", "trip"} => faults > 0
Failed == latched \/ halted => faults > 0

PromptInv ==
  /\ Inv /\ ScanOK /\ Failed
  /\ \A c \in Calls : PathOK(c) /\ UnscannedOK(c) /\ TrackedOK(c) /\ FailureOK(c)

LEMMA PromptInitial == Init => PromptInv
  <1> SUFFICES ASSUME Init PROVE PromptInv
    OBVIOUS
  <1>1. \A c \in Calls : calls[c].at = "start" /\ c \notin sent /\ accepted[c] = NoOrder
    BY DEF Init
  <1>2. \A c \in Calls : PathOK(c) /\ UnscannedOK(c) /\ TrackedOK(c) /\ FailureOK(c)
    BY <1>1 DEF PathOK, UnscannedOK, OnPath, TrackedOK, FailureOK, Early, Preparing
  <1>3. ScanOK /\ Failed
    BY DEF Init, ScanOK, Failed
  <1>4. QED
    BY <1>2, <1>3, Initial DEF PromptInv

LEMMA EarlyHolds ==
  ASSUME NEW c \in Calls, OnPath(c) PROVE Holder(c)
  BY DEF OnPath, Holder, Early, Submitting

\* A call writes its own row: the first one, or a marker to the row it holds.
LEMMA CallWrites ==
  ASSUME Inv, NEW c \in Calls, SubmitIntent(c)
  PROVE  \/ UNCHANGED journal
         \/ /\ ~At(c, "start") /\ ~Present(Row(c)) /\ Write(c, NewRow)
         \/ /\ ~At(c, "start") /\ Holder(c)
            /\ \E k \in MarkerKinds, o \in OrderId : Write(c, WithMarker(Row(c), k, o))
  <1>1. calls[c].order \in OrderId /\ NoOrder \in OrderId
    BY DEF Inv, TypeOK, CallsOK, CallStates, OrderId
  <1>2. CASE Mark(c) \/ Ack(c)
    <2>1. Holder(c) /\ ~At(c, "start")
      BY <1>2 DEF Mark, Ack, At, Holder, Submitting, Preparing
    <2>2. QED
      BY <1>1, <1>2, <2>1 DEF Mark, Ack, MarkerKinds
  <1>3. QED
    BY <1>2 DEF SubmitIntent, Start, Lookup, CanSubmit, AppendIntent, Recheck, EmitPrepared, Emit,
                Reconfirm, EmitAttempted, Post, Preserve, EmitAcked, Trip, At

\* It closes no row, and leaves the rows other calls hold alone.
LEMMA CallRows ==
  ASSUME Inv, NEW c \in Calls, SubmitIntent(c), NEW i \in Intents
  PROVE  /\ Live(journal[i]) => Live(journal'[i])
         /\ Present(journal[i]) => journal'[i].resolution = journal[i].resolution
         /\ \A d \in Calls \ {c} :
              Holder(d) /\ calls[d].intent = i => journal'[i] = journal[i]
  <1>1. TypeOK
    BY DEF Inv
  <1>2. ASSUME NEW row, Write(c, row), ~At(c, "start")
        PROVE  IF i = calls[c].intent THEN journal'[i] = row ELSE journal'[i] = journal[i]
    BY <1>1, <1>2 DEF TypeOK, Write
  <1>3. \A d \in Calls : Holder(d) /\ calls[d].intent = i => Present(journal[i])
    BY HolderStarted DEF Row
  <1>4. CASE UNCHANGED journal
    BY <1>4
  <1>5. CASE ~At(c, "start") /\ ~Present(Row(c)) /\ Write(c, NewRow)
    BY <1>2, <1>3, <1>5 DEF Row, Live
  <1>6. CASE ~At(c, "start") /\ Holder(c)
             /\ \E k \in MarkerKinds, o \in OrderId : Write(c, WithMarker(Row(c), k, o))
    <2>1. PICK k \in MarkerKinds, o \in OrderId : Write(c, WithMarker(Row(c), k, o))
      BY <1>6
    <2>2. /\ Present(WithMarker(Row(c), k, o))
          /\ WithMarker(Row(c), k, o).resolution = Row(c).resolution
      BY <1>1, <1>6, Started, MarkedRow
    <2>3. \A d \in Calls \ {c} : Holder(d) => calls[d].intent # calls[c].intent
      BY <1>6 DEF Inv, Exclusive
    <2>4. QED
      BY <1>2, <1>6, <2>1, <2>2, <2>3 DEF Row, Live, Resolved
  <1>7. QED
    BY <1>4, <1>5, <1>6, CallWrites

LEMMA CallScan ==
  ASSUME NEW c \in Calls, SubmitIntent(c) PROVE UNCHANGED scan
  BY DEF SubmitIntent, Start, Lookup, CanSubmit, AppendIntent, Recheck, EmitPrepared, Emit,
         Reconfirm, Mark, EmitAttempted, Post, Ack, Preserve, EmitAcked, Trip

\* The store grants a call on its way each marker it asks for.
LEMMA MarkGranted ==
  ASSUME PromptInv, NEW c \in Calls, At(c, "mark")
  PROVE  AppendsMarker(Row(c), "submit-attempted", calls[c].order)
  BY DEF PromptInv, Inv, PathOK, AnswerOK, Early, Preparing, Unanswered, At, AppendsMarker,
         requiredPredecessor

LEMMA AckGranted ==
  ASSUME PromptInv, NEW c \in Calls, At(c, "ack")
  PROVE  AppendsMarker(Row(c), "acked", calls[c].order)
  <1>1. calls[c].order # NoOrder /\ Has(Row(c), "submit-attempted")
    BY RowAssumption DEF PromptInv, Inv, TypeOK, CallsOK, Answered, Acking, AnswerOK, EvidenceOK, At
  <1>2. QED
    BY <1>1 DEF PromptInv, PathOK, Early, At, AppendsMarker, requiredPredecessor

LEMMA OnPathStep ==
  ASSUME Inv, NEW c \in Calls, SubmitIntent(c), OnPath(c)'
  PROVE  OnPath(c) \/ (~At(c, "start") /\ ~Present(Row(c)))
  <1>1. TypeOK /\ AnswerOK(c)
    BY DEF Inv
  <1>2. Holder(c)'
    BY DEF OnPath, Holder, Early, Submitting
  <1>3. CASE calls[c].at \in {"preserve", "emitAcked"}
    BY <1>1, <1>3 DEF AnswerOK, Answered, Acking, OnPath
  <1>4. CASE Trip(c)
    <2>1. calls[c].then \in Returned /\ calls'[c].at = calls[c].then /\ sent' = sent
      BY <1>1, <1>4, GoMoves DEF Trip, Moved, TypeOK, CallsOK, CallStates, Broker
    <2>2. QED
      BY <2>1 DEF OnPath, Early, Preparing, Returned
  <1>5. CASE calls[c].at = "trip" /\ ~Trip(c)
    BY <1>5 DEF SubmitIntent, Start, Lookup, CanSubmit, AppendIntent, Recheck, EmitPrepared, Emit,
                Reconfirm, Mark, EmitAttempted, Post, Ack, Preserve, EmitAcked, At
  <1>6. QED
    BY <1>2, <1>3, <1>4, <1>5, HolderStep DEF Holder, OnPath, Early, Submitting
LEMMA UnscannedStep ==
  ASSUME PromptInv, NEW c \in Calls, SubmitIntent(c)
  PROVE  ScanOK' /\ \A d \in Calls : UnscannedOK(d)'
  <1>1. Inv /\ Kept /\ scan' = scan /\ scan \subseteq Intents
    BY CallKept, CallScan DEF PromptInv, Inv, TypeOK
  <1>2. ScanOK'
    BY <1>1 DEF PromptInv, ScanOK, Kept, Grows
  <1>3. ASSUME NEW d \in Calls, OnPath(d)' PROVE calls'[d].intent \notin scan
    <2>1. OnPath(d) \/ (~At(d, "start") /\ ~Present(Row(d)))
      BY <1>1, <1>3, OthersKept, OnPathStep DEF OnPath
    <2>2. ~At(d, "start")
      BY <1>1, <2>1, EarlyHolds, HolderStarted
    <2>3. calls[d].intent \notin scan
      BY <2>1 DEF PromptInv, UnscannedOK, ScanOK, Row
    <2>4. QED
      BY <1>1, <2>2, <2>3 DEF Kept
  <1>4. QED
    BY <1>1, <1>2, <1>3 DEF UnscannedOK

LEMMA TrackedStep ==
  ASSUME PromptInv, NEW c \in Calls, SubmitIntent(c), NEW d \in Calls
  PROVE  TrackedOK(d)'
  <1>1. Inv /\ TypeOK /\ Kept
    BY CallKept DEF PromptInv, Inv
  <1>2. ASSUME accepted'[d] # NoOrder PROVE TrackedOK(d)'
    <2>1. CASE d \in sent
      <3>1. ~At(d, "start") /\ Present(Row(d)) /\ accepted'[d] = accepted[d]
        BY <1>1, <2>1, HolderStarted DEF Holder, Kept
      <3>2. /\ calls[d].intent \in Intents
            /\ Row(d)' = journal'[calls[d].intent]
        BY <1>1, <3>1, Started DEF Kept, Row
      <3>3. /\ Live(Row(d)) => Live(Row(d)')
            /\ Row(d)'.resolution = Row(d).resolution
        BY <1>1, <3>1, <3>2, CallRows DEF Row
      <3>4. \A o : Names(Row(d), o) => Names(Row(d)', o)
        BY <1>1, <3>1, OwnRow DEF Grows
      <3>5. QED
        BY <1>2, <3>1, <3>3, <3>4 DEF PromptInv, TrackedOK
    <2>2. CASE d \notin sent
      <3>1. d = c /\ Post(c)
        <4>1. accepted[d] = NoOrder
          BY <1>1, <2>2 DEF Inv, AnswerOK
        <4>2. d = c
          BY <1>1, <1>2, <4>1, OthersKept
        <4>3. QED
          BY <1>2, <4>1, <4>2
             DEF SubmitIntent, Start, Lookup, CanSubmit, AppendIntent, Recheck, EmitPrepared, Emit,
                 Reconfirm, Mark, EmitAttempted, Ack, Preserve, EmitAcked, Trip, Broker
      <3>2. Live(Row(c)) /\ ~At(c, "start")
        BY <3>1 DEF PromptInv, PathOK, Early, Post, At
      <3>3. calls'[c].intent = calls[c].intent /\ journal' = journal
        BY <1>1, <3>1, <3>2 DEF Kept, Post
      <3>4. QED
        BY <3>1, <3>2, <3>3 DEF TrackedOK, Row
    <2>3. QED
      BY <2>1, <2>2
  <1>3. QED
    BY <1>2 DEF TrackedOK

\* The media failures are counted, so only what a step escalates matters.
LEMMA FailureStep ==
  ASSUME PromptInv, NEW c \in Calls, SubmitIntent(c)
  PROVE  Failed' /\ \A d \in Calls : FailureOK(d)'
  <1>1. Inv /\ TypeOK
    BY DEF PromptInv, Inv
  <1>2. faults \in Nat
    BY <1>1, SubmitAssumption DEF TypeOK
  <1>3. faults' \in Nat /\ faults' >= faults
    BY <1>2 DEF SubmitIntent, Start, Lookup, CanSubmit, AppendIntent, Recheck, EmitPrepared, Emit,
                Reconfirm, Mark, EmitAttempted, Post, Ack, Preserve, EmitAcked, Trip, Broken,
                Refused, Fault
  <1>4. Fault => faults' > 0
    BY <1>2 DEF Fault
  <1>5. Failed /\ FailureOK(c)
    BY DEF PromptInv
  <1>6. Broken => faults' > 0
    BY <1>3, <1>4, <1>5 DEF Broken, Failed
  <1>7. Failed'
    <2>1. latched' => latched \/ Broken \/ Fault
      BY <1>1 DEF SubmitIntent, Start, Lookup, CanSubmit, AppendIntent, Recheck, EmitPrepared, Emit,
                  Reconfirm, Mark, EmitAttempted, Post, Ack, Preserve, EmitAcked, Trip
    <2>2. halted' => halted \/ At(c, "trip")
      BY DEF SubmitIntent, Start, Lookup, CanSubmit, AppendIntent, Recheck, EmitPrepared, Emit,
             Reconfirm, Mark, EmitAttempted, Post, Ack, Preserve, EmitAcked, Trip
    <2>3. QED
      BY <1>2, <1>3, <1>4, <1>5, <1>6, <2>1, <2>2 DEF Failed, FailureOK, At
  <1>8. ASSUME NEW d \in Calls, calls'[d].at \in {"preserve", "trip"} PROVE faults' > 0
    <2>1. CASE d # c
      BY <1>1, <1>2, <1>3, <1>8, <2>1, OthersKept DEF PromptInv, FailureOK
    <2>2. CASE d = c /\ calls[c].at \in {"preserve", "trip"}
      BY <1>2, <1>3, <1>5, <2>2 DEF FailureOK
    <2>3. CASE d = c /\ calls[c].at \notin {"preserve", "trip"}
      <3>1. ASSUME NEW at, Go(c, at) PROVE calls'[c].at = at
        BY <1>1, <3>1, GoMoves DEF Moved
      <3>2. Duplicate(c) => calls'[c].at = "duplicate"
        BY <1>1, DuplicateMoves DEF Moved
      <3>3. CASE Mark(c)
        <4>1. AppendsMarker(Row(c), "submit-attempted", calls[c].order)
          BY <3>3, MarkGranted DEF Mark
        <4>2. QED
          BY <1>4, <1>8, <2>3, <3>1, <3>3, <4>1 DEF Mark, Refused
      <3>4. CASE Ack(c)
        <4>1. AppendsMarker(Row(c), "acked", calls[c].order)
          BY <3>4, AckGranted DEF Ack
        <4>2. QED
          BY <1>4, <1>8, <2>3, <3>1, <3>4, <4>1 DEF Ack, Refused
      <3>5. CASE EmitPrepared(c) \/ EmitAttempted(c) \/ EmitAcked(c)
        BY <1>6, <1>8, <2>3, <3>1, <3>5 DEF EmitPrepared, EmitAttempted, EmitAcked, Emit
      <3>6. CASE Post(c)
        <4>1. ASSUME NEW o, SubmitOrder(c, o) PROVE calls'[c].at \in {"ack", "unresolved"}
          BY <1>1, <3>1, <4>1, LearnMoves DEF SubmitOrder, Moved
        <4>2. QED
          BY <1>8, <2>3, <3>1, <3>6, <4>1 DEF Post
      <3>7. CASE \E i \in Intents : Start(c, i)
        BY <1>1, <1>8, <2>3, <3>7 DEF Start, TypeOK, CallsOK, CallStates
      <3>8. CASE Lookup(c) \/ Recheck(c)
        BY <1>8, <2>3, <3>1, <3>2, <3>8 DEF Lookup, Recheck
      <3>9. CASE CanSubmit(c) \/ AppendIntent(c) \/ Reconfirm(c)
        BY <1>8, <2>3, <3>1, <3>9 DEF CanSubmit, AppendIntent, Reconfirm
      <3>10. QED
        BY <2>3, <3>3, <3>4, <3>5, <3>6, <3>7, <3>8, <3>9
           DEF SubmitIntent, Preserve, Trip, At
    <2>4. QED
      BY <2>1, <2>2, <2>3
  <1>9. QED
    BY <1>7, <1>8 DEF FailureOK

LEMMA PathStep ==
  ASSUME PromptInv, NEW c \in Calls, SubmitIntent(c), NEW d \in Calls
  PROVE  PathOK(d)'
  <1>1. Inv /\ TypeOK /\ Kept /\ PathOK(c) /\ PathOK(d)
    BY CallKept DEF PromptInv, Inv
  <1>2. ASSUME calls[d].at \in Early, calls'[d].at \in Early,
               calls'[d].at \in Preparing => calls[d].at \in Preparing,
               calls'[d].intent = calls[d].intent, Row(d)' = Row(d)
        PROVE  PathOK(d)'
    BY <1>1, <1>2 DEF PathOK
  <1>3. CASE d # c
    <2>1. calls'[d] = calls[d]
      BY <1>1, <1>3, OthersKept
    <2>2. CASE calls[d].at \in Early
      <3>1. Holder(d) /\ ~At(d, "start")
        BY <1>1, <2>2, EarlyHolds, HolderStarted DEF OnPath
      <3>2. calls[d].intent \in Intents
        BY <1>1, <3>1, Started
      <3>3. Row(d)' = Row(d)
        BY <1>1, <1>3, <2>1, <3>1, <3>2, CallRows DEF Row
      <3>4. QED
        BY <1>2, <2>1, <2>2, <3>3
    <2>3. QED
      BY <2>1, <2>2 DEF PathOK
  <1>4. PathOK(c)'
    <2> USE DEF Early, Preparing, At
    <2>1. ASSUME NEW at, NEW o, NEW then, Moved(c, at, o, then), UNCHANGED journal,
                 at \in Early => calls[c].at \in Early,
                 at \in Preparing => calls[c].at \in Preparing
          PROVE  PathOK(c)'
      BY <1>1, <2>1 DEF PathOK, Moved, Row
    <2>2. CASE \E i \in Intents : Start(c, i)
      BY <1>1, <2>2 DEF Start, PathOK, TypeOK, CallsOK, CallStates
    <2>3. CASE Lookup(c) \/ Recheck(c)
      BY <1>1, <2>1, <2>3, GoMoves, DuplicateMoves DEF Lookup, Recheck
    <2>4. CASE CanSubmit(c)
      BY <1>1, <2>1, <2>4, GoMoves DEF CanSubmit
    <2>5. CASE Reconfirm(c)
      BY <1>1, <2>1, <2>5, GoMoves DEF Reconfirm
    <2>6. CASE AppendIntent(c)
      <3>1. CASE Write(c, NewRow) /\ Go(c, "emitPrepared")
        <4>1. calls[c].intent \in Intents /\ calls'[c].intent = calls[c].intent
          BY <1>1, <2>6, <3>1, Started, GoMoves DEF AppendIntent, Moved
        <4>2. Row(c)' = NewRow
          BY <1>1, <3>1, <4>1 DEF Write, Row, TypeOK
        <4>3. QED
          BY <4>2, FirstRow, RowAssumption DEF PathOK, Live
      <3>2. CASE Go(c, "recheck") /\ UNCHANGED journal
        BY <1>1, <2>1, <3>2, GoMoves
      <3>3. QED
        BY <2>6, <3>1, <3>2 DEF AppendIntent
    <2>7. CASE EmitPrepared(c)
      BY <1>1, <2>1, <2>7, GoMoves, TripMoves DEF EmitPrepared, Emit
    <2>8. CASE EmitAttempted(c)
      BY <1>1, <2>1, <2>8, GoMoves, TripMoves DEF EmitAttempted, Emit
    <2>9. CASE Mark(c)
      <3>1. CASE /\ Write(c, WithMarker(Row(c), "submit-attempted", NoOrder))
                 /\ Go(c, "emitAttempted")
        <4>1. /\ calls[c].intent \in Intents /\ calls'[c].intent = calls[c].intent
              /\ Row(c) \in Rows /\ calls'[c].at = "emitAttempted"
          BY <1>1, <2>9, <3>1, Started, GoMoves DEF Mark, Moved
        <4>2. Row(c)' = WithMarker(Row(c), "submit-attempted", NoOrder)
          BY <1>1, <3>1, <4>1 DEF Write, Row, TypeOK
        <4>3. "submit-attempted" \in MarkerKinds /\ NoOrder \in OrderId
          BY DEF MarkerKinds, OrderId
        <4>4. /\ Live(Row(c)') /\ Has(Row(c)', "prepared") /\ ~Has(Row(c)', "acked")
              /\ \A o \in OrderIds : ~Names(Row(c)', o)
          BY <1>1, <2>9, <4>1, <4>2, <4>3, MarkedRow, RowAssumption DEF PathOK, Mark, Live, Resolved
        <4>5. QED
          BY <4>1, <4>4 DEF PathOK
      <3>2. CASE UNCHANGED journal
        BY <1>1, <2>1, <2>9, <3>2, GoMoves, TripMoves DEF Mark
      <3>3. QED
        BY <2>9, <3>1, <3>2 DEF Mark
    <2>10. CASE Post(c)
      <3>1. ASSUME NEW o, SubmitOrder(c, o)
            PROVE  \E at \in {"ack", "unresolved"} : \E p, then : Moved(c, at, p, then)
        BY <1>1, <3>1, GoMoves, LearnMoves DEF SubmitOrder
      <3>2. QED
        BY <1>1, <2>1, <2>10, <3>1, GoMoves DEF Post
    <2>11. CASE Ack(c)
      <3>1. calls'[c].at \in {"emitAcked", "preserve"}
        BY <1>1, <2>11, GoMoves DEF Ack, Moved
      <3>2. QED
        BY <3>1 DEF PathOK
    <2>12. CASE Preserve(c)
      BY <1>1, <2>1, <2>12, TripMoves DEF Preserve
    <2>13. CASE EmitAcked(c)
      BY <1>1, <2>1, <2>13, GoMoves, TripMoves DEF EmitAcked, Emit
    <2>14. CASE Trip(c)
      <3>1. calls'[c].at \in Returned
        BY <1>1, <2>14, GoMoves DEF Trip, Moved, TypeOK, CallsOK, CallStates
      <3>2. QED
        BY <3>1 DEF PathOK, Returned
    <2>15. QED
      BY <2>2, <2>3, <2>4, <2>5, <2>6, <2>7, <2>8, <2>9, <2>10, <2>11, <2>12, <2>13, <2>14
         DEF SubmitIntent
  <1>5. QED
    BY <1>3, <1>4
\* What the calls' own steps do not reach: the closings, the cycles and the crash.
LEMMA PromptStep == Prompt /\ PromptInv /\ [Next]_vars => PromptInv'
  <1> SUFFICES ASSUME Prompt, PromptInv, [Next]_vars PROVE PromptInv'
    OBVIOUS
  <1>1. Inv /\ TypeOK /\ Inv'
    BY InvStep DEF PromptInv, Inv
  <1>2. CASE \E c \in Calls : SubmitIntent(c)
    BY <1>1, <1>2, UnscannedStep, TrackedStep, FailureStep, PathStep DEF PromptInv
  <1>3. ASSUME UNCHANGED <<calls, latched, Broker, faults>>, halted' => halted
        PROVE  Failed' /\ \A c \in Calls : FailureOK(c)' /\ (OnPath(c)' => OnPath(c))
    BY <1>3 DEF PromptInv, Failed, FailureOK, OnPath, Broker
  <1>4. ASSUME UNCHANGED <<calls, Broker, journal>>
        PROVE  \A c \in Calls : PathOK(c)' /\ TrackedOK(c)'
    BY <1>4 DEF PromptInv, PathOK, TrackedOK, Row, Broker
  <1>5. CASE UNCHANGED vars
    BY <1>1, <1>3, <1>4, <1>5 DEF PromptInv, vars, UnscannedOK, ScanOK, Broker
  <1>6. CASE Scan
    <2>1. \A i \in scan' : Present(journal[i]) /\ ~Has(journal[i], "submit-attempted")
                           /\ ~BeingPrepared(i)
      BY <1>6 DEF Scan, Aged, PreparedOnly, Live
    <2>2. ASSUME NEW c \in Calls, OnPath(c) PROVE calls[c].intent \notin scan'
      <3>1. CASE calls[c].at \in Preparing
        BY <2>1, <3>1 DEF BeingPrepared
      <3>2. CASE calls[c].at \notin Preparing
        <4>1. Has(Row(c), "submit-attempted")
          BY <1>1, <2>2, <3>2 DEF Inv, EvidenceOK, AnswerOK, Answered, Acking, OnPath, Early, At
        <4>2. QED
          BY <2>1, <4>1 DEF Row
      <3>3. QED
        BY <3>1, <3>2
    <2>3. QED
      BY <1>1, <1>3, <1>4, <1>6, <2>1, <2>2 DEF Scan, PromptInv, UnscannedOK, ScanOK
  <1>7. CASE ClearHalt
    BY <1>1, <1>3, <1>4, <1>7 DEF ClearHalt, PromptInv, UnscannedOK, ScanOK
  <1>8. ASSUME NEW i \in Intents, NEW v \in Verdicts,
               journal' = [journal EXCEPT ![i] = WithVerdict(@, v, 0)],
               UNCHANGED <<calls, latched, halted, Broker, faults>>, scan' \subseteq scan,
               \A c \in Calls : calls[c].intent = i =>
                 /\ calls[c].at \notin Early
                 /\ accepted[c] # NoOrder => v # Aborted /\ Names(journal[i], accepted[c])
        PROVE  PromptInv'
    <2>1. \A j \in Intents : IF j = i THEN journal'[j] = WithVerdict(journal[j], v, 0)
                              ELSE journal'[j] = journal[j]
      BY <1>1, <1>8 DEF TypeOK
    <2>2. journal[i] \in Rows
      BY <1>1 DEF TypeOK
    <2>3. ScanOK'
      BY <1>1, <1>8, <2>1, <2>2, ClosedRow DEF PromptInv, ScanOK, TypeOK
    <2>4. ASSUME NEW c \in Calls PROVE PathOK(c)' /\ TrackedOK(c)' /\ UnscannedOK(c)'
      <3>1. UnscannedOK(c)'
        BY <1>3, <1>8 DEF PromptInv, UnscannedOK
      <3>2. CASE At(c, "start")
        BY <1>1, <1>8, <3>1, <3>2
           DEF Inv, AnswerOK, Unanswered, PathOK, TrackedOK, At, Early, Preparing, Broker
      <3>3. CASE ~At(c, "start") /\ calls[c].intent # i
        <4>1. Row(c)' = Row(c)
          BY <1>1, <1>8, <2>1, <3>3, Started DEF Row
        <4>2. QED
          BY <1>8, <3>1, <4>1 DEF PromptInv, PathOK, TrackedOK, Broker
      <3>4. CASE ~At(c, "start") /\ calls[c].intent = i
        <4>1. Row(c)' = WithVerdict(journal[i], v, 0)
          BY <1>8, <2>1, <3>4 DEF Row
        <4>2. QED
          BY <1>8, <2>2, <3>1, <3>4, <4>1, ClosedRow DEF PathOK, TrackedOK, Broker
      <3>5. QED
        BY <3>2, <3>3, <3>4
    <2>5. QED
      BY <1>1, <1>3, <1>8, <2>3, <2>4 DEF PromptInv
  <1>9. ASSUME NEW i \in Intents, ClosePreparedOnly(i) PROVE PromptInv'
    <2>1. \A c \in Calls : calls[c].intent = i =>
            calls[c].at \notin Early /\ accepted[c] = NoOrder
      BY <1>1, <1>9 DEF ClosePreparedOnly, PromptInv, UnscannedOK, OnPath, Inv, AnswerOK
    <2>2. CASE Resolves(journal[i], Aborted)
      BY <1>8, <1>9, <2>1, <2>2, SubmitAssumption DEF ClosePreparedOnly
    <2>3. CASE ~Resolves(journal[i], Aborted)
      BY <1>1, <1>3, <1>4, <1>9, <2>3 DEF ClosePreparedOnly, PromptInv, UnscannedOK, ScanOK
    <2>4. QED
      BY <2>2, <2>3
  <1>10. ASSUME NEW i \in Intents, NEW v \in Verdicts, CloseAcked(i, v) PROVE PromptInv'
    <2>1. Names(journal[i], OrderOf(journal[i])) /\ OrderOf(journal[i]) \in OrderIds
      BY <1>1, <1>10, OrderOfRow DEF CloseAcked, TypeOK, OrderId
    <2>2. PICK e \in sent : calls[e].intent = i /\ accepted[e] = OrderOf(journal[i])
      BY <1>1, <2>1 DEF Inv, NamesGiven, Given
    <2>3. e \in Calls
      BY <1>1 DEF TypeOK
    <2>4. ASSUME NEW c \in Calls, calls[c].intent = i
          PROVE  /\ calls[c].at \notin Early
                 /\ accepted[c] # NoOrder => v # Aborted /\ Names(journal[i], accepted[c])
      <3>1. Holder(c) => c = e
        BY <1>1, <2>2, <2>3, <2>4 DEF Inv, Exclusive, Holder
      <3>2. accepted[c] # NoOrder => c = e
        BY <1>1, <3>1 DEF Inv, AnswerOK, Holder
      <3>3. calls[c].at \notin Early
        <4>1. OnPath(c) => c = e
          BY <3>1, EarlyHolds
        <4>2. calls[e].at \in Early => At(e, "ack")
          BY <1>1, <2>2, <2>3 DEF Inv, AnswerOK, Unanswered, Early, At
        <4>3. ~At(e, "ack")
          BY <2>1, <2>2, <2>3 DEF PromptInv, PathOK, Early, At, Row
        <4>4. QED
          BY <4>1, <4>2, <4>3 DEF OnPath
      <3>4. QED
        BY <1>10, <2>1, <2>2, <3>2, <3>3 DEF CloseAcked
    <2>5. QED
      BY <1>8, <1>10, <2>4 DEF CloseAcked
  <1>11. CASE Crash
    <2>1. /\ UNCHANGED <<journal, halted, Broker, faults>> /\ scan' = {} /\ ~latched'
          /\ \A c \in Calls : calls'[c].intent = calls[c].intent
                              /\ (calls'[c].at = "dead" \/ calls'[c] = calls[c])
      BY <1>1, <1>11 DEF Crash, TypeOK, CallsOK, CallStates
    <2>2. ScanOK' /\ Failed' /\ \A c \in Calls : UnscannedOK(c)'
      BY <2>1 DEF PromptInv, ScanOK, Failed, UnscannedOK
    <2>3. \A c \in Calls : PathOK(c)' /\ TrackedOK(c)' /\ FailureOK(c)'
      BY <2>1 DEF PromptInv, PathOK, TrackedOK, FailureOK, Row, Early, Preparing, Broker
    <2>4. QED
      BY <1>1, <2>2, <2>3 DEF PromptInv
  <1>12. QED
    BY <1>2, <1>5, <1>6, <1>7, <1>9, <1>10, <1>11 DEF Next
\* While calls keep to the floor, an order the broker made stays in sight of the
\* reconciler until the journal names it, and no intent with one is closed as never
\* submitted, for any number of calls, crashes and cycles (drive.go:105-112).
THEOREM LiveOrdersTracked == ASSUME Prompt PROVE Spec => []LiveOrderTracked
  <1>1. PromptInv => LiveOrderTracked
    <2> SUFFICES ASSUME PromptInv, NEW c \in Calls, accepted[c] # NoOrder, ~Live(Row(c))
                 PROVE  Row(c).resolution # Aborted /\ OrderOf(Row(c)) = accepted[c]
      BY DEF LiveOrderTracked, Row
    <2>1. Row(c).resolution # Aborted /\ Names(Row(c), accepted[c])
      BY DEF PromptInv, TrackedOK
    <2>2. c \in sent /\ ~At(c, "start")
      BY DEF PromptInv, Inv, AnswerOK, Unanswered, At
    <2>3. calls[c].intent \in Intents /\ Row(c) \in Rows /\ accepted[c] \in OrderIds
      BY <2>2, Started DEF PromptInv, Inv, TypeOK, OrderId
    <2>4. \A p \in OrderIds : Names(Row(c), p) => p = accepted[c]
      BY <2>2, <2>3 DEF PromptInv, Inv, TypeOK, Exclusive, Holder, NamesGiven, Given, Row
    <2>5. QED
      BY <2>1, <2>3, <2>4, OrderOfRow
  <1>2. Spec => []PromptInv
    BY PromptInitial, PromptStep, PTL DEF Spec
  <1>3. QED
    BY <1>1, <1>2, PTL

\* While calls keep to the floor, the path trips the halt over a broken medium alone:
\* the store grants every marker a call on its way asks for (submit.go:319-335).
THEOREM HaltsOnFailure == ASSUME Prompt PROVE Spec => []HaltOnlyOnFailure
  <1>1. PromptInv => HaltOnlyOnFailure
    BY DEF PromptInv, Failed, HaltOnlyOnFailure
  <1>2. Spec => []PromptInv
    BY PromptInitial, PromptStep, PTL DEF Spec
  <1>3. QED
    BY <1>1, <1>2, PTL
=============================================================================
