------------------------------ MODULE TrailProofs ------------------------------
(***************************************************************************)
(* What is recorded and audited: the journal for every set of intents,       *)
(* orders and verdicts, every retention setting and every clock that runs    *)
(* at most MaxSkew ahead, and the audit trail for any number of emissions,   *)
(* failing calls, deaths and power losses.                                   *)
(*                                                                           *)
(* Why the trail holds its records: a segment differs from what the disk has *)
(* of it in the last frame at most, and only the last segment does, or lacks *)
(* its entry (Lawful, Pinned).  So a power loss takes at most what was not   *)
(* acknowledged (Safe), and the next process finds the end of the trail by   *)
(* counting (Chained, Scanning).                                             *)
(***************************************************************************)
EXTENDS Journal, AuditWriter, FiniteSetTheorems, WellFoundedInduction, TLAPS

\* What the markers of a row are.
ProtocolOK(r) ==
  \A n \in DOMAIN r.markers :
    /\ n <= 3
    /\ r.markers[n].kind = <<"prepared", "submit-attempted", "acked">>[n]
    /\ r.markers[n].orderId \in OrderIds <=> n = 3

\* A deleted row is blank, an ack names a record that exists, and a flagged row is
\* closed with every record acked.
RowOK(r) ==
  /\ r \in Rows
  /\ Resolved(r) <=> r.resolvedAt # NoTime
  /\ ~Present(r) => r = NoRow
  /\ r.acked \subseteq LifecycleKeys(r)
  /\ Audited(r) => Resolved(r) /\ LifecycleKeys(r) \subseteq r.acked

\* Whatever is acked was emitted.
Ledger(i) == \A k \in journal[i].acked : <<i, LifecycleRecord(journal[i], k)>> \in emitted

\* The stamp of a flag is not behind the real time it was set at.
Stamped(i) ==
  Audited(journal[i]) => flaggedAt[i] \in Nat /\ journal[i].auditedAt >= flaggedAt[i]

IInv ==
  /\ TypeOK
  /\ \A i \in Intents : RowOK(journal[i]) /\ ProtocolOK(journal[i])
  /\ \A i \in Intents : Ledger(i) /\ Stamped(i)

-----------------------------------------------------------------------------
(* Rows *)

LEMMA NoRowOK == RowOK(NoRow) /\ ProtocolOK(NoRow) /\ ~Present(NoRow) /\ ~Audited(NoRow)
                  /\ ~Resolved(NoRow) /\ LifecycleKeys(NoRow) = {} /\ NoRow.acked = {}
  <1>1. NoRow \in Rows
    BY DEF NoRow, Rows
  <1>2. QED
    BY <1>1, RowAssumption
       DEF RowOK, ProtocolOK, NoRow, Present, Resolved, Audited, LifecycleKeys, NoTime

LEMMA MarkerFacts ==
  ASSUME NEW r \in Rows, NEW k \in MarkerKinds, NEW o \in OrderIds \cup {NoOrder}
  PROVE  /\ WithMarker(r, k, o) \in Rows
         /\ WithMarker(r, k, o).markers = Append(r.markers, [kind |-> k, orderId |-> o])
         /\ WithMarker(r, k, o).resolution = r.resolution
         /\ WithMarker(r, k, o).resolvedAt = r.resolvedAt
         /\ WithMarker(r, k, o).acked = r.acked
         /\ WithMarker(r, k, o).auditedAt = r.auditedAt
  <1> DEFINE ms == Append(r.markers, [kind |-> k, orderId |-> o])
  <1>1. [kind |-> k, orderId |-> o] \in MarkerShapes /\ r.markers \in Seq(MarkerShapes)
    BY DEF MarkerShapes, Rows
  <1>2. ms \in Seq(MarkerShapes)
    BY <1>1
  <1>3. WithMarker(r, k, o) = [r EXCEPT !.markers = ms]
    BY DEF WithMarker
  <1> HIDE DEF ms
  <1>4. /\ WithMarker(r, k, o) \in Rows /\ WithMarker(r, k, o).markers = ms
        /\ WithMarker(r, k, o).resolution = r.resolution
        /\ WithMarker(r, k, o).resolvedAt = r.resolvedAt
        /\ WithMarker(r, k, o).acked = r.acked
        /\ WithMarker(r, k, o).auditedAt = r.auditedAt
    BY <1>2, <1>3 DEF Rows
  <1>5. QED
    BY <1>4 DEF ms

LEMMA NewRowOK == RowOK(NewRow) /\ ProtocolOK(NewRow) /\ Present(NewRow) /\ ~Audited(NewRow)
                   /\ ~Resolved(NewRow) /\ NewRow.acked = {} /\ LifecycleKeys(NewRow) = {1}
  <1> DEFINE m == [kind |-> "prepared", orderId |-> NoOrder]
  <1>1. m.kind = "prepared" /\ m.orderId \notin OrderIds
    BY RowAssumption
  <1>2. NoRow \in Rows
    BY NoRowOK DEF RowOK
  <1>3. /\ NewRow \in Rows /\ NewRow.markers = Append(NoRow.markers, m)
        /\ NewRow.resolution = NoRow.resolution /\ NewRow.resolvedAt = NoRow.resolvedAt
        /\ NewRow.acked = NoRow.acked /\ NewRow.auditedAt = NoRow.auditedAt
    BY <1>2, MarkerFacts DEF NewRow, MarkerKinds
  <1>4. /\ NewRow.markers = <<m>> /\ NewRow.resolution = NoVerdict
        /\ NewRow.resolvedAt = NoTime /\ NewRow.acked = {} /\ NewRow.auditedAt = NoTime
    BY <1>3 DEF NoRow
  <1>5. DOMAIN NewRow.markers = {1} /\ NewRow.markers[1] = m
    BY <1>4
  <1>6. ~Resolved(NewRow) /\ ~Audited(NewRow) /\ Present(NewRow)
    BY <1>4, <1>5, RowAssumption DEF Resolved, Audited, Present
  <1>7. LifecycleKeys(NewRow) = {1}
    BY <1>5, <1>6 DEF LifecycleKeys
  <1>8. ProtocolOK(NewRow)
    BY <1>1, <1>5 DEF ProtocolOK
  <1>9. QED
    BY <1>3, <1>4, <1>6, <1>7, <1>8 DEF RowOK

\* A marker that appendMarker accepts is the next of the protocol.
LEMMA NextMarker ==
  ASSUME NEW r \in Rows, ProtocolOK(r), NEW k \in MarkerKinds, NEW o \in OrderIds \cup {NoOrder},
         AppendsMarker(r, k, o)
  PROVE  /\ Len(r.markers) + 1 <= 3
         /\ k = <<"prepared", "submit-attempted", "acked">>[Len(r.markers) + 1]
         /\ o \in OrderIds <=> Len(r.markers) + 1 = 3
  <1> DEFINE L == Len(r.markers)
  <1>1. r.markers \in Seq(MarkerShapes) /\ L \in Nat /\ DOMAIN r.markers = 1 .. L
    BY DEF Rows
  <1>2. L # 0
    BY <1>1 DEF AppendsMarker, Live, Present
  <1>3. L <= 3
    BY <1>1, <1>2 DEF ProtocolOK
  <1>4. r.markers[1].kind = "prepared"
    BY <1>1, <1>2 DEF ProtocolOK
  <1>5. k # "prepared"
    BY <1>1, <1>2, <1>4 DEF AppendsMarker, Has
  <1>6. CASE k = "submit-attempted"
    <2>1. L < 2
      BY <1>1, <1>6 DEF AppendsMarker, Has, ProtocolOK
    <2>2. QED
      BY <1>1, <1>2, <1>6, <2>1, RowAssumption DEF AppendsMarker
  <1>7. CASE k = "acked"
    <2>1. requiredPredecessor(k) = "submit-attempted"
      BY <1>7 DEF requiredPredecessor
    <2>2. PICK n \in DOMAIN r.markers : r.markers[n].kind = "submit-attempted"
      BY <2>1 DEF AppendsMarker, Has
    <2>3. n = 2
      BY <1>1, <2>2 DEF ProtocolOK
    <2>4. L < 3
      BY <1>1, <1>7 DEF AppendsMarker, Has, ProtocolOK
    <2>5. 2 <= L
      BY <1>1, <2>2, <2>3
    <2>6. L = 2
      <3>1. \A x \in Nat : 2 <= x /\ x < 3 => x = 2
        OBVIOUS
      <3>2. QED
        BY <1>1, <2>4, <2>5, <3>1, Zenon
    <2>7. QED
      BY <1>7, <2>6, RowAssumption DEF AppendsMarker
  <1>8. QED
    BY <1>5, <1>6, <1>7 DEF MarkerKinds

\* Row s says everything r said.
Says(s, r) ==
  /\ LifecycleKeys(r) \subseteq LifecycleKeys(s)
  /\ \A k \in LifecycleKeys(r) : LifecycleRecord(s, k) = LifecycleRecord(r, k)

LEMMA MarkerStep ==
  ASSUME NEW r, RowOK(r), ProtocolOK(r), NEW k \in MarkerKinds,
         NEW o \in OrderIds \cup {NoOrder}, AppendsMarker(r, k, o)
  PROVE  /\ RowOK(WithMarker(r, k, o)) /\ ProtocolOK(WithMarker(r, k, o))
         /\ Says(WithMarker(r, k, o), r) /\ WithMarker(r, k, o).acked = r.acked
         /\ ~Resolved(r) /\ ~Audited(WithMarker(r, k, o))
  <1> DEFINE s == WithMarker(r, k, o)
             m == [kind |-> k, orderId |-> o]
             L == Len(r.markers)
  <1>1. r \in Rows /\ r.markers \in Seq(MarkerShapes) /\ L \in Nat
    BY DEF RowOK, Rows
  <1>2. /\ s \in Rows /\ s.markers = Append(r.markers, m) /\ s.acked = r.acked
        /\ s.resolution = r.resolution /\ s.resolvedAt = r.resolvedAt
        /\ s.auditedAt = r.auditedAt
    BY <1>1, MarkerFacts
  <1> HIDE DEF s
  <1>3. /\ DOMAIN r.markers = 1 .. L /\ DOMAIN s.markers = 1 .. L + 1
        /\ s.markers[L + 1] = m
        /\ \A n \in 1 .. L : s.markers[n] = r.markers[n]
    BY <1>1, <1>2
  <1>4. ~Resolved(r) /\ ~Resolved(s) /\ ~Audited(r) /\ ~Audited(s)
    BY <1>2 DEF AppendsMarker, Live, Resolved, RowOK, Audited
  <1>5. LifecycleKeys(r) = 1 .. L /\ LifecycleKeys(s) = 1 .. L + 1
    BY <1>3, <1>4 DEF LifecycleKeys
  <1>6. Says(s, r)
    <2>1. ASSUME NEW n \in 1 .. L PROVE LifecycleRecord(s, n) = LifecycleRecord(r, n)
      BY <1>1, <1>3 DEF LifecycleRecord, Terminal
    <2>2. QED
      BY <1>1, <1>5, <2>1 DEF Says
  <1>7. Present(s)
    BY <1>1, <1>3 DEF Present
  <1>8. RowOK(s)
    BY <1>1, <1>2, <1>4, <1>5, <1>7 DEF RowOK, Resolved
  <1>9. ProtocolOK(s)
    <2>1. m.kind = k /\ m.orderId = o
      OBVIOUS
    <2>2. ASSUME NEW n \in 1 .. L + 1
          PROVE  /\ n <= 3
                 /\ s.markers[n].kind = <<"prepared", "submit-attempted", "acked">>[n]
                 /\ s.markers[n].orderId \in OrderIds <=> n = 3
      <3>1. CASE n \in 1 .. L
        BY <1>3, <3>1 DEF ProtocolOK
      <3>2. CASE n = L + 1
        BY <1>1, <1>3, <2>1, <3>2, NextMarker
      <3>3. QED
        BY <1>1, <3>1, <3>2
    <2>3. QED
      BY <1>3, <2>2 DEF ProtocolOK
  <1>10. QED
    BY <1>2, <1>4, <1>6, <1>8, <1>9 DEF s

\* The changes that leave the markers of a row alone.
LEMMA VerdictStep ==
  ASSUME NEW r, RowOK(r), ProtocolOK(r), NEW v \in Verdicts, NEW t \in Nat, Live(r)
  PROVE  /\ RowOK(WithVerdict(r, v, t)) /\ ProtocolOK(WithVerdict(r, v, t))
         /\ Says(WithVerdict(r, v, t), r) /\ WithVerdict(r, v, t).acked = r.acked
         /\ ~Audited(WithVerdict(r, v, t))
  <1> DEFINE s == WithVerdict(r, v, t)
  <1>1. r \in Rows
    BY DEF RowOK
  <1>2. /\ s \in Rows /\ s.markers = r.markers /\ s.acked = r.acked
        /\ s.resolution = v /\ s.resolvedAt = t /\ s.auditedAt = r.auditedAt
    BY <1>1 DEF WithVerdict, Rows
  <1> HIDE DEF s
  <1>3. Resolved(s) /\ ~Resolved(r) /\ Present(s) /\ ~Audited(r) /\ ~Audited(s)
    BY <1>2, RowAssumption DEF Live, Resolved, Present, Audited, RowOK
  <1>4. LifecycleKeys(r) = DOMAIN r.markers /\ LifecycleKeys(r) \subseteq LifecycleKeys(s)
    BY <1>2, <1>3 DEF LifecycleKeys
  <1>5. Terminal \notin DOMAIN r.markers
    BY <1>1 DEF Rows, Terminal
  <1>6. Says(s, r)
    BY <1>2, <1>4, <1>5 DEF Says, LifecycleRecord
  <1>7. RowOK(s)
    BY <1>2, <1>3, <1>4 DEF RowOK, NoTime
  <1>8. ProtocolOK(s)
    BY <1>2 DEF ProtocolOK
  <1>9. QED
    BY <1>2, <1>3, <1>6, <1>7, <1>8 DEF s

LEMMA AckStep ==
  ASSUME NEW r, RowOK(r), ProtocolOK(r), NEW k, AcceptsAck(r, k)
  PROVE  /\ RowOK(WithAck(r, k)) /\ ProtocolOK(WithAck(r, k))
         /\ Says(WithAck(r, k), r) /\ WithAck(r, k).acked = r.acked \cup {k}
         /\ WithAck(r, k).auditedAt = r.auditedAt
         /\ WithAck(r, k).markers = r.markers /\ WithAck(r, k).resolution = r.resolution
         /\ WithAck(r, k).resolvedAt = r.resolvedAt
  <1> DEFINE s == WithAck(r, k)
  <1>1. r \in Rows
    BY DEF RowOK
  <1>2. k \in Nat
    BY <1>1 DEF AcceptsAck, LifecycleKeys, Terminal, Rows
  <1>3. /\ s \in Rows /\ s.markers = r.markers /\ s.acked = r.acked \cup {k}
        /\ s.resolution = r.resolution /\ s.resolvedAt = r.resolvedAt
        /\ s.auditedAt = r.auditedAt
    BY <1>1, <1>2 DEF WithAck, Rows
  <1> HIDE DEF s
  <1>4. LifecycleKeys(s) = LifecycleKeys(r)
    BY <1>3 DEF LifecycleKeys, Resolved
  <1>5. Says(s, r)
    BY <1>3, <1>4 DEF Says, LifecycleRecord, OrderOf
  <1>6. RowOK(s)
    BY <1>3, <1>4 DEF RowOK, AcceptsAck, Resolved, Present, Audited
  <1>7. ProtocolOK(s)
    BY <1>3 DEF ProtocolOK
  <1>8. QED
    BY <1>3, <1>5, <1>6, <1>7 DEF s

LEMMA FlagStep ==
  ASSUME NEW r, RowOK(r), ProtocolOK(r), NEW t \in Nat, Finalizes(r)
  PROVE  /\ RowOK(WithAuditedAt(r, t)) /\ ProtocolOK(WithAuditedAt(r, t))
         /\ Says(WithAuditedAt(r, t), r) /\ WithAuditedAt(r, t).acked = r.acked
         /\ WithAuditedAt(r, t).auditedAt = t
         /\ WithAuditedAt(r, t).markers = r.markers
         /\ WithAuditedAt(r, t).resolution = r.resolution
         /\ WithAuditedAt(r, t).resolvedAt = r.resolvedAt
  <1> DEFINE s == WithAuditedAt(r, t)
  <1>1. r \in Rows
    BY DEF RowOK
  <1>2. /\ s \in Rows /\ s.markers = r.markers /\ s.acked = r.acked
        /\ s.resolution = r.resolution /\ s.resolvedAt = r.resolvedAt
        /\ s.auditedAt = t
    BY <1>1 DEF WithAuditedAt, Rows
  <1> HIDE DEF s
  <1>3. LifecycleKeys(s) = LifecycleKeys(r)
    BY <1>2 DEF LifecycleKeys, Resolved
  <1>4. Says(s, r)
    BY <1>2, <1>3 DEF Says, LifecycleRecord, OrderOf
  <1>5. RowOK(s)
    BY <1>2, <1>3 DEF RowOK, Finalizes, Resolved, Present, Audited
  <1>6. ProtocolOK(s)
    BY <1>2 DEF ProtocolOK
  <1>7. QED
    BY <1>2, <1>4, <1>5, <1>6 DEF s

-----------------------------------------------------------------------------
(* The inductive invariant *)

LEMMA InitInv == Init => IInv
  <1> SUFFICES ASSUME Init PROVE IInv
    OBVIOUS
  <1>1. \A i \in Intents : journal[i] = NoRow
    BY DEF Init
  <1>2. \A i \in Intents : RowOK(journal[i]) /\ ProtocolOK(journal[i])
    BY <1>1, NoRowOK
  <1>3. \A i \in Intents : Ledger(i) /\ Stamped(i)
    BY <1>1, NoRowOK DEF Ledger, Stamped
  <1>4. TypeOK
    <2>1. NoRow \in Rows /\ (Resolved(NoRow) <=> NoRow.resolvedAt # NoTime)
      BY NoRowOK DEF RowOK
    <2>2. journal \in [Intents -> Rows]
      BY <2>1 DEF Init
    <2>3. flaggedAt \in [Intents -> Nat \cup {NoTime}]
      BY DEF Init
    <2>4. now \in Nat /\ skew \in 0 .. MaxSkew /\ used \subseteq Intents
      BY ClockAssumption DEF Init
    <2>5. QED
      BY <1>1, <2>1, <2>2, <2>3, <2>4 DEF TypeOK
  <1>5. QED
    BY <1>2, <1>3, <1>4 DEF IInv

\* A step that replaces one row by one that says as much keeps the invariant.
LEMMA RowStep ==
  ASSUME IInv, NEW i \in Intents, NEW s, RowOK(s), ProtocolOK(s),
         journal' = [journal EXCEPT ![i] = s],
         UNCHANGED <<now, skew, emitted>>, used' \subseteq Intents,
         flaggedAt' \in [Intents -> Nat \cup {NoTime}],
         \A j \in Intents \ {i} : flaggedAt'[j] = flaggedAt[j],
         \A k \in s.acked : <<i, LifecycleRecord(s, k)>> \in emitted,
         Audited(s) => flaggedAt'[i] \in Nat /\ s.auditedAt >= flaggedAt'[i]
  PROVE  IInv'
  <1>1. journal'[i] = s /\ \A j \in Intents \ {i} : journal'[j] = journal[j]
    BY DEF IInv, TypeOK
  <1>2. \A j \in Intents : RowOK(journal'[j]) /\ ProtocolOK(journal'[j])
    BY <1>1 DEF IInv
  <1>3. ASSUME NEW j \in Intents PROVE Ledger(j)' /\ Stamped(j)'
    <2>1. CASE j = i
      BY <1>1, <2>1 DEF Ledger, Stamped
    <2>2. CASE j # i
      BY <1>1, <2>2 DEF Ledger, Stamped, IInv
    <2>3. QED
      BY <2>1, <2>2
  <1>4. TypeOK'
    <2>1. journal' \in [Intents -> Rows]
      BY DEF IInv, TypeOK, RowOK
    <2>2. QED
      BY <1>2, <2>1 DEF IInv, TypeOK, RowOK
  <1>5. QED
    BY <1>2, <1>3, <1>4 DEF IInv

LEMMA WallType == TypeOK => Wall \in Nat /\ Wall >= now /\ Wall <= now + MaxSkew
  BY ClockAssumption DEF TypeOK, Wall

LEMMA Preserved == IInv /\ [Next]_vars => IInv'
  <1> SUFFICES ASSUME IInv, [Next]_vars PROVE IInv'
    OBVIOUS
  <1> USE DEF IInv
  <1>0. TypeOK /\ Wall \in Nat /\ Wall >= now
    BY WallType
  <1>1. CASE Tick \/ AdjustClock \/ UNCHANGED vars
    <2>1. UNCHANGED <<journal, used, emitted, flaggedAt>> /\ now' \in Nat /\ skew' \in 0 .. MaxSkew
      BY <1>0, <1>1 DEF Tick, AdjustClock, vars, TypeOK
    <2>2. TypeOK'
      BY <1>0, <2>1 DEF TypeOK
    <2>3. QED
      BY <2>1, <2>2 DEF Ledger, Stamped
  <1>2. ASSUME NEW i \in Intents, AppendIntent(i) PROVE IInv'
    <2>1. used' \subseteq Intents /\ flaggedAt' \in [Intents -> Nat \cup {NoTime}]
      BY <1>0, <1>2 DEF AppendIntent, TypeOK
    <2>2. QED
      BY <1>2, <2>1, NewRowOK, RowStep DEF AppendIntent
  <1>3. ASSUME NEW i \in Intents, NEW k \in MarkerKinds, NEW o \in OrderIds \cup {NoOrder},
               AppendMarker(i, k, o)
        PROVE  IInv'
    <2> DEFINE s == WithMarker(journal[i], k, o)
    <2>1. journal' = [journal EXCEPT ![i] = s] /\ AppendsMarker(journal[i], k, o)
      BY <1>0, <1>3 DEF AppendMarker, TypeOK
    <2>2. /\ RowOK(s) /\ ProtocolOK(s) /\ Says(s, journal[i]) /\ s.acked = journal[i].acked
          /\ ~Audited(s)
      BY <2>1, MarkerStep
    <2> HIDE DEF s
    <2>3. \A n \in s.acked : <<i, LifecycleRecord(s, n)>> \in emitted
      BY <2>2 DEF Ledger, Says, RowOK
    <2>4. used' \subseteq Intents /\ flaggedAt' \in [Intents -> Nat \cup {NoTime}]
      BY <1>0, <1>3 DEF AppendMarker, TypeOK
    <2>5. QED
      BY <1>3, <2>1, <2>2, <2>3, <2>4, RowStep DEF AppendMarker
  <1>4. ASSUME NEW i \in Intents, NEW v \in Verdicts, ResolveIntent(i, v) PROVE IInv'
    <2> DEFINE s == WithVerdict(journal[i], v, Wall)
    <2>1. journal' = [journal EXCEPT ![i] = s] /\ Live(journal[i])
      BY <1>0, <1>4 DEF ResolveIntent, Resolves, TypeOK
    <2>2. /\ RowOK(s) /\ ProtocolOK(s) /\ Says(s, journal[i]) /\ s.acked = journal[i].acked
          /\ ~Audited(s)
      BY <1>0, <2>1, VerdictStep
    <2> HIDE DEF s
    <2>3. \A n \in s.acked : <<i, LifecycleRecord(s, n)>> \in emitted
      BY <2>2 DEF Ledger, Says, RowOK
    <2>4. used' \subseteq Intents /\ flaggedAt' \in [Intents -> Nat \cup {NoTime}]
      BY <1>0, <1>4 DEF ResolveIntent, TypeOK
    <2>5. QED
      BY <1>4, <2>1, <2>2, <2>3, <2>4, RowStep DEF ResolveIntent
  <1>5. ASSUME NEW i \in Intents, NEW k \in Keys, Emit(i, k) PROVE IInv'
    <2>1. emitted \subseteq emitted' /\ UNCHANGED <<journal, now, skew, used, flaggedAt>>
      BY <1>5 DEF Emit
    <2>2. TypeOK'
      BY <1>0, <2>1 DEF TypeOK
    <2>3. \A j \in Intents : Ledger(j)' /\ Stamped(j)'
      BY <2>1 DEF Ledger, Stamped
    <2>4. QED
      BY <2>1, <2>2, <2>3
  <1>6. ASSUME NEW i \in Intents, NEW k \in Keys, RecordAuditAck(i, k) PROVE IInv'
    <2> DEFINE s == WithAck(journal[i], k)
    <2>1. journal' = [journal EXCEPT ![i] = s] /\ AcceptsAck(journal[i], k) /\ MayAck(i, k)
      BY <1>0, <1>6 DEF RecordAuditAck, TypeOK
    <2>2. /\ RowOK(s) /\ ProtocolOK(s) /\ Says(s, journal[i])
          /\ s.acked = journal[i].acked \cup {k} /\ s.auditedAt = journal[i].auditedAt
      BY <2>1, AckStep
    <2> HIDE DEF s
    <2>3. \A n \in s.acked : <<i, LifecycleRecord(s, n)>> \in emitted
      <3>1. <<i, LifecycleRecord(journal[i], k)>> \in emitted /\ k \in LifecycleKeys(journal[i])
        BY <2>1 DEF MayAck, AcceptsAck
      <3>2. QED
        BY <2>2, <3>1 DEF Ledger, Says, RowOK
    <2>4. used' \subseteq Intents /\ flaggedAt' \in [Intents -> Nat \cup {NoTime}]
      BY <1>0, <1>6 DEF RecordAuditAck, TypeOK
    <2>5. Audited(s) => flaggedAt'[i] \in Nat /\ s.auditedAt >= flaggedAt'[i]
      BY <1>6, <2>2 DEF Audited, Stamped, RecordAuditAck
    <2>6. QED
      BY <1>6, <2>1, <2>2, <2>3, <2>4, <2>5, RowStep DEF RecordAuditAck
  <1>7. ASSUME NEW i \in Intents, FinalizeFullyAudited(i) PROVE IInv'
    <2> DEFINE s == WithAuditedAt(journal[i], Wall)
    <2>1. journal' = [journal EXCEPT ![i] = s] /\ Finalizes(journal[i])
      BY <1>0, <1>7 DEF FinalizeFullyAudited, TypeOK
    <2>2. /\ RowOK(s) /\ ProtocolOK(s) /\ Says(s, journal[i]) /\ s.acked = journal[i].acked
          /\ s.auditedAt = Wall
      BY <1>0, <2>1, FlagStep
    <2> HIDE DEF s
    <2>3. \A n \in s.acked : <<i, LifecycleRecord(s, n)>> \in emitted
      BY <2>2 DEF Ledger, Says, RowOK
    <2>4. /\ used' \subseteq Intents /\ flaggedAt' = [flaggedAt EXCEPT ![i] = now]
          /\ flaggedAt' \in [Intents -> Nat \cup {NoTime}] /\ flaggedAt'[i] = now
      BY <1>0, <1>7 DEF FinalizeFullyAudited, TypeOK
    <2>5. /\ \A j \in Intents \ {i} : flaggedAt'[j] = flaggedAt[j]
          /\ flaggedAt'[i] \in Nat /\ s.auditedAt >= flaggedAt'[i]
      BY <1>0, <2>2, <2>4 DEF TypeOK
    <2>6. QED
      BY <1>7, <2>1, <2>2, <2>3, <2>4, <2>5, RowStep DEF FinalizeFullyAudited
  <1>8. CASE PruneOnce
    <2>1. PICK S \in Candidates(Wall - RetentionWindow) :
            /\ journal' = [i \in Intents |-> IF i \in S THEN NoRow ELSE journal[i]]
            /\ UNCHANGED <<now, skew, used, emitted, flaggedAt>>
      BY <1>8 DEF PruneOnce
    <2>2. \A i \in Intents : journal'[i] = NoRow \/ journal'[i] = journal[i]
      BY <2>1
    <2>3. \A i \in Intents : RowOK(journal'[i]) /\ ProtocolOK(journal'[i])
      BY <2>2, NoRowOK
    <2>4. \A i \in Intents : Ledger(i)' /\ Stamped(i)'
      BY <2>1, <2>2, NoRowOK DEF Ledger, Stamped
    <2>5. TypeOK'
      <3>1. NoRow \in Rows
        BY NoRowOK DEF RowOK
      <3>2. journal' \in [Intents -> Rows]
        BY <1>0, <2>1, <3>1 DEF TypeOK
      <3>3. QED
        BY <1>0, <2>1, <2>3, <3>2 DEF TypeOK, RowOK
    <2>6. QED
      BY <2>3, <2>4, <2>5
  <1>9. QED
    BY <1>1, <1>2, <1>3, <1>4, <1>5, <1>6, <1>7, <1>8 DEF Next

\* The invariant holds in every state of every behaviour.
THEOREM Invariance == Spec => []IInv
  BY InitInv, Preserved, PTL DEF Spec

-----------------------------------------------------------------------------
(* What follows from it *)

\* Every reachable state of the journal is well typed.
THEOREM TypeCorrect == Spec => []TypeOK
  BY Invariance, PTL DEF IInv

\* Markers follow the protocol on every row, so the absence of submit-attempted proves
\* that no POST was made.
THEOREM ProtocolSafety == Spec => []MarkerProtocol
  <1>1. IInv => MarkerProtocol
    BY DEF IInv, ProtocolOK, MarkerProtocol
  <1>2. QED
    BY <1>1, Invariance, PTL

LEMMA FlagCovers == IInv => FlagMeansAudited
  BY DEF IInv, RowOK, Ledger, FlagMeansAudited, ReconstructLifecycleRecords

\* The prune gate is open only over a lifecycle that is durable in the audit trail.
THEOREM FlagSafety == Spec => []FlagMeansAudited
  BY FlagCovers, Invariance, PTL

\* What a step does to one row.
RowEvolves(i) ==
  \/ UNCHANGED journal[i]
  \/ ~Present(journal[i]) /\ journal'[i] = NewRow
  \/ \E k \in MarkerKinds, o \in OrderIds \cup {NoOrder} :
       AppendsMarker(journal[i], k, o) /\ journal'[i] = WithMarker(journal[i], k, o)
  \/ \E v \in Verdicts : Live(journal[i]) /\ journal'[i] = WithVerdict(journal[i], v, Wall)
  \/ \E k \in Keys : AcceptsAck(journal[i], k) /\ journal'[i] = WithAck(journal[i], k)
  \/ Finalizes(journal[i]) /\ journal'[i] = WithAuditedAt(journal[i], Wall)

\* What a pass of the pruner does to a row it selected.
PrunedRow(i) == PruneEligible(journal[i], Wall - RetentionWindow) /\ journal'[i] = NoRow

LEMMA RowSteps ==
  TypeOK /\ [Next]_vars =>
    \/ \A i \in Intents : RowEvolves(i)
    \/ UNCHANGED emitted /\ \A i \in Intents : UNCHANGED journal[i] \/ PrunedRow(i)
  <1> SUFFICES ASSUME TypeOK, [Next]_vars
               PROVE  \/ \A i \in Intents : RowEvolves(i)
                      \/ /\ UNCHANGED emitted
                         /\ \A i \in Intents : UNCHANGED journal[i] \/ PrunedRow(i)
    OBVIOUS
  <1>1. CASE Tick \/ AdjustClock \/ UNCHANGED vars
    BY <1>1 DEF Tick, AdjustClock, vars, RowEvolves
  <1>2. ASSUME NEW i \in Intents, AppendIntent(i) PROVE \A j \in Intents : RowEvolves(j)
    BY <1>2 DEF AppendIntent, RowEvolves, TypeOK
  <1>3. ASSUME NEW i \in Intents, NEW k \in MarkerKinds, NEW o \in OrderIds \cup {NoOrder},
               AppendMarker(i, k, o)
        PROVE  \A j \in Intents : RowEvolves(j)
    BY <1>3 DEF AppendMarker, RowEvolves, TypeOK
  <1>4. ASSUME NEW i \in Intents, NEW v \in Verdicts, ResolveIntent(i, v)
        PROVE  \A j \in Intents : RowEvolves(j)
    BY <1>4 DEF ResolveIntent, Resolves, RowEvolves, TypeOK
  <1>5. ASSUME NEW i \in Intents, NEW k \in Keys, Emit(i, k)
        PROVE  \A j \in Intents : RowEvolves(j)
    BY <1>5 DEF Emit, RowEvolves
  <1>6. ASSUME NEW i \in Intents, NEW k \in Keys, RecordAuditAck(i, k)
        PROVE  \A j \in Intents : RowEvolves(j)
    BY <1>6 DEF RecordAuditAck, RowEvolves, TypeOK
  <1>7. ASSUME NEW i \in Intents, FinalizeFullyAudited(i)
        PROVE  \A j \in Intents : RowEvolves(j)
    BY <1>7 DEF FinalizeFullyAudited, RowEvolves, TypeOK
  <1>8. CASE PruneOnce
    BY <1>8 DEF PruneOnce, Candidates, PrunedRow
  <1>9. QED
    BY <1>1, <1>2, <1>3, <1>4, <1>5, <1>6, <1>7, <1>8 DEF Next

LEMMA Closed == IInv /\ [Next]_vars => \A i \in Intents : Resolved(journal[i]) =>
                  \/ journal'[i] = NoRow
                  \/ /\ journal'[i].resolution = journal[i].resolution
                     /\ journal'[i].resolvedAt = journal[i].resolvedAt
                     /\ journal'[i].markers = journal[i].markers
  <1> SUFFICES ASSUME IInv, [Next]_vars, NEW i \in Intents, Resolved(journal[i]),
                      journal'[i] # NoRow
               PROVE  /\ journal'[i].resolution = journal[i].resolution
                      /\ journal'[i].resolvedAt = journal[i].resolvedAt
                      /\ journal'[i].markers = journal[i].markers
    OBVIOUS
  <1>1. RowOK(journal[i]) /\ ProtocolOK(journal[i]) /\ TypeOK /\ Wall \in Nat
    BY WallType DEF IInv
  <1>2. Present(journal[i])
    BY <1>1, NoRowOK DEF RowOK
  <1>3. CASE RowEvolves(i)
    <2>1. CASE \E k \in Keys : AcceptsAck(journal[i], k) /\ journal'[i] = WithAck(journal[i], k)
      BY <1>1, <2>1, AckStep
    <2>2. CASE Finalizes(journal[i]) /\ journal'[i] = WithAuditedAt(journal[i], Wall)
      BY <1>1, <2>2, FlagStep
    <2>3. QED
      BY <1>2, <1>3, <2>1, <2>2 DEF RowEvolves, AppendsMarker, Live
  <1>4. CASE UNCHANGED journal[i] \/ PrunedRow(i)
    BY <1>4 DEF PrunedRow
  <1>5. QED
    BY <1>1, <1>3, <1>4, RowSteps

\* Closed intents stay as they were closed until they are pruned.
THEOREM ClosedSafety == Spec => ClosedStaysClosed
  BY Closed, Invariance, PTL DEF Spec, ClosedStaysClosed

LEMMA EvolvesSays ==
  ASSUME IInv, NEW i \in Intents, RowEvolves(i)
  PROVE  Says(journal'[i], journal[i])
  <1>1. RowOK(journal[i]) /\ ProtocolOK(journal[i]) /\ TypeOK /\ Wall \in Nat
    BY WallType DEF IInv
  <1>2. CASE UNCHANGED journal[i]
    BY <1>2 DEF Says
  <1>3. CASE ~Present(journal[i]) /\ journal'[i] = NewRow
    BY <1>1, <1>3, NoRowOK DEF Says, RowOK
  <1>4. CASE \E k \in MarkerKinds, o \in OrderIds \cup {NoOrder} :
               AppendsMarker(journal[i], k, o) /\ journal'[i] = WithMarker(journal[i], k, o)
    BY <1>1, <1>4, MarkerStep
  <1>5. CASE \E v \in Verdicts : Live(journal[i]) /\ journal'[i] = WithVerdict(journal[i], v, Wall)
    BY <1>1, <1>5, VerdictStep
  <1>6. CASE \E k \in Keys : AcceptsAck(journal[i], k) /\ journal'[i] = WithAck(journal[i], k)
    BY <1>1, <1>6, AckStep
  <1>7. CASE Finalizes(journal[i]) /\ journal'[i] = WithAuditedAt(journal[i], Wall)
    BY <1>1, <1>7, FlagStep
  <1>8. QED
    BY <1>2, <1>3, <1>4, <1>5, <1>6, <1>7 DEF RowEvolves

LEMMA Grace == IInv /\ [Next]_vars =>
                 \A i \in Intents : Present(journal[i]) /\ ~Present(journal'[i]) =>
                   now - flaggedAt[i] >= RetentionWindow - MaxSkew
  <1> SUFFICES ASSUME IInv, [Next]_vars, NEW i \in Intents,
                      Present(journal[i]), ~Present(journal'[i])
               PROVE  now - flaggedAt[i] >= RetentionWindow - MaxSkew
    OBVIOUS
  <1>1. /\ RowOK(journal[i]) /\ Stamped(i) /\ TypeOK
        /\ Wall \in Nat /\ Wall <= now + MaxSkew
    BY WallType DEF IInv
  <1>2. ~RowEvolves(i)
    <2>1. SUFFICES ASSUME RowEvolves(i) PROVE FALSE
      OBVIOUS
    <2>2. Says(journal'[i], journal[i])
      BY <2>1, EvolvesSays
    <2>3. journal'[i] = NoRow
      BY Preserved DEF IInv, RowOK
    <2>4. journal[i].markers \in Seq(MarkerShapes) /\ journal[i].markers # <<>>
      BY <1>1 DEF RowOK, Rows, Present
    <2>5. 1 \in DOMAIN journal[i].markers
      BY <2>4
    <2>6. QED
      BY <2>2, <2>3, <2>5, NoRowOK DEF Says, LifecycleKeys
  <1>3. PrunedRow(i)
    <2>1. journal'[i] # journal[i]
      BY DEF Present
    <2>2. QED
      BY <1>1, <1>2, <2>1, RowSteps
  <1>4. Audited(journal[i]) /\ EligibleSince(journal[i]) <= Wall - RetentionWindow
    BY <1>3 DEF PrunedRow, PruneEligible
  <1>5. flaggedAt[i] \in Nat /\ journal[i].auditedAt >= flaggedAt[i]
    BY <1>1, <1>4 DEF Stamped
  <1>6. journal[i].auditedAt \in Int /\ journal[i].resolvedAt \in Int
    BY <1>1 DEF RowOK, Rows, NoTime
  <1>7. EligibleSince(journal[i]) >= journal[i].auditedAt /\ EligibleSince(journal[i]) \in Int
    BY <1>6 DEF EligibleSince, Later
  <1>8. QED
    BY <1>1, <1>4, <1>5, <1>6, <1>7, PruneConfigAssumption, ClockAssumption DEF TypeOK

\* A pruned row was kept for the window after its flag, less the clock's error.
THEOREM GraceSafety == Spec => GraceKept
  BY Grace, Invariance, PTL DEF Spec, GraceKept

-----------------------------------------------------------------------------
(* The outbox *)

LEMMA KeptIs ==
  \A x : x \in Kept <=> \E i \in Intents : \E k \in LifecycleKeys(journal[i]) :
                         x = <<i, LifecycleRecord(journal[i], k)>>
  BY DEF Kept, ReconstructLifecycleRecords

LEMMA KeptIsNext ==
  \A x : x \in Kept' <=> \E i \in Intents : \E k \in LifecycleKeys(journal'[i]) :
                          x = <<i, LifecycleRecord(journal'[i], k)>>
  BY DEF Kept, ReconstructLifecycleRecords

LEMMA EmittedSteps ==
  [Next]_vars => \/ UNCHANGED emitted
                 \/ /\ UNCHANGED journal /\ emitted \subseteq emitted'
                    /\ emitted' \subseteq emitted \cup Kept
  <1> SUFFICES ASSUME [Next]_vars, emitted' # emitted
               PROVE  /\ UNCHANGED journal /\ emitted \subseteq emitted'
                      /\ emitted' \subseteq emitted \cup Kept
    OBVIOUS
  <1>1. PICK i \in Intents, k \in Keys : Emit(i, k)
    BY DEF Next, vars, Tick, AdjustClock, PruneOnce, AppendIntent, AppendMarker, ResolveIntent,
           RecordAuditAck, FinalizeFullyAudited
  <1>2. <<i, LifecycleRecord(journal[i], k)>> \in Kept
    BY <1>1, KeptIs DEF Emit
  <1>3. QED
    BY <1>1, <1>2 DEF Emit

LEMMA OutboxInit == Init => Outbox!Init
  <1> SUFFICES ASSUME Init PROVE Kept = {} /\ emitted = {}
    BY DEF Outbox!Init
  <1>1. \A i \in Intents : LifecycleKeys(journal[i]) = {}
    BY NoRowOK DEF Init
  <1>2. QED
    BY <1>1, KeptIs DEF Init

LEMMA OutboxStep == IInv /\ [Next]_vars => [Outbox!Next]_<<Kept, emitted>>
  <1> SUFFICES ASSUME IInv, [Next]_vars PROVE [Outbox!Next]_<<Kept, emitted>>
    OBVIOUS
  <1>1. CASE ~UNCHANGED emitted
    <2>1. UNCHANGED Kept
      BY <1>1, EmittedSteps DEF Kept
    <2>2. QED
      BY <1>1, <2>1, EmittedSteps DEF Outbox!Next, Outbox!Send
  <1>2. CASE UNCHANGED emitted /\ \A i \in Intents : RowEvolves(i)
    <2>1. \A i \in Intents : Says(journal'[i], journal[i])
      BY <1>2, EvolvesSays
    <2>2. Kept \subseteq Kept'
      BY <2>1, KeptIs, KeptIsNext DEF Says
    <2>3. QED
      BY <1>2, <2>2 DEF Outbox!Next, Outbox!Write
  <1>3. CASE /\ UNCHANGED emitted
             /\ \A i \in Intents : UNCHANGED journal[i] \/ PrunedRow(i)
    <2>1. \A i \in Intents : PrunedRow(i) =>
            /\ LifecycleKeys(journal'[i]) = {}
            /\ \A k \in LifecycleKeys(journal[i]) :
                 <<i, LifecycleRecord(journal[i], k)>> \in emitted
      BY NoRowOK, FlagCovers
         DEF PrunedRow, PruneEligible, FlagMeansAudited, ReconstructLifecycleRecords
    <2>2. Kept' \subseteq Kept
      BY <1>3, <2>1, KeptIs, KeptIsNext
    <2>3. Kept \ Kept' \subseteq emitted
      BY <1>3, <2>1, KeptIs, KeptIsNext
    <2>4. QED
      BY <1>3, <2>2, <2>3 DEF Outbox!Next, Outbox!Drop
  <1>4. QED
    BY <1>1, <1>2, <1>3, RowSteps DEF IInv

\* The journal implements the outbox of the audit trail: no lifecycle record is dropped
\* before it was sent, and none changes what it says.
THEOREM Refinement == Spec => ImplementsAuditOutbox
  <1>1. IInv /\ [Next]_vars => [Outbox!Next]_<<Kept, emitted>>
    BY OutboxStep
  <1>2. QED
    BY OutboxInit, <1>1, Invariance, PTL DEF Spec, Outbox!Spec, ImplementsAuditOutbox
-----------------------------------------------------------------------------
(* The audit trail *)

Records == [id : Nat, seq : Int]
Files == Seq(Records)
Synced(n) == synced[entries[n]]
Final(n) == \A m \in Segments : m <= n

WriterTyped ==
  /\ dir \in {"absent", "seen", "kept"}
  /\ entries \in [Names -> Inodes \cup {NoInode}] /\ kept \in [Names -> Inodes \cup {NoInode}]
  /\ contents \in [Inodes -> Files] /\ synced \in [Inodes -> Files]
  /\ pc \in Pcs /\ cur \in Nat /\ seq \in Nat /\ seq <= emits
  /\ active \in Inodes \cup {NoInode} /\ size \in Nat
  /\ emits \in Nat /\ emits <= MaxEmits

\* A record of segment n at place k, of one of the first e emissions.
Placed(r, n, k, e) == r.seq = n + k - 2 /\ r.seq < e

\* A file of the trail: a header and records in sequence, and a torn frame at most at its end.
Ended(f, n, e) ==
  /\ Len(f) >= 1 /\ f[1] = Header
  /\ \A k \in 2 .. Len(f) : Placed(f[k], n, k, e) \/ (k = Len(f) /\ f[k] = Torn)

Whole(f) == \A k \in 1 .. Len(f) : f[k] # Torn

\* What is seen of a file and what is on the disk differ by at most the last frame.
Near(f, g) ==
  /\ Len(f) <= Len(g) + 1 /\ Len(g) <= Len(f) + 1
  /\ \A k \in 1 .. Len(f) : k <= Len(g) => f[k] = g[k]

\* Only what was just created may get lost.
Pinned ==
  /\ dir # "kept" => \A n \in Names : entries[n] = NoInode /\ kept[n] = NoInode
  /\ \A n \in Starts :
       \/ kept[n] = entries[n]
       \/ /\ kept[n] = NoInode /\ n \in Segments /\ Final(n)
          /\ Frames(n) = <<Header>> /\ Synced(n) = <<Header>>
  /\ \A m, n \in Segments : entries[m] = entries[n] => m = n

Lawful ==
  \A n \in Segments :
    /\ Ended(Frames(n), n, emits) /\ Ended(Synced(n), n, emits) /\ Near(Frames(n), Synced(n))
    /\ ~Final(n) => Synced(n) = Frames(n) /\ Whole(Frames(n)) /\ Len(Frames(n)) >= 2

\* Segments follow on each other.
Chained ==
  \A n \in Segments :
    /\ ~Final(n) => n + Len(Frames(n)) - 1 \in Segments
    /\ \A m \in Segments : n < m => n + Len(Frames(n)) - 1 <= m
    /\ n # 0 => \E m \in Segments : m < n /\ n = m + Len(Frames(m)) - 1

\* Frame k of segment n is the record a, on the disk as well.
Stored(a, n, k) ==
  /\ k \in 2 .. Len(Frames(n)) /\ k <= Len(Synced(n)) /\ Frames(n)[k] = a /\ a.seq = n + k - 2

Safe == \A a \in acks : a.seq \in Nat /\ \E n \in Segments : \E k \in Nat : Stored(a, n, k)

Trail == Pinned /\ Lawful /\ Chained /\ Safe

-----------------------------------------------------------------------------
\* Where the view and the disk are one, as far as the trail goes.
Calm == {"syncParent", "cleanTemps", "syncClean", "scan", "truncate", "idle", "write"} \cup Creating

InProcess ==
  /\ pc \in Calm => \A n \in Segments : Synced(n) = Frames(n)
  /\ pc \notin {"down", "poisoned", "syncDir"} => \A n \in Starts : kept[n] = entries[n]
  /\ pc \notin {"down", "syncParent"} => dir = "kept"
  /\ pc = "syncParent" => \A n \in Names : entries[n] = NoInode /\ kept[n] = NoInode
  /\ pc \in {"syncParent", "cleanTemps", "syncClean"} => seq = 0 /\ active = NoInode /\ size = 0
  /\ pc \in Booting => cur = 0

\* The active segment, while the writer holds one.
Holding == {"truncate", "syncTruncate", "idle", "write", "fsync", "discard"}
Growing == {"create", "syncTemp", "rename"}

Held(n) ==
  /\ n \in Segments /\ Final(n) /\ active = entries[n] /\ seq = n + size - 1 /\ size >= 1
  /\ size <= Len(Frames(n)) /\ size <= Len(Synced(n))
  /\ \A k \in 1 .. size : Frames(n)[k] # Torn
  /\ Len(Frames(n)) <= size + 1 /\ Len(Synced(n)) <= size + 1
  /\ pc \in {"idle", "write", "syncTruncate"} \cup Creating => Len(Frames(n)) = size
  /\ pc \in Creating => size >= 2
  /\ pc = "fsync" => Len(Frames(n)) = size + 1 /\ Frames(n)[size + 1] = [id |-> cur, seq |-> seq]

Started ==
  /\ pc \in Holding => \E n \in Starts : Held(n)
  /\ pc \in Growing => (\E n \in Starts : Held(n)) \/ (Segments = {} /\ seq = 0 /\ cur = 0)
  /\ pc \in Holding \cup Creating => \A a \in acks : a.seq < seq
  /\ pc \in {"write", "fsync", "discard"} => seq < emits
  /\ pc \in Creating /\ cur # 0 => seq < emits

\* The file on its way to be a segment.
Newborn ==
  /\ pc \in {"syncTemp", "rename"} =>
       /\ entries[Temp] # NoInode /\ contents[entries[Temp]] = <<Header>>
       /\ \A n \in Segments : entries[n] # entries[Temp]
  /\ pc = "rename" => synced[entries[Temp]] = <<Header>>
  /\ pc = "syncDir" =>
       /\ seq \in Segments /\ Final(seq) /\ Frames(seq) = <<Header>>
       /\ \A n \in Starts : n # seq => kept[n] = entries[n]

\* How far the scan is.
Scanning ==
  pc = "scan" =>
    /\ Segments # {} => seq \in Segments
    /\ \A n \in Segments : n \in Unread <=> n >= seq
    /\ Segments = {} => seq = 0

WriterInv == WriterTyped /\ Trail /\ InProcess /\ Started /\ Newborn /\ Scanning
-----------------------------------------------------------------------------
\* The image of a finite set is no larger than the set.
LEMMA ImageBounded ==
  ASSUME NEW S, IsFiniteSet(S), NEW f
  PROVE  IsFiniteSet({f[x] : x \in S}) /\ Cardinality({f[x] : x \in S}) <= Cardinality(S)
<1> DEFINE T == {f[x] : x \in S}
           g == [x \in S |-> f[x]]
<1>1. g \in Surjection(S, T)
  BY DEF Surjection
<1> HIDE DEF g, T
<1>2. IsFiniteSet(T) /\ Cardinality(T) <= Cardinality(S)
  BY <1>1, FS_Surjection
<1> QED
  BY <1>2 DEF T

\* A new segment always finds a free inode: entries as seen and as on the disk are two for
\* each name, and the temporary one is not in use.
LEMMA InodesSuffice == WriterTyped /\ entries[Temp] = NoInode => Free # {}
<1> SUFFICES ASSUME WriterTyped, entries[Temp] = NoInode, Free = {} PROVE FALSE
  OBVIOUS
<1> DEFINE A == {entries[n] : n \in Starts}
           B == {kept[n] : n \in Names}
<1>1. MaxEmits \in Nat
  BY WriterAssumption
<1>2. IsFiniteSet(Starts) /\ Cardinality(Starts) = MaxEmits + 1
  BY <1>1, FS_Interval DEF Starts
<1>3. IsFiniteSet(Names) /\ Cardinality(Names) = Cardinality(Starts) + 1
  <2>1. Temp \notin Starts
    BY DEF Temp, Starts
  <2> QED
    BY <1>2, <2>1, FS_AddElement DEF Names
<1>4. Cardinality(Inodes) = 2 * Cardinality(Names)
  <2> DEFINE c == 2 * Cardinality(Names)
  <2>1. c \in Nat /\ c >= 1
    BY <1>1, <1>2, <1>3
  <2> HIDE DEF c
  <2>2. Cardinality(1 .. c) = c
    BY <2>1, FS_Interval
  <2> QED
    BY <2>2 DEF c, Inodes
<1>5. IsFiniteSet(A) /\ Cardinality(A) <= Cardinality(Starts)
  BY <1>2, ImageBounded
<1>6. IsFiniteSet(B) /\ Cardinality(B) <= Cardinality(Names)
  BY <1>3, ImageBounded
<1>7. Inodes \subseteq A \cup B
  <2> SUFFICES ASSUME NEW i \in Inodes PROVE i \in A \cup B
    OBVIOUS
  <2>1. PICK n \in Names : i \in {entries[n], kept[n]}
    BY DEF Free
  <2>2. i # NoInode
    BY DEF Inodes, NoInode
  <2>3. CASE i = kept[n]
    BY <2>3
  <2>4. CASE i = entries[n]
    <3>1. n # Temp
      BY <2>2, <2>4
    <3>2. n \in Starts
      BY <3>1 DEF Names
    <3> QED
      BY <2>4, <3>2
  <2> QED
    BY <2>1, <2>3, <2>4
<1> HIDE DEF A, B
<1>8. IsFiniteSet(A \cup B) /\ Cardinality(A \cup B) <= Cardinality(A) + Cardinality(B)
  <2>1. /\ IsFiniteSet(A \cup B)
        /\ Cardinality(A \cup B) = Cardinality(A) + Cardinality(B) - Cardinality(A \cap B)
    BY <1>5, <1>6, FS_Union
  <2>2. Cardinality(A \cap B) \in Nat
    BY <1>5, FS_Intersection, FS_CardinalityType
  <2>3. Cardinality(A) \in Nat /\ Cardinality(B) \in Nat
    BY <1>5, <1>6, FS_CardinalityType
  <2> QED
    BY <2>1, <2>2, <2>3
<1>9. Cardinality(Inodes) <= Cardinality(A \cup B) /\ Cardinality(Inodes) \in Nat
  BY <1>7, <1>8, FS_Subset, FS_CardinalityType
<1>10. /\ Cardinality(A) \in Nat /\ Cardinality(B) \in Nat /\ Cardinality(A \cup B) \in Nat
  BY <1>5, <1>6, <1>8, FS_CardinalityType
<1> QED
  BY <1>1, <1>2, <1>3, <1>4, <1>5, <1>6, <1>8, <1>9, <1>10
-----------------------------------------------------------------------------
(* The frames of a file *)

\* A file that is cut keeps its first frames.
LEMMA Cutting ==
  ASSUME NEW f \in Files, NEW k \in Nat, k <= Len(f)
  PROVE  /\ SubSeq(f, 1, k) \in Files /\ Len(SubSeq(f, 1, k)) = k
         /\ \A i \in 1 .. k : SubSeq(f, 1, k)[i] = f[i]
BY DEF Files

\* A file that grows keeps its frames and gets one at its end.
LEMMA Growth ==
  ASSUME NEW f \in Files, NEW r \in Records
  PROVE  /\ Append(f, r) \in Files /\ Len(Append(f, r)) = Len(f) + 1
         /\ \A i \in 1 .. Len(f) : Append(f, r)[i] = f[i]
         /\ Append(f, r)[Len(f) + 1] = r
BY DEF Files

LEMMA SameFrames ==
  ASSUME NEW f \in Files, NEW g \in Files, Len(f) = Len(g), \A i \in 1 .. Len(f) : f[i] = g[i]
  PROVE  f = g
BY DEF Files

LEMMA Elements ==
  ASSUME NEW f \in Files
  PROVE  Len(f) \in Nat /\ DOMAIN f = 1 .. Len(f) /\ \A i \in 1 .. Len(f) : f[i] \in Records
BY DEF Files

LEMMA Frame ==
  /\ Header \in Records /\ Torn \in Records /\ Torn.seq = -1 /\ Header # Torn
  /\ <<>> \in Files /\ Len(<<>>) = 0
  /\ <<Header>> \in Files /\ Len(<<Header>>) = 1 /\ <<Header>>[1] = Header
BY DEF Header, Torn, Records, Files

Less == {ss \in Nat \X Nat : ss[1] < ss[2]}

\* The least element principle, from the well-foundedness of the order.
LEMMA LeastNat ==
  ASSUME NEW T, T \subseteq Nat, T # {}
  PROVE  \E x \in T : \A y \in T : x <= y
<1>1. IsWellFoundedOn(Less, Nat)
  BY NatLessThanWellFounded DEF OpToRel, Less
<1>2. PICK x \in T : \A y \in T : ~ (<<y, x>> \in Less)
  BY <1>1, WFMin
<1>3. \A y \in T : x <= y
  <2> TAKE y \in T
  <2>1. x \in Nat /\ y \in Nat
    OBVIOUS
  <2>2. <<y, x>> \in Less <=> y < x
    BY <2>1 DEF Less
  <2> QED
    BY <1>2, <2>1, <2>2
<1> QED
  BY <1>3

LEMMA MinFacts ==
  ASSUME NEW S, S \subseteq Nat, S # {}
  PROVE  Min(S) \in S /\ \A y \in S : Min(S) <= y
  BY LeastNat DEF Min

\* A bounded set of numbers has a greatest one: the bound less the least distance to it.
LEMMA MaxFacts ==
  ASSUME NEW b \in Nat, NEW S, S \subseteq 0 .. b, S # {}
  PROVE  Max(S) \in S /\ \A y \in S : y <= Max(S)
<1> DEFINE T == {d \in 0 .. b : b - d \in S}
<1>1. T \subseteq Nat
  OBVIOUS
<1>2. T # {}
  <2>1. PICK x \in S : TRUE
    OBVIOUS
  <2>2. x \in 0 .. b
    BY <2>1
  <2>3. b - x \in 0 .. b /\ b - (b - x) = x
    BY <2>2
  <2> QED
    BY <2>1, <2>3
<1>3. PICK d \in T : \A y \in T : d <= y
  BY <1>1, <1>2, LeastNat
<1>4. \A y \in S : y <= b - d
  <2> TAKE y \in S
  <2>1. y \in 0 .. b
    OBVIOUS
  <2>2. b - y \in 0 .. b /\ b - (b - y) = y
    BY <2>1
  <2>3. b - y \in T
    BY <2>2
  <2>4. d <= b - y /\ d \in 0 .. b
    BY <1>3, <2>3
  <2> QED
    BY <2>1, <2>4
<1>5. b - d \in S /\ \A y \in S : b - d >= y
  <2>1. b - d \in S /\ d \in 0 .. b
    BY <1>3
  <2>2. \A y \in S : y \in Nat
    OBVIOUS
  <2> QED
    BY <1>4, <2>1, <2>2
<1>6. \E x \in S : \A y \in S : x >= y
  BY <1>5
<1>7. Max(S) \in S /\ \A y \in S : Max(S) >= y
  BY <1>6 DEF Max
<1>8. \A y \in S : y \in Nat
  OBVIOUS
<1> QED
  BY <1>7, <1>8

LEMMA EndedCut ==
  ASSUME NEW f \in Files, NEW n \in Nat, NEW e \in Nat, Ended(f, n, e), NEW k \in Nat, 1 <= k, k <= Len(f)
  PROVE  Ended(SubSeq(f, 1, k), n, e) /\ (k < Len(f) => Whole(SubSeq(f, 1, k)))
<1> DEFINE g == SubSeq(f, 1, k)
<1>1. g \in Files /\ Len(g) = k /\ \A i \in 1 .. k : g[i] = f[i]
  BY Cutting
<1>2. Len(f) \in Nat
  BY Elements
<1> HIDE DEF g
<1>3. Ended(g, n, e)
  BY <1>1, <1>2 DEF Ended
<1>4. ASSUME k < Len(f) PROVE Whole(g)
  <2> SUFFICES ASSUME NEW i \in 1 .. Len(g) PROVE g[i] # Torn
    BY DEF Whole
  <2>1. CASE i = 1
    BY <1>1, <2>1, Frame DEF Ended
  <2>2. CASE i # 1
    <3>1. i \in 2 .. Len(f) /\ i # Len(f) /\ g[i] = f[i]
      BY <1>1, <1>2, <1>4, <2>2
    <3>2. Placed(f[i], n, i, e)
      BY <3>1 DEF Ended
    <3>3. f[i].seq # -1
      BY <3>1, <3>2, <1>2 DEF Placed
    <3> QED
      BY <3>1, <3>3, Frame
  <2> QED
    BY <2>1, <2>2
<1> QED
  BY <1>3, <1>4 DEF g

LEMMA EndedGrow ==
  ASSUME NEW f \in Files, NEW n \in Nat, NEW e \in Nat, Ended(f, n, e), NEW k \in Nat, 1 <= k, k <= Len(f),
         \A i \in 1 .. k : f[i] # Torn,
         NEW r \in Records, r = Torn \/ Placed(r, n, k + 1, e)
  PROVE  Ended(Append(SubSeq(f, 1, k), r), n, e)
<1> DEFINE g == SubSeq(f, 1, k)
           h == Append(g, r)
<1>1. g \in Files /\ Len(g) = k /\ \A i \in 1 .. k : g[i] = f[i]
  BY Cutting
<1>2. h \in Files /\ Len(h) = k + 1 /\ (\A i \in 1 .. Len(g) : h[i] = g[i]) /\ h[Len(g) + 1] = r
  BY <1>1, Growth
<1>3. Len(f) \in Nat
  BY Elements
<1> HIDE DEF g, h
<1>4. \A i \in 1 .. k : h[i] = f[i]
  BY <1>1, <1>2
<1>5. Len(h) >= 1 /\ h[1] = Header
  BY <1>2, <1>4 DEF Ended
<1>6. ASSUME NEW i \in 2 .. Len(h) PROVE Placed(h[i], n, i, e) \/ (i = Len(h) /\ h[i] = Torn)
  <2>1. CASE i = k + 1
    BY <1>1, <1>2, <2>1
  <2>2. CASE i # k + 1
    <3>1. i \in 1 .. k /\ i \in 2 .. Len(f)
      BY <2>2, <1>2, <1>3
    <3>2. Placed(f[i], n, i, e)
      BY <3>1 DEF Ended
    <3> QED
      BY <3>1, <3>2, <1>4
  <2> QED
    BY <2>1, <2>2
<1> QED
  BY <1>5, <1>6 DEF Ended, g, h

\* What recovery reads of a file of the trail: all of it, or all but a torn frame at its end.
LEMMA GoodPart ==
  ASSUME NEW f \in Files, NEW n \in Nat, NEW e \in Nat, Ended(f, n, e)
  PROVE  /\ Good(f) \in Files /\ Len(Good(f)) >= 1 /\ Len(Good(f)) <= Len(f) /\ Len(f) <= Len(Good(f)) + 1
         /\ \A i \in 1 .. Len(Good(f)) : Good(f)[i] = f[i] /\ f[i] # Torn
         /\ Len(Good(f)) < Len(f) => f[Len(f)] = Torn
         /\ Good(f) = f <=> Whole(f)
         /\ Good(f) = f <=> Len(Good(f)) = Len(f)
<1> DEFINE cuts == {k \in DOMAIN f : f[k] = Torn}
<1>0. Len(f) \in Nat
  BY Elements
<1>1. Len(f) \in Nat /\ DOMAIN f = 1 .. Len(f)
  BY Elements
<1>2. Good(f) = IF cuts = {} THEN f ELSE SubSeq(f, 1, Min(cuts) - 1)
  BY DEF Good
<1>3. \A k \in 1 .. Len(f) : f[k] = Torn => k = Len(f) /\ k >= 2
  <2> SUFFICES ASSUME NEW k \in 1 .. Len(f), f[k] = Torn PROVE k = Len(f) /\ k >= 2
    OBVIOUS
  <2>1. k # 1
    BY Frame DEF Ended
  <2>2. k \in 2 .. Len(f)
    BY <2>1, <1>1
  <2>3. ~ Placed(f[k], n, k, e)
    BY <2>2, <1>1, Frame DEF Placed
  <2> QED
    BY <2>2, <2>3 DEF Ended
<1>4. cuts \subseteq Nat /\ \A k \in cuts : k = Len(f) /\ k >= 2 /\ f[k] = Torn
  <2>1. \A k \in cuts : k \in 1 .. Len(f) /\ f[k] = Torn
    BY <1>1
  <2>2. \A k \in 1 .. Len(f) : k \in Nat
    OBVIOUS
  <2> HIDE DEF cuts
  <2> QED
    BY <2>1, <2>2, <1>3
<1>5. cuts = {} => \A k \in 1 .. Len(f) : f[k] # Torn
  BY <1>1
<1> HIDE DEF cuts
<1>6. CASE cuts = {}
  <2>1. Good(f) = f /\ Whole(f)
    BY <1>2, <1>5, <1>6 DEF Whole
  <2>2. Len(f) >= 1
    BY DEF Ended
  <2> QED
    BY <1>1, <1>5, <1>6, <2>1, <2>2
<1>7. CASE cuts # {}
  <2>1. Min(cuts) \in cuts
    BY <1>4, <1>7, MinFacts
  <2>2. Min(cuts) = Len(f) /\ Len(f) >= 2 /\ f[Len(f)] = Torn
    BY <2>1, <1>4
  <2> DEFINE g == SubSeq(f, 1, Len(f) - 1)
  <2>3. Good(f) = g
    BY <1>2, <1>7, <2>2
  <2>4. Len(f) - 1 \in Nat /\ Len(f) - 1 <= Len(f)
    BY <1>1, <2>2
  <2>5. g \in Files /\ Len(g) = Len(f) - 1 /\ \A i \in 1 .. Len(f) - 1 : g[i] = f[i]
    BY <2>4, Cutting
  <2> HIDE DEF g
  <2>6. ASSUME NEW i \in 1 .. Len(f) - 1 PROVE f[i] # Torn
    <3>1. i \in 1 .. Len(f) /\ i # Len(f)
      BY <1>0
    <3> QED
      BY <3>1, <1>3
  <2>7. ~ Whole(f)
    BY <2>2, <1>1 DEF Whole
  <2>8. Len(g) # Len(f) /\ Len(g) >= 1 /\ Len(g) <= Len(f) /\ Len(f) <= Len(g) + 1
    BY <2>2, <2>5, <1>1
  <2> QED
    BY <2>2, <2>3, <2>5, <2>6, <2>7, <2>8
<1> QED
  BY <1>6, <1>7

\* A file that was cut, or cut and written on, against what the disk has of it.
LEMMA NearCut ==
  ASSUME NEW f \in Files, NEW g \in Files, NEW k \in Nat, k <= Len(f), k <= Len(g), Len(g) <= k + 1,
         \A i \in 1 .. k : f[i] = g[i]
  PROVE  Near(SubSeq(f, 1, k), g)
<1>1. /\ SubSeq(f, 1, k) \in Files /\ Len(SubSeq(f, 1, k)) = k
      /\ \A i \in 1 .. k : SubSeq(f, 1, k)[i] = f[i]
  BY Cutting
<1> DEFINE h == SubSeq(f, 1, k)
<1> HIDE DEF h
<1>2. h \in Files /\ Len(h) = k /\ \A i \in 1 .. k : h[i] = g[i]
  BY <1>1 DEF h
<1>3. Len(g) \in Nat
  BY Elements
<1> QED
  BY <1>2, <1>3 DEF Near, h

LEMMA NearGrow ==
  ASSUME NEW f \in Files, NEW g \in Files, NEW r \in Records, Len(g) <= Len(f), Len(f) <= Len(g),
         \A i \in 1 .. Len(f) : f[i] = g[i]
  PROVE  Near(Append(f, r), g)
<1> DEFINE h == Append(f, r)
<1>1. h \in Files /\ Len(h) = Len(f) + 1 /\ \A i \in 1 .. Len(f) : h[i] = f[i]
  BY Growth
<1>2. Len(f) \in Nat /\ Len(g) \in Nat
  BY Elements
<1> HIDE DEF h
<1> QED
  BY <1>1, <1>2 DEF Near, h

LEMMA NearSame == \A f \in Files : Near(f, f)
BY Elements DEF Near

-----------------------------------------------------------------------------
(* What a power loss leaves of a file *)

Cuts(t, same) ==
  {Prefix(t, n) : n \in same .. Len(t)} \cup {Append(Prefix(t, n), Torn) : n \in same .. Len(t) - 1}

\* Cut at a place that leaves at most one frame out, a file is whole, or less one
\* frame, or has a torn one in its place.
LEMMA Remains ==
  ASSUME NEW t \in Files, NEW n \in Nat, NEW e \in Nat, Ended(t, n, e),
         NEW same \in Nat, 1 <= same, same <= Len(t), Len(t) <= same + 1,
         NEW x \in Cuts(t, same)
  PROVE  /\ x \in Files /\ Len(x) >= same /\ Ended(x, n, e)
         /\ \A i \in 1 .. same : x[i] = t[i]
<1>1. Len(t) \in Nat
  BY Elements
<1>0. \/ \E k \in same .. Len(t) : x = Prefix(t, k)
      \/ \E k \in same .. Len(t) - 1 : x = Append(Prefix(t, k), Torn)
  BY DEF Cuts
<1>2. CASE \E k \in same .. Len(t) : x = Prefix(t, k)
  <2>1. PICK k \in same .. Len(t) : x = SubSeq(t, 1, k)
    BY <1>2 DEF Prefix
  <2>2. k \in Nat /\ 1 <= k /\ k <= Len(t) /\ same <= k
    BY <1>1, <2>1
  <2>3. x \in Files /\ Len(x) = k /\ \A i \in 1 .. k : x[i] = t[i]
    BY <2>1, <2>2, Cutting
  <2>4. Ended(x, n, e)
    BY <2>1, <2>2, EndedCut
  <2> QED
    BY <2>2, <2>3, <2>4
<1>3. CASE \E k \in same .. Len(t) - 1 : x = Append(Prefix(t, k), Torn)
  <2>1. PICK k \in same .. Len(t) - 1 : x = Append(SubSeq(t, 1, k), Torn)
    BY <1>3 DEF Prefix
  <2>2. k = same /\ k < Len(t)
    BY <1>1, <2>1
  <2>3. SubSeq(t, 1, k) \in Files /\ Len(SubSeq(t, 1, k)) = k /\ \A i \in 1 .. k : SubSeq(t, 1, k)[i] = t[i]
    BY <2>2, Cutting
  <2>4. x \in Files /\ Len(x) = k + 1 /\ \A i \in 1 .. k : x[i] = t[i]
    BY <2>1, <2>3, Frame, Growth
  <2>5. Whole(SubSeq(t, 1, k))
    BY <2>2, EndedCut
  <2>6. \A i \in 1 .. k : t[i] # Torn
    BY <2>3, <2>5 DEF Whole
  <2>7. Ended(x, n, e)
    BY <2>1, <2>2, <2>6, Frame, EndedGrow
  <2> QED
    BY <2>2, <2>4, <2>7
<1> QED
  BY <1>0, <1>2, <1>3

\* Whatever is left of a file has the frames that were seen and on the disk.
LEMMA Survived ==
  ASSUME WriterTyped, NEW i \in Inodes, NEW n \in Nat,
         Ended(contents[i], n, emits), Ended(synced[i], n, emits), Near(contents[i], synced[i]),
         NEW x \in Survivors(i)
  PROVE  /\ x \in Files /\ Ended(x, n, emits)
         /\ \A k \in Nat : k <= Len(contents[i]) /\ k <= Len(synced[i]) =>
              k <= Len(x) /\ (k >= 1 => x[k] = contents[i][k])
<1> DEFINE c == contents[i]
           s == synced[i]
           S == {k \in 0 .. Len(c) : k <= Len(s) /\ Prefix(c, k) = Prefix(s, k)}
           same == Max(S)
<1>1. c \in Files /\ s \in Files /\ Len(c) \in Nat /\ Len(s) \in Nat /\ emits \in Nat
  BY Elements DEF WriterTyped
<1>2. Ended(c, n, emits) /\ Ended(s, n, emits) /\ Near(c, s)
  OBVIOUS
<1>3. x \in Cuts(c, same) \cup Cuts(s, same)
  BY DEF Survivors, Cuts
<1> HIDE DEF c, s
<1>4. PICK m \in Nat : m <= Len(c) /\ m <= Len(s) /\ (m = Len(c) \/ m = Len(s))
  <2>1. CASE Len(c) <= Len(s)
    BY <2>1, <1>1
  <2>2. CASE Len(s) <= Len(c)
    BY <2>2, <1>1
  <2> QED
    BY <2>1, <2>2, <1>1
<1>5. m >= 1 /\ Len(c) <= m + 1 /\ Len(s) <= m + 1
  BY <1>1, <1>2, <1>4 DEF Ended, Near
<1>6. ASSUME NEW k \in 1 .. m PROVE c[k] = s[k]
  <2>1. k \in 1 .. Len(c) /\ k <= Len(s)
    BY <1>1, <1>4
  <2> QED
    BY <2>1, <1>2 DEF Near
<1>7. m \in S
  <2>1. SubSeq(c, 1, m) \in Files /\ Len(SubSeq(c, 1, m)) = m /\ \A k \in 1 .. m : SubSeq(c, 1, m)[k] = c[k]
    BY <1>1, <1>4, Cutting
  <2>2. SubSeq(s, 1, m) \in Files /\ Len(SubSeq(s, 1, m)) = m /\ \A k \in 1 .. m : SubSeq(s, 1, m)[k] = s[k]
    BY <1>1, <1>4, Cutting
  <2>3. SubSeq(c, 1, m) = SubSeq(s, 1, m)
    BY <2>1, <2>2, <1>6, SameFrames
  <2> QED
    BY <2>3, <1>1, <1>4 DEF Prefix
<1>8. S \subseteq 0 .. Len(c) /\ \A k \in S : k <= m
  BY <1>1, <1>4
<1>9. same = m
  <2>1. same \in S /\ \A k \in S : k <= same
    BY <1>1, <1>7, <1>8, MaxFacts
  <2>2. same <= m /\ m <= same /\ same \in 0 .. Len(c)
    BY <2>1, <1>7, <1>8
  <2> QED
    BY <2>2, <1>1
<1> HIDE DEF S, same
<1>10. PICK t \in {c, s} : x \in Cuts(t, m)
  BY <1>3, <1>9
<1>11. t \in Files /\ Ended(t, n, emits) /\ m <= Len(t) /\ Len(t) <= m + 1
  BY <1>1, <1>2, <1>4, <1>5
<1>12. x \in Files /\ Len(x) >= m /\ Ended(x, n, emits) /\ \A k \in 1 .. m : x[k] = t[k]
  BY <1>1, <1>5, <1>10, <1>11, Remains
<1>13. \A k \in 1 .. m : x[k] = c[k]
  BY <1>6, <1>12
<1>14. ASSUME NEW k \in Nat, k <= Len(c), k <= Len(s) PROVE k <= Len(x) /\ (k >= 1 => x[k] = c[k])
  BY <1>1, <1>4, <1>12, <1>13, <1>14, Elements
<1> QED
  BY <1>12, <1>14 DEF c, s

LEMMA NearGives ==
  ASSUME NEW f \in Files, NEW g \in Files, Near(f, g)
  PROVE  \A k \in Nat : k >= 1 /\ k <= Len(f) /\ k <= Len(g) => f[k] = g[k]
BY Elements DEF Near

-----------------------------------------------------------------------------
(* The directory *)

LEMMA InodesAre == Inodes \subseteq Nat /\ NoInode \notin Inodes
<1>1. IsFiniteSet(0 .. MaxEmits)
  BY FS_Interval, WriterAssumption
<1>2. IsFiniteSet((0 .. MaxEmits) \cup {-1})
  BY <1>1, FS_AddElement
<1>3. Cardinality((0 .. MaxEmits) \cup {-1}) \in Nat
  BY <1>2, FS_CardinalityType
<1>4. Cardinality(Names) \in Nat
  BY <1>3 DEF Names, Starts, Temp
<1> QED
  BY <1>4 DEF Inodes, NoInode

LEMMA StartsAre == Starts \subseteq Nat /\ Starts \subseteq Names /\ Temp \in Names /\ Temp \notin Starts
BY WriterAssumption DEF Starts, Names, Temp

LEMMA FileTyped ==
  ASSUME WriterTyped, NEW n \in Segments
  PROVE  /\ n \in Starts /\ n \in Nat /\ entries[n] \in Inodes /\ entries[n] # NoInode
         /\ Frames(n) \in Files /\ Synced(n) \in Files
         /\ Len(Frames(n)) \in Nat /\ Len(Synced(n)) \in Nat
<1>1. n \in Starts /\ n \in Nat /\ entries[n] \in Inodes /\ entries[n] # NoInode
  BY StartsAre DEF Segments, WriterTyped
<1>2. Frames(n) \in Files /\ Synced(n) \in Files
  BY <1>1 DEF Frames, Synced, WriterTyped
<1> QED
  BY <1>1, <1>2, Elements

LEMMA LastIsFinal ==
  ASSUME NEW n \in Segments
  PROVE  n = Last <=> Final(n)
<1>1. Segments \subseteq 0 .. MaxEmits /\ MaxEmits \in Nat
  BY WriterAssumption DEF Segments, Starts
<1>2. Last \in Segments /\ \A m \in Segments : m <= Last
  BY <1>1, MaxFacts DEF Last
<1>3. \A m \in Segments : m \in Nat
  BY <1>1
<1> QED
  BY <1>2, <1>3 DEF Final

-----------------------------------------------------------------------------
(* What the invariant says of a trail that is read *)

\* The frames that recovery reads of a segment are those that are not torn.
LEMMA ReadOf ==
  ASSUME WriterTyped, Trail, NEW n \in Segments
  PROVE  /\ Good(Frames(n)) \in Files /\ Count(n) \in Nat /\ Len(Good(Frames(n))) = Count(n) + 1
         /\ Count(n) + 1 <= Len(Frames(n)) /\ Len(Frames(n)) <= Count(n) + 2
         /\ \A k \in 1 .. Count(n) + 1 : Good(Frames(n))[k] = Frames(n)[k] /\ Frames(n)[k] # Torn
         /\ \A k \in 2 .. Count(n) + 1 : Placed(Frames(n)[k], n, k, emits)
         /\ IsTorn(n) <=> Count(n) + 1 # Len(Frames(n))
         /\ Count(n) + 1 # Len(Frames(n)) => Frames(n)[Len(Frames(n))] = Torn
         /\ ~Final(n) => Count(n) + 1 = Len(Frames(n)) /\ Count(n) >= 1
         /\ ~Refused(n)
<1> DEFINE f == Frames(n)
           g == Good(f)
<1>1. f \in Files /\ n \in Nat /\ Len(f) \in Nat /\ emits \in Nat
  BY FileTyped DEF WriterTyped
<1>2. Ended(f, n, emits) /\ (~Final(n) => Whole(f) /\ Len(f) >= 2)
  BY DEF Trail, Lawful
<1>3. /\ g \in Files /\ Len(g) >= 1 /\ Len(g) <= Len(f) /\ Len(f) <= Len(g) + 1
      /\ \A i \in 1 .. Len(g) : g[i] = f[i] /\ f[i] # Torn
      /\ Len(g) < Len(f) => f[Len(f)] = Torn
      /\ g = f <=> Whole(f)
      /\ g = f <=> Len(g) = Len(f)
  BY <1>1, <1>2, GoodPart
<1>4. Count(n) = Len(g) - 1 /\ (IsTorn(n) <=> g # f) /\ (HasHeader(n) <=> g # <<>>)
  BY DEF Count, IsTorn, HasHeader
<1>5. Len(g) \in Nat
  BY <1>3, Elements
<1>6. \A k \in 2 .. Len(g) : Placed(f[k], n, k, emits)
  <2> TAKE k \in 2 .. Len(g)
  <2>1. k \in 2 .. Len(f) /\ k \in 1 .. Len(g)
    BY <1>1, <1>3, <1>5
  <2> QED
    BY <2>1, <1>2, <1>3 DEF Ended
<1>7. ~Refused(n)
  <2>1. g # <<>>
    BY <1>3, Frame
  <2>2. n # Last => g = f
    BY <1>2, <1>3, LastIsFinal
  <2> QED
    BY <1>4, <2>1, <2>2 DEF Refused
<1> HIDE DEF f, g
<1>8. ~Final(n) => Len(g) = Len(f) /\ Len(f) >= 2
  BY <1>2, <1>3
<1>9. Count(n) \in Nat /\ Len(g) = Count(n) + 1
  BY <1>3, <1>4, <1>5
<1>10. IsTorn(n) <=> Len(g) # Len(f)
  BY <1>3, <1>4
<1> QED
  BY <1>1, <1>3, <1>6, <1>7, <1>8, <1>9, <1>10 DEF f, g

\* What is acknowledged is among the frames that recovery reads.
LEMMA StoredIsRead ==
  ASSUME WriterTyped, Trail, NEW a \in acks
  PROVE  \E n \in Segments : \E k \in 2 .. Count(n) + 1 :
           Frames(n)[k] = a /\ a.seq = n + k - 2 /\ a \in Readable(n)
<1>1. PICK n \in Segments, k \in Nat : Stored(a, n, k)
  BY DEF Trail, Safe
<1>2. a.seq \in Nat
  BY DEF Trail, Safe
<1>3. k \in 2 .. Len(Frames(n)) /\ Frames(n)[k] = a /\ a.seq = n + k - 2
  BY <1>1 DEF Stored
<1>4. a # Torn
  BY <1>2, Frame
<1>5. Count(n) \in Nat /\ Len(Frames(n)) \in Nat
  BY ReadOf, FileTyped
<1>6. k \in 2 .. Count(n) + 1
  BY <1>3, <1>4, <1>5, ReadOf
<1>7. k \in 1 .. Count(n) + 1
  BY <1>6, <1>5
<1>8. Good(Frames(n))[k] = a
  BY <1>3, <1>7, ReadOf
<1> QED
  BY <1>3, <1>6, <1>8 DEF Readable

LEMMA ReadsAcked == WriterTyped /\ Trail => AckedSurvives
BY StoredIsRead DEF AckedSurvives

LEMMA ReadsOn == WriterTyped /\ Trail => BootsAgain
BY ReadOf DEF BootsAgain

LEMMA ReadsInSequence == WriterTyped /\ Trail => InSequence
<1> SUFFICES ASSUME WriterTyped, Trail, NEW n \in Segments
             PROVE  /\ \A k \in 2 .. Count(n) + 1 : Good(Frames(n))[k].seq = n + k - 2
                    /\ n # Last => n + Count(n) \in Segments
                    /\ n = 0 \/ \E m \in Segments : m < n /\ m + Count(m) = n
  BY DEF InSequence
<1>1. n \in Nat /\ Count(n) \in Nat
  BY FileTyped, ReadOf
<1>2. ASSUME NEW k \in 2 .. Count(n) + 1 PROVE Good(Frames(n))[k].seq = n + k - 2
  <2>1. k \in 1 .. Count(n) + 1
    BY <1>1
  <2>2. Placed(Frames(n)[k], n, k, emits) /\ Good(Frames(n))[k] = Frames(n)[k]
    BY <2>1, ReadOf
  <2> QED
    BY <2>2 DEF Placed
<1>3. ASSUME n # Last PROVE n + Count(n) \in Segments
  <2>1. Count(n) + 1 = Len(Frames(n)) /\ n + Len(Frames(n)) - 1 \in Segments
    BY <1>3, LastIsFinal, ReadOf DEF Trail, Chained
  <2>2. n + Len(Frames(n)) - 1 = n + Count(n)
    BY <2>1, <1>1
  <2> QED
    BY <2>1, <2>2
<1>4. ASSUME n # 0 PROVE \E m \in Segments : m < n /\ m + Count(m) = n
  <2>1. PICK m \in Segments : m < n /\ n = m + Len(Frames(m)) - 1
    BY <1>4 DEF Trail, Chained
  <2>2. m \in Nat /\ Count(m) \in Nat
    BY FileTyped, ReadOf
  <2>3. ~Final(m)
    BY <2>1, <2>2, <1>1 DEF Final
  <2>4. Count(m) + 1 = Len(Frames(m))
    BY <2>3, ReadOf
  <2> QED
    BY <2>1, <2>2, <2>4, <1>1
<1> QED
  BY <1>2, <1>3, <1>4

-----------------------------------------------------------------------------
(* Steps that keep the trail *)

\* The segments are the same, and what is in the last one is of the trail again.
SameFiles ==
  /\ \A n \in Starts : entries'[n] = entries[n]
  /\ \A n \in Segments : ~Final(n) => Frames(n)' = Frames(n) /\ Synced(n)' = Synced(n)
  /\ emits <= emits'

LEMMA SameSegments ==
  ASSUME \A n \in Starts : entries'[n] = entries[n]
  PROVE  Segments' = Segments /\ \A n : Final(n)' <=> Final(n)
<1>1. Segments' = Segments
  BY DEF Segments
<1> QED
  BY <1>1 DEF Final

LEMMA LaterEnded ==
  ASSUME NEW f \in Files, NEW n \in Nat, NEW e \in Nat, NEW d \in Nat, e <= d, Ended(f, n, e)
  PROVE  Ended(f, n, d)
<1>1. Len(f) \in Nat /\ \A k \in 2 .. Len(f) : f[k] \in Records
  BY Elements
<1>2. ASSUME NEW k \in 2 .. Len(f) PROVE Placed(f[k], n, k, d) \/ (k = Len(f) /\ f[k] = Torn)
  <2>1. f[k].seq \in Int
    BY <1>1 DEF Records
  <2> QED
    BY <2>1 DEF Ended, Placed
<1> QED
  BY <1>2 DEF Ended

LEMMA StillLawful ==
  ASSUME WriterTyped, WriterTyped', Trail, SameFiles,
         \A n \in Segments : Final(n) =>
           Ended(Frames(n)', n, emits') /\ Ended(Synced(n)', n, emits') /\ Near(Frames(n)', Synced(n)')
  PROVE  Lawful' /\ Chained'
<1>1. Segments' = Segments /\ \A n : Final(n)' <=> Final(n)
  BY SameSegments DEF SameFiles
<1>2. ASSUME NEW n \in Segments, ~Final(n)
      PROVE  /\ Ended(Frames(n)', n, emits') /\ Ended(Synced(n)', n, emits') /\ Near(Frames(n)', Synced(n)')
             /\ Synced(n)' = Frames(n)' /\ Whole(Frames(n)') /\ Len(Frames(n)') >= 2
  <2>1. Frames(n)' = Frames(n) /\ Synced(n)' = Synced(n)
    BY <1>2 DEF SameFiles
  <2>2. /\ Ended(Frames(n), n, emits) /\ Ended(Synced(n), n, emits) /\ Near(Frames(n), Synced(n))
        /\ Synced(n) = Frames(n) /\ Whole(Frames(n)) /\ Len(Frames(n)) >= 2
    BY <1>2 DEF Trail, Lawful
  <2>3. Frames(n) \in Files /\ Synced(n) \in Files /\ n \in Nat
    BY FileTyped
  <2>4. emits \in Nat /\ emits' \in Nat /\ emits <= emits'
    BY DEF WriterTyped, SameFiles
  <2>5. Ended(Frames(n), n, emits') /\ Ended(Synced(n), n, emits')
    BY <2>2, <2>3, <2>4, LaterEnded
  <2> QED
    BY <2>1, <2>2, <2>5
<1>3. Lawful'
  BY <1>1, <1>2 DEF Lawful
<1>4. ASSUME NEW n \in Segments, ~Final(n) PROVE Frames(n)' = Frames(n)
  BY <1>4 DEF SameFiles
<1>5. ASSUME NEW n \in Segments
      PROVE  /\ ~Final(n) => n + Len(Frames(n)') - 1 \in Segments
             /\ \A m \in Segments : n < m => n + Len(Frames(n)') - 1 <= m
             /\ n # 0 => \E m \in Segments : m < n /\ n = m + Len(Frames(m)') - 1
  <2>1. \A m, k \in Segments : m < k => ~Final(m)
    <3> TAKE m, k \in Segments
    <3>1. m \in Nat /\ k \in Nat
      BY FileTyped
    <3> QED
      BY <3>1 DEF Final
  <2>2. /\ ~Final(n) => n + Len(Frames(n)) - 1 \in Segments
        /\ \A m \in Segments : n < m => n + Len(Frames(n)) - 1 <= m
        /\ n # 0 => \E m \in Segments : m < n /\ n = m + Len(Frames(m)) - 1
    BY DEF Trail, Chained
  <2> QED
    BY <1>4, <2>1, <2>2
<1>6. Chained'
  BY <1>1, <1>5 DEF Chained
<1> QED
  BY <1>3, <1>6

LEMMA StillPinned ==
  ASSUME WriterTyped, Trail, dir = "kept" => dir' = "kept",
         \A n \in Starts : entries'[n] = entries[n] /\ kept'[n] = kept[n],
         dir' # "kept" => entries' = entries /\ kept' = kept,
         \A n \in Segments : Frames(n) = <<Header>> /\ Synced(n) = <<Header>> =>
           kept[n] = entries[n] \/ (Frames(n)' = <<Header>> /\ Synced(n)' = <<Header>>)
  PROVE  Pinned'
<1>1. Segments' = Segments /\ \A n : Final(n)' <=> Final(n)
  BY SameSegments
<1>2. dir' # "kept" => \A n \in Names : entries'[n] = NoInode /\ kept'[n] = NoInode
  BY DEF Trail, Pinned
<1>3. ASSUME NEW n \in Starts
      PROVE  \/ kept'[n] = entries'[n]
             \/ /\ kept'[n] = NoInode /\ n \in Segments /\ Final(n)
                /\ Frames(n)' = <<Header>> /\ Synced(n)' = <<Header>>
  BY DEF Trail, Pinned
<1>4. \A m, n \in Segments : entries'[m] = entries'[n] => m = n
  BY FileTyped DEF Trail, Pinned
<1> QED
  BY <1>1, <1>2, <1>3, <1>4 DEF Pinned

\* The directory is on the disk as it is seen.
LEMMA AllPinned ==
  ASSUME WriterTyped, Trail, dir' = "kept",
         \A n \in Starts : entries'[n] = entries[n] /\ kept'[n] = entries[n]
  PROVE  Pinned'
<1>1. Segments' = Segments
  BY SameSegments
<1>2. \A m, n \in Segments : entries'[m] = entries'[n] => m = n
  BY FileTyped DEF Trail, Pinned
<1> QED
  BY <1>1, <1>2 DEF Pinned

LEMMA StillSafe ==
  ASSUME Trail, \A n \in Starts : entries'[n] = entries[n], acks' = acks,
         \A a \in acks : \A n \in Segments : \A k \in Nat : Stored(a, n, k) => Stored(a, n, k)'
  PROVE  Safe'
<1>1. Segments' = Segments
  BY SameSegments
<1> QED
  BY <1>1 DEF Trail, Safe

\* No file of the trail changes.
SameTrail ==
  /\ \A n \in Starts : entries'[n] = entries[n]
  /\ \A n \in Segments : Frames(n)' = Frames(n) /\ Synced(n)' = Synced(n)
  /\ acks' = acks /\ emits <= emits'

LEMMA Unmoved ==
  ASSUME WriterTyped, WriterTyped', Trail, SameTrail
  PROVE  Lawful' /\ Chained' /\ Safe'
<1>1. SameFiles
  BY DEF SameFiles, SameTrail
<1>2. ASSUME NEW n \in Segments
      PROVE  Ended(Frames(n)', n, emits') /\ Ended(Synced(n)', n, emits') /\ Near(Frames(n)', Synced(n)')
  <2>1. Frames(n)' = Frames(n) /\ Synced(n)' = Synced(n)
    BY DEF SameTrail
  <2>2. Ended(Frames(n), n, emits) /\ Ended(Synced(n), n, emits) /\ Near(Frames(n), Synced(n))
    BY DEF Trail, Lawful
  <2>3. Frames(n) \in Files /\ Synced(n) \in Files /\ n \in Nat
    BY FileTyped
  <2>4. emits \in Nat /\ emits' \in Nat /\ emits <= emits'
    BY DEF WriterTyped, SameTrail
  <2> QED
    BY <2>1, <2>2, <2>3, <2>4, LaterEnded
<1>3. Lawful' /\ Chained'
  BY <1>1, <1>2, StillLawful
<1>4. \A a \in acks : \A n \in Segments : \A k \in Nat : Stored(a, n, k) => Stored(a, n, k)'
  BY DEF Stored, SameTrail
<1>5. Safe'
  BY <1>4, StillSafe DEF SameTrail
<1> QED
  BY <1>3, <1>5

LEMMA Undisturbed ==
  ASSUME WriterTyped, WriterTyped', Trail, SameTrail, dir = "kept" => dir' = "kept",
         \A n \in Starts : kept'[n] = kept[n],
         dir' # "kept" => entries' = entries /\ kept' = kept
  PROVE  Trail'
<1>1. Pinned'
  BY StillPinned DEF SameTrail
<1> QED
  BY <1>1, Unmoved DEF Trail

\* Once the writer is down, or does nothing any more, only the trail matters.
LEMMA Stopped ==
  ASSUME pc' = "down" \/ (pc' = "poisoned" /\ dir' = "kept")
  PROVE  InProcess' /\ Started' /\ Newborn' /\ Scanning'
BY DEF InProcess, Started, Newborn, Scanning, Calm, Holding, Growing, Creating, Booting

-----------------------------------------------------------------------------
(* New *)

USE DEF writerVars, disk, memory, history

LEMMA InitHolds == WriterInit => WriterInv
<1> SUFFICES ASSUME WriterInit PROVE WriterInv
  OBVIOUS
<1> USE DEF WriterInit
<1>1. WriterTyped
  BY WriterAssumption, Frame DEF WriterTyped, Pcs
<1>2. Segments = {}
  BY StartsAre DEF Segments
<1>3. Pinned
  BY <1>2, StartsAre DEF Pinned
<1>4. Trail
  BY <1>2, <1>3 DEF Trail, Lawful, Chained, Safe
<1>5. InProcess /\ Started /\ Newborn /\ Scanning
  BY DEF InProcess, Started, Newborn, Scanning, Calm, Holding, Growing, Creating, Booting
<1> QED
  BY <1>1, <1>4, <1>5 DEF WriterInv

LEMMA BootHolds == Settles /\ WriterInv /\ Boot => WriterInv'
<1> SUFFICES ASSUME Settles, WriterInv, Boot PROVE WriterInv'
  OBVIOUS
<1>1. /\ entries' = entries /\ kept' = kept /\ contents' = contents /\ synced' = synced
      /\ acks' = acks /\ emits' = emits /\ cur' = 0 /\ seq' = 0 /\ active' = NoInode /\ size' = 0
      /\ \/ dir = "absent" /\ dir' = "seen" /\ pc' = "syncParent"
         \/ dir # "absent" /\ dir' = dir /\ pc' = "cleanTemps"
  BY DEF Boot, Forget
<1>2. dir # "seen" /\ entries = kept /\ contents = synced
  BY DEF Boot, Settled
<1>3. WriterTyped /\ Trail
  BY DEF WriterInv
<1>4. dir = "absent" \/ dir = "kept"
  BY <1>2, <1>3 DEF WriterTyped
<1>5. WriterTyped'
  BY <1>1, <1>3 DEF WriterTyped, Pcs, Booting
<1>6. SameTrail
  BY <1>1, <1>3 DEF SameTrail, Frames, Synced, WriterTyped
<1>7. Trail'
  BY <1>1, <1>3, <1>5, <1>6, Undisturbed
<1>8. \A n \in Segments' : Synced(n)' = Frames(n)'
  BY <1>1, <1>2 DEF Synced, Frames
<1>9. dir = "absent" => \A n \in Names : entries[n] = NoInode /\ kept[n] = NoInode
  BY <1>3 DEF Trail, Pinned
<1>10. InProcess'
  BY <1>1, <1>2, <1>4, <1>8, <1>9 DEF InProcess, Calm, Creating, Booting
<1>11. Started' /\ Newborn' /\ Scanning'
  BY <1>1 DEF Started, Newborn, Scanning, Holding, Growing, Creating
<1> QED
  BY <1>5, <1>7, <1>10, <1>11 DEF WriterInv

LEMMA SyncParentHolds == WriterInv /\ SyncParent => WriterInv'
<1> SUFFICES ASSUME WriterInv, SyncParent PROVE WriterInv'
  OBVIOUS
<1>1. /\ pc = "syncParent"
      /\ entries' = entries /\ kept' = kept /\ contents' = contents /\ synced' = synced
      /\ acks' = acks /\ emits' = emits /\ cur' = cur /\ seq' = seq /\ active' = active /\ size' = size
      /\ \/ dir' = "kept" /\ pc' = "cleanTemps"
         \/ dir' \in {"absent", "seen"} /\ pc' = "down"
  BY DEF SyncParent, Fault
<1>2. WriterTyped /\ Trail
  BY DEF WriterInv
<1>3. /\ \A n \in Names : entries[n] = NoInode /\ kept[n] = NoInode
      /\ seq = 0 /\ active = NoInode /\ size = 0 /\ cur = 0
  BY <1>1 DEF WriterInv, InProcess, Booting
<1>4. WriterTyped'
  BY <1>1, <1>2 DEF WriterTyped, Pcs, Booting
<1>5. SameTrail
  BY <1>1, <1>2 DEF SameTrail, Frames, Synced, WriterTyped
<1>6. Segments' = {}
  BY <1>1, <1>3, StartsAre DEF Segments
<1>7. Pinned'
  BY <1>1, <1>3, <1>6, StartsAre DEF Pinned
<1>8. Trail'
  BY <1>2, <1>4, <1>5, <1>7, Unmoved DEF Trail
<1>9. CASE pc' = "down"
  BY <1>4, <1>8, <1>9, Stopped DEF WriterInv
<1>10. CASE dir' = "kept" /\ pc' = "cleanTemps"
  <2>1. InProcess'
    BY <1>1, <1>3, <1>6, <1>10, StartsAre DEF InProcess, Calm, Creating, Booting
  <2>2. Started' /\ Newborn' /\ Scanning'
    BY <1>10 DEF Started, Newborn, Scanning, Holding, Growing, Creating
  <2> QED
    BY <1>4, <1>8, <2>1, <2>2 DEF WriterInv
<1> QED
  BY <1>1, <1>9, <1>10

\* The scan starts at the segment of the first record, if there is one.
LEMMA ScanStarts == WriterTyped /\ Trail /\ seq = 0 /\ active = NoInode => Scanning
<1> SUFFICES ASSUME WriterTyped, Trail, seq = 0, active = NoInode PROVE Scanning
  OBVIOUS
<1>1. ASSUME NEW n \in Segments PROVE n \in Unread /\ n >= seq
  <2>1. \A m \in Segments : entries[m] # active
    BY FileTyped
  <2> QED
    BY <2>1, FileTyped DEF Unread
<1>2. ASSUME Segments # {} PROVE 0 \in Segments
  <2>1. PICK n \in Segments : \A m \in Segments : n <= m
    <3>1. Segments \subseteq Nat
      BY FileTyped
    <3> QED
      BY <1>2, <3>1, LeastNat
  <2>2. n = 0 \/ \E m \in Segments : m < n
    BY DEF Trail, Chained
  <2>3. \A m \in Segments : m \in Nat /\ n \in Nat
    BY FileTyped
  <2> QED
    BY <2>1, <2>2, <2>3
<1> QED
  BY <1>1, <1>2 DEF Scanning

LEMMA CleanTempsHolds == WriterInv /\ CleanTemps => WriterInv'
<1> SUFFICES ASSUME WriterInv, CleanTemps PROVE WriterInv'
  OBVIOUS
<1>1. /\ pc = "cleanTemps" /\ entries' = [entries EXCEPT ![Temp] = NoInode]
      /\ dir' = dir /\ kept' = kept /\ contents' = contents /\ synced' = synced
      /\ acks' = acks /\ emits' = emits /\ cur' = cur /\ seq' = seq /\ active' = active /\ size' = size
      /\ pc' \in {"scan", "syncClean"}
  BY DEF CleanTemps
<1>2. WriterTyped /\ Trail
  BY DEF WriterInv
<1>3. /\ dir = "kept" /\ seq = 0 /\ active = NoInode /\ size = 0 /\ cur = 0
      /\ \A n \in Starts : kept[n] = entries[n]
      /\ \A n \in Segments : Synced(n) = Frames(n)
  BY <1>1 DEF WriterInv, InProcess, Booting, Calm, Creating
<1>4. \A n \in Starts : entries'[n] = entries[n]
  BY <1>1, <1>2, StartsAre DEF WriterTyped
<1>5. WriterTyped'
  BY <1>1, <1>2 DEF WriterTyped, Pcs, Booting
<1>6. \A n \in Segments : Frames(n)' = Frames(n) /\ Synced(n)' = Synced(n)
  BY <1>1, <1>2, <1>4, FileTyped DEF Frames, Synced
<1>7. SameTrail
  BY <1>1, <1>2, <1>4, <1>6 DEF SameTrail, WriterTyped
<1>8. Trail'
  BY <1>1, <1>2, <1>3, <1>5, <1>7, Undisturbed
<1>9. Segments' = Segments
  BY <1>4, SameSegments
<1>10. InProcess'
  BY <1>1, <1>3, <1>4, <1>6, <1>9 DEF InProcess, Calm, Creating, Booting
<1>11. Started' /\ Newborn'
  BY <1>1 DEF Started, Newborn, Holding, Growing, Creating
<1>12. Scanning'
  <2>1. (WriterTyped /\ Trail /\ seq = 0 /\ active = NoInode => Scanning)'
    BY ScanStarts, PTL
  <2> QED
    BY <1>1, <1>3, <1>5, <1>8, <2>1
<1> QED
  BY <1>5, <1>8, <1>10, <1>11, <1>12 DEF WriterInv

LEMMA SyncCleanHolds == WriterInv /\ SyncClean => WriterInv'
<1> SUFFICES ASSUME WriterInv, SyncClean PROVE WriterInv'
  OBVIOUS
<1>1. /\ pc = "syncClean" /\ kept' = entries
      /\ dir' = dir /\ entries' = entries /\ contents' = contents /\ synced' = synced
      /\ acks' = acks /\ emits' = emits /\ cur' = cur /\ seq' = seq /\ active' = active /\ size' = size
      /\ pc' = "scan"
  BY DEF SyncClean
<1>2. WriterTyped /\ Trail
  BY DEF WriterInv
<1>3. /\ dir = "kept" /\ seq = 0 /\ active = NoInode /\ size = 0 /\ cur = 0
      /\ \A n \in Segments : Synced(n) = Frames(n)
  BY <1>1 DEF WriterInv, InProcess, Booting, Calm, Creating
<1>4. WriterTyped'
  BY <1>1, <1>2 DEF WriterTyped, Pcs, Booting
<1>5. SameTrail
  BY <1>1, <1>2 DEF SameTrail, Frames, Synced, WriterTyped
<1>6. Trail'
  <2>1. Pinned'
    BY <1>1, <1>2, <1>3, AllPinned
  <2> QED
    BY <1>2, <1>4, <1>5, <2>1, Unmoved DEF Trail
<1>7. Segments' = Segments
  BY <1>1, SameSegments
<1>8. InProcess'
  BY <1>1, <1>3, <1>5, <1>7 DEF InProcess, Calm, Creating, Booting, SameTrail
<1>9. Started' /\ Newborn'
  BY <1>1 DEF Started, Newborn, Holding, Growing, Creating
<1>10. (WriterTyped /\ Trail /\ seq = 0 /\ active = NoInode => Scanning)'
  BY ScanStarts, PTL
<1> QED
  BY <1>1, <1>3, <1>4, <1>6, <1>8, <1>9, <1>10 DEF WriterInv

LEMMA BootFailsHolds == WriterInv /\ BootFails => WriterInv'
<1> SUFFICES ASSUME WriterInv, BootFails PROVE WriterInv'
  OBVIOUS
<1>1. /\ pc' = "down"
      /\ dir' = dir /\ entries' = entries /\ kept' = kept /\ contents' = contents /\ synced' = synced
      /\ acks' = acks /\ emits' = emits /\ cur' = cur /\ seq' = seq /\ active' = active /\ size' = size
  BY DEF BootFails
<1>2. WriterTyped /\ Trail
  BY DEF WriterInv
<1>3. WriterTyped'
  BY <1>1, <1>2 DEF WriterTyped, Pcs
<1>4. SameTrail
  BY <1>1, <1>2 DEF SameTrail, Frames, Synced, WriterTyped
<1>5. Trail'
  BY <1>1, <1>2, <1>3, <1>4, Undisturbed
<1> QED
  BY <1>1, <1>3, <1>5, Stopped DEF WriterInv

\* Whatever is acknowledged lies before the end of the last segment that recovery reads.
LEMMA ScanCounts ==
  ASSUME WriterTyped, Trail, NEW n \in Segments, Final(n)
  PROVE  n + Count(n) <= emits /\ \A a \in acks : a.seq < n + Count(n)
<1>1. n \in Nat /\ Count(n) \in Nat /\ emits \in Nat
  BY FileTyped, ReadOf DEF WriterTyped
<1>2. ASSUME NEW a \in acks PROVE a.seq < n + Count(n)
  <2>1. PICK m \in Segments : \E k \in 2 .. Count(m) + 1 : a.seq = m + k - 2
    BY StoredIsRead
  <2>2. PICK k \in 2 .. Count(m) + 1 : a.seq = m + k - 2
    BY <2>1
  <2>3. m \in Nat /\ Count(m) \in Nat /\ Len(Frames(m)) \in Nat
    BY FileTyped, ReadOf
  <2>4. CASE m = n
    BY <2>2, <2>3, <2>4
  <2>5. CASE m # n
    <3>1. m < n
      BY <2>3, <2>5, <1>1 DEF Final
    <3>2. m + Len(Frames(m)) - 1 <= n
      BY <3>1 DEF Trail, Chained
    <3>3. Count(m) + 1 <= Len(Frames(m))
      BY ReadOf
    <3>4. a.seq < m + Count(m)
      BY <2>2, <2>3
    <3>5. m + Count(m) <= n
      BY <2>3, <3>2, <3>3, <1>1
    <3> QED
      BY <3>4, <3>5, <2>2, <2>3, <1>1
  <2> QED
    BY <2>4, <2>5
<1>3. CASE Count(n) = 0
  <2>1. CASE n = 0
    BY <2>1, <1>1, <1>2, <1>3
  <2>2. CASE n # 0
    <3>1. PICK m \in Segments : m < n /\ n = m + Len(Frames(m)) - 1
      BY <2>2 DEF Trail, Chained
    <3>2. m \in Nat /\ Count(m) \in Nat
      BY FileTyped, ReadOf
    <3>3. ~Final(m)
      BY <3>1, <3>2, <1>1 DEF Final
    <3>4. Count(m) + 1 = Len(Frames(m)) /\ Count(m) >= 1
      BY <3>3, ReadOf
    <3>5. Count(m) + 1 \in 2 .. Count(m) + 1
      BY <3>2, <3>4
    <3>6. Placed(Frames(m)[Count(m) + 1], m, Count(m) + 1, emits)
      BY <3>5, ReadOf
    <3>7. m + (Count(m) + 1) - 2 < emits
      BY <3>6 DEF Placed
    <3>8. n = m + Count(m)
      BY <3>1, <3>2, <3>4
    <3>9. n <= emits
      BY <3>2, <3>7, <3>8, <1>1
    <3>10. n + Count(n) <= emits
      BY <3>9, <1>1, <1>3
    <3> QED
      BY <3>10, <1>2
  <2> QED
    BY <2>1, <2>2
<1>4. CASE Count(n) # 0
  <2>1. Count(n) + 1 \in 2 .. Count(n) + 1
    BY <1>1, <1>4
  <2>2. Placed(Frames(n)[Count(n) + 1], n, Count(n) + 1, emits)
    BY <2>1, ReadOf
  <2>3. n + (Count(n) + 1) - 2 < emits
    BY <2>2 DEF Placed
  <2> QED
    BY <2>3, <1>1, <1>2
<1> QED
  BY <1>1, <1>2, <1>3, <1>4

LEMMA ScanHolds == WriterInv /\ Scan => WriterInv'
<1> SUFFICES ASSUME WriterInv, Scan PROVE WriterInv'
  OBVIOUS
<1>1. /\ pc = "scan"
      /\ dir' = dir /\ entries' = entries /\ kept' = kept /\ contents' = contents /\ synced' = synced
      /\ acks' = acks /\ emits' = emits /\ cur' = cur
  BY DEF Scan
<1>2. WriterTyped /\ Trail
  BY DEF WriterInv
<1>3. /\ dir = "kept" /\ cur = 0
      /\ \A n \in Starts : kept[n] = entries[n]
      /\ \A n \in Segments : Synced(n) = Frames(n)
  BY <1>1 DEF WriterInv, InProcess, Booting, Calm, Creating
<1>4. SameTrail
  BY <1>1, <1>2 DEF SameTrail, Frames, Synced, WriterTyped
<1>5. Segments' = Segments /\ \A n : Final(n)' <=> Final(n)
  BY <1>1, SameSegments
<1>6. WriterTyped' => Trail'
  BY <1>1, <1>2, <1>4, Undisturbed
<1>7. pc' # "syncParent" /\ pc' \notin {"cleanTemps", "syncClean"} => InProcess'
  BY <1>1, <1>3, <1>4, <1>5 DEF InProcess, SameTrail
<1>8. CASE Segments = {}
  <2>1. pc' = "create" /\ seq' = 0 /\ active' = active /\ size' = size
    BY <1>1, <1>8 DEF Scan, WriterInv, Scanning
  <2>2. WriterTyped'
    BY <1>1, <1>2, <2>1 DEF WriterTyped, Pcs, Creating
  <2>3. acks = {}
    BY <1>2, <1>8 DEF Trail, Safe
  <2>4. Started' /\ Newborn' /\ Scanning'
    BY <1>1, <1>3, <1>5, <1>8, <2>1, <2>3 DEF Started, Newborn, Scanning, Holding, Growing, Creating
  <2> QED
    BY <1>6, <1>7, <2>1, <2>2, <2>4 DEF WriterInv
<1>9. CASE Segments # {}
  <2>1. seq \in Segments /\ \A n \in Segments : n \in Unread <=> n >= seq
    BY <1>1, <1>9 DEF WriterInv, Scanning
  <2>2. PICK n \in Segments : n = seq
    BY <2>1
  <2>3. n \in Nat /\ entries[n] \in Inodes /\ Count(n) \in Nat /\ Len(Frames(n)) \in Nat
    BY <1>2, FileTyped, ReadOf
  <2>4. Min(Unread) = n
    <3>1. Unread \subseteq Segments /\ Segments \subseteq Nat
      BY <1>2, FileTyped DEF Unread
    <3>2. n \in Unread
      BY <2>1, <2>2, <2>3
    <3>3. Min(Unread) \in Unread /\ \A m \in Unread : Min(Unread) <= m
      BY <3>1, <3>2, MinFacts
    <3>4. Min(Unread) \in Nat /\ Min(Unread) <= n /\ Min(Unread) >= n
      BY <3>1, <3>2, <3>3, <2>1, <2>2
    <3> QED
      BY <3>4, <2>3
  <2>5. /\ seq' = n + Count(n) /\ active' = entries[n] /\ size' = Count(n) + 1
        /\ pc' = IF n # Last THEN "scan" ELSE IF IsTorn(n) THEN "truncate" ELSE "idle"
    <3>1. ~Refused(n)
      BY <1>2, ReadOf
    <3> QED
      BY <1>9, <2>2, <2>4, <3>1 DEF Scan
  <2>6. CASE n # Last
    <3>1. ~Final(n)
      BY <2>6, LastIsFinal
    <3>2. Count(n) + 1 = Len(Frames(n)) /\ Count(n) >= 1
      BY <3>1, <1>2, ReadOf
    <3>3. n + Count(n) \in Segments
      <4>1. n + Len(Frames(n)) - 1 \in Segments
        BY <3>1, <1>2 DEF Trail, Chained
      <4>2. n + Len(Frames(n)) - 1 = n + Count(n)
        BY <2>3, <3>2
      <4> QED
        BY <4>1, <4>2
    <3>4. n + Count(n) <= emits
      <4>1. Count(n) + 1 \in 2 .. Count(n) + 1
        BY <2>3, <3>2
      <4>2. Placed(Frames(n)[Count(n) + 1], n, Count(n) + 1, emits)
        BY <4>1, <1>2, ReadOf
      <4>3. n + (Count(n) + 1) - 2 < emits /\ emits \in Nat
        BY <4>2, <1>2 DEF Placed, WriterTyped
      <4> QED
        BY <4>3, <2>3
    <3>5. WriterTyped'
      BY <1>1, <1>2, <2>3, <2>5, <2>6, <3>4 DEF WriterTyped, Pcs, Booting
    <3>6. ASSUME NEW p \in Segments PROVE p \in Unread' <=> p >= n + Count(n)
      <4>1. p \in Unread' <=> p > n
        <5>1. \A m \in Segments : entries[m] = entries[n] => m = n
          BY <1>2 DEF Trail, Pinned
        <5> QED
          BY <1>1, <1>5, <2>5, <5>1 DEF Unread
      <4>2. p > n => n + Len(Frames(n)) - 1 <= p
        BY <1>2 DEF Trail, Chained
      <4>3. p \in Nat
        BY <1>2, FileTyped
      <4>4. p > n => n + Count(n) <= p
        BY <4>2, <4>3, <2>3, <3>2
      <4>5. p >= n + Count(n) => p > n
        BY <4>3, <2>3, <3>2
      <4> QED
        BY <4>1, <4>4, <4>5, <4>3, <2>3
    <3>7. Scanning'
      BY <1>5, <1>9, <2>5, <3>3, <3>6 DEF Scanning
    <3>8. pc' = "scan"
      BY <2>5, <2>6
    <3>9. Started' /\ Newborn'
      BY <3>8 DEF Started, Newborn, Holding, Growing, Creating
    <3> QED
      BY <1>6, <1>7, <3>5, <3>7, <3>8, <3>9 DEF WriterInv
  <2>7. CASE n = Last
    <3>1. Final(n)
      BY <2>7, LastIsFinal
    <3>2. n + Count(n) <= emits /\ \A a \in acks : a.seq < n + Count(n)
      BY <1>2, <3>1, ScanCounts
    <3>3. pc' \in {"truncate", "idle"} /\ (pc' = "idle" => ~IsTorn(n))
      BY <2>5, <2>7
    <3>4. WriterTyped'
      BY <1>1, <1>2, <2>3, <2>5, <3>2, <3>3 DEF WriterTyped, Pcs, Booting
    <3>5. Frames(n)' = Frames(n) /\ Synced(n)' = Frames(n)
      BY <1>3, <1>4 DEF SameTrail
    <3>6. Held(n)'
      <4>1. /\ Count(n) + 1 <= Len(Frames(n)) /\ Len(Frames(n)) <= Count(n) + 2
            /\ \A k \in 1 .. Count(n) + 1 : Frames(n)[k] # Torn
            /\ IsTorn(n) <=> Count(n) + 1 # Len(Frames(n))
        BY <1>2, ReadOf
      <4>2. n \in Segments' /\ Final(n)' /\ active' = entries'[n] /\ seq' = n + size' - 1 /\ size' >= 1
        BY <1>1, <1>5, <2>3, <2>5, <3>1
      <4>3. size' <= Len(Frames(n)') /\ size' <= Len(Synced(n)')
        BY <2>5, <3>5, <4>1
      <4>4. Len(Frames(n)') <= size' + 1 /\ Len(Synced(n)') <= size' + 1
        BY <2>3, <2>5, <3>5, <4>1
      <4>5. \A k \in 1 .. size' : Frames(n)'[k] # Torn
        BY <2>5, <3>5, <4>1
      <4>6. pc' = "idle" => Len(Frames(n)') = size'
        BY <2>5, <3>3, <3>5, <4>1
      <4> QED
        BY <3>3, <4>2, <4>3, <4>4, <4>5, <4>6 DEF Held, Creating
    <3>7. n \in Starts
      BY <1>2, FileTyped
    <3>8. \A a \in acks' : a.seq < seq'
      BY <1>1, <2>5, <3>2
    <3>9. Started' /\ Newborn' /\ Scanning'
      BY <3>3, <3>6, <3>7, <3>8 DEF Started, Newborn, Scanning, Holding, Growing, Creating
    <3> QED
      BY <1>6, <1>7, <3>3, <3>4, <3>9 DEF WriterInv
  <2> QED
    BY <2>6, <2>7
<1> QED
  BY <1>8, <1>9

-----------------------------------------------------------------------------
(* Steps in the active segment *)

LEMMA HeldTyped ==
  ASSUME WriterTyped, NEW h \in Starts, Held(h)
  PROVE  /\ h \in Segments /\ h \in Nat /\ active \in Inodes /\ active = entries[h] /\ size \in Nat /\ size >= 1
         /\ contents[active] \in Files /\ synced[active] \in Files /\ Frames(h) = contents[active]
         /\ Synced(h) = synced[active]
         /\ Len(contents[active]) \in Nat /\ Len(synced[active]) \in Nat
         /\ size <= Len(contents[active]) /\ size <= Len(synced[active])
<1>1. h \in Segments /\ active = entries[h] /\ size >= 1 /\ size <= Len(Frames(h)) /\ size <= Len(Synced(h))
  BY DEF Held
<1>2. /\ h \in Nat /\ entries[h] \in Inodes /\ Frames(h) \in Files /\ Synced(h) \in Files
      /\ Len(Frames(h)) \in Nat /\ Len(Synced(h)) \in Nat
  BY <1>1, FileTyped
<1>3. Frames(h) = contents[active] /\ Synced(h) = synced[active]
  BY <1>1 DEF Frames, Synced
<1> QED
  BY <1>1, <1>2, <1>3 DEF WriterTyped

\* Only the active segment is written, and what it had is still there.
Touched(h) ==
  /\ entries' = entries /\ kept' = kept /\ dir' = dir /\ emits' = emits
  /\ \A i \in Inodes : i # active => contents'[i] = contents[i] /\ synced'[i] = synced[i]
  /\ Ended(contents'[active], h, emits) /\ Ended(synced'[active], h, emits)
  /\ Near(contents'[active], synced'[active])
  /\ size <= Len(contents'[active]) /\ size <= Len(synced'[active])
  /\ \A k \in 1 .. size : contents'[active][k] = contents[active][k]

LEMMA TouchedKeeps ==
  ASSUME WriterInv, WriterTyped', NEW h \in Starts, Held(h), pc \in Holding, Touched(h)
  PROVE  /\ Pinned' /\ Lawful' /\ Chained' /\ (acks' = acks => Trail')
         /\ \A a \in acks : a.seq \in Nat /\ \E n \in Segments : \E k \in Nat : Stored(a, n, k)'
         /\ Segments' = Segments /\ (\A n : Final(n)' <=> Final(n))
         /\ Frames(h)' = contents'[active] /\ Synced(h)' = synced'[active] /\ dir' = "kept"
         /\ \A n \in Starts : kept'[n] = entries'[n]
         /\ \A n \in Segments : n # h => Frames(n)' = Frames(n) /\ Synced(n)' = Synced(n)
<1>1. WriterTyped /\ Trail
  BY DEF WriterInv
<1>2. /\ h \in Segments /\ h \in Nat /\ active \in Inodes /\ active = entries[h] /\ size \in Nat /\ size >= 1
      /\ Final(h)
  BY <1>1, HeldTyped DEF Held
<1>3. dir = "kept" /\ \A n \in Starts : kept[n] = entries[n]
  BY DEF WriterInv, InProcess, Holding
<1>4. Segments' = Segments /\ \A n : Final(n)' <=> Final(n)
  BY SameSegments DEF Touched
<1>5. Frames(h)' = contents'[active] /\ Synced(h)' = synced'[active]
  BY <1>2 DEF Frames, Synced, Touched
<1>6. ASSUME NEW n \in Segments, n # h PROVE Frames(n)' = Frames(n) /\ Synced(n)' = Synced(n)
  <2>1. entries[n] \in Inodes /\ entries[n] # active
    BY <1>1, <1>2, <1>6, FileTyped DEF Trail, Pinned
  <2> QED
    BY <2>1 DEF Frames, Synced, Touched
<1>7. \A n \in Segments : Final(n) => n = h
  <2> TAKE n \in Segments
  <2>1. n \in Nat
    BY <1>1, FileTyped
  <2> QED
    BY <1>2, <2>1 DEF Final
<1>8. SameFiles
  BY <1>1, <1>2, <1>6 DEF SameFiles, Touched, WriterTyped
<1>9. Lawful' /\ Chained'
  BY <1>1, <1>5, <1>7, <1>8, StillLawful DEF Touched
<1>10. Pinned'
  BY <1>1, <1>3, AllPinned DEF Touched
<1>11. ASSUME NEW a \in acks, NEW n \in Segments, NEW k \in Nat, Stored(a, n, k) PROVE Stored(a, n, k)'
  <2>1. CASE n # h
    BY <1>6, <1>11, <2>1 DEF Stored
  <2>2. CASE n = h
    <3>1. a.seq < seq /\ seq = h + size - 1
      BY DEF WriterInv, Started, Held
    <3>2. k >= 2 /\ Frames(h)[k] = a /\ a.seq = h + k - 2
      BY <1>11, <2>2 DEF Stored
    <3>3. k \in 1 .. size
      BY <3>1, <3>2, <1>2
    <3>4. contents'[active][k] = a
      BY <3>2, <3>3, <1>2 DEF Touched, Frames
    <3>5. Len(contents'[active]) \in Nat /\ Len(synced'[active]) \in Nat
      <4>1. contents'[active] \in Files /\ synced'[active] \in Files
        BY <1>2 DEF WriterTyped
      <4> QED
        BY <4>1, Elements
    <3>6. k \in 2 .. Len(contents'[active]) /\ k <= Len(synced'[active])
      BY <1>2, <3>2, <3>3, <3>5 DEF Touched
    <3> QED
      BY <1>5, <2>2, <3>2, <3>4, <3>6 DEF Stored
  <2> QED
    BY <2>1, <2>2
<1>12. \A a \in acks : a.seq \in Nat /\ \E n \in Segments : \E k \in Nat : Stored(a, n, k)'
  BY <1>1, <1>11 DEF Trail, Safe
<1>13. acks' = acks => Safe'
  BY <1>4, <1>12 DEF Safe
<1> QED
  BY <1>3, <1>4, <1>5, <1>6, <1>9, <1>10, <1>12, <1>13 DEF Trail, Touched

\* The file after a frame was written at the end of what the writer holds of it.
LEMMA AppendedIs ==
  ASSUME WriterInv, NEW h \in Starts, Held(h), pc = "write", NEW r \in Records,
         r = Torn \/ r = [id |-> cur, seq |-> seq]
  PROVE  LET f == Appended(r)[active] IN
           /\ Appended(r) \in [Inodes -> Files]
           /\ \A i \in Inodes : i # active => Appended(r)[i] = contents[i]
           /\ Ended(f, h, emits) /\ Ended(synced[active], h, emits) /\ Near(f, synced[active])
           /\ Len(f) = size + 1 /\ Len(synced[active]) = size /\ f[size + 1] = r
           /\ \A k \in 1 .. size : f[k] = contents[active][k]
<1> DEFINE c == contents[active]
           g == SubSeq(c, 1, size)
           f == Append(g, r)
<1>1. WriterTyped /\ Trail
  BY DEF WriterInv
<1>2. /\ h \in Segments /\ h \in Nat /\ active \in Inodes /\ size \in Nat /\ size >= 1 /\ c \in Files
      /\ size <= Len(c) /\ Frames(h) = c /\ Synced(h) = synced[active]
  BY <1>1, HeldTyped
<1>3. Len(c) = size /\ synced[active] = c
  BY <1>2 DEF WriterInv, InProcess, Calm, Held
<1>4. Ended(c, h, emits) /\ \A k \in 1 .. size : c[k] # Torn
  BY <1>1, <1>2 DEF Trail, Lawful, Held
<1>5. seq = h + size - 1 /\ seq < emits /\ emits \in Nat /\ cur \in Nat
  BY <1>1 DEF WriterInv, Started, Held, WriterTyped
<1>6. g \in Files /\ Len(g) = size /\ \A k \in 1 .. size : g[k] = c[k]
  BY <1>2, Cutting
<1>7. f \in Files /\ Len(f) = size + 1 /\ f[size + 1] = r /\ \A k \in 1 .. size : f[k] = c[k]
  <2>1. f \in Files /\ Len(f) = Len(g) + 1 /\ f[Len(g) + 1] = r /\ \A k \in 1 .. Len(g) : f[k] = g[k]
    BY <1>6, Growth
  <2> QED
    BY <2>1, <1>6
<1>8. Appended(r)[active] = f /\ \A i \in Inodes : i # active => Appended(r)[i] = contents[i]
  BY <1>1, <1>2 DEF Appended, WriterTyped
<1>9. Appended(r) \in [Inodes -> Files]
  BY <1>1, <1>2, <1>7 DEF Appended, WriterTyped
<1>10. Ended(f, h, emits)
  <2>1. r = Torn \/ Placed(r, h, size + 1, emits)
    BY <1>2, <1>5 DEF Placed
  <2> QED
    BY <1>2, <1>4, <1>5, <2>1, EndedGrow
<1>11. Near(f, c)
  BY <1>2, <1>3, <1>6, NearGrow
<1> HIDE DEF f
<1> QED
  BY <1>3, <1>4, <1>7, <1>8, <1>9, <1>10, <1>11

Trimmed == [contents EXCEPT ![active] = SubSeq(@, 1, size)]

\* The file after it was cut to what the writer holds of it.
LEMMA TrimmedIs ==
  ASSUME WriterInv, NEW h \in Starts, Held(h)
  PROVE  LET f == Trimmed[active] IN
           /\ Trimmed \in [Inodes -> Files]
           /\ \A i \in Inodes : i # active => Trimmed[i] = contents[i]
           /\ Ended(f, h, emits) /\ Ended(synced[active], h, emits) /\ Near(f, synced[active]) /\ Near(f, f)
           /\ Len(f) = size /\ \A k \in 1 .. size : f[k] = contents[active][k]
<1> DEFINE c == contents[active]
           f == SubSeq(c, 1, size)
<1>1. WriterTyped /\ Trail
  BY DEF WriterInv
<1>2. /\ h \in Segments /\ h \in Nat /\ active \in Inodes /\ size \in Nat /\ size >= 1 /\ c \in Files
      /\ synced[active] \in Files /\ Len(c) \in Nat /\ Len(synced[active]) \in Nat
      /\ size <= Len(c) /\ size <= Len(synced[active]) /\ Frames(h) = c /\ Synced(h) = synced[active]
  BY <1>1, HeldTyped
<1>3. Ended(c, h, emits) /\ Ended(synced[active], h, emits) /\ Near(c, synced[active]) /\ emits \in Nat
  BY <1>1, <1>2 DEF Trail, Lawful, WriterTyped
<1>4. f \in Files /\ Len(f) = size /\ \A k \in 1 .. size : f[k] = c[k]
  BY <1>2, Cutting
<1>5. Len(synced[active]) <= size + 1
  BY <1>2 DEF Held
<1>6. \A k \in 1 .. size : c[k] = synced[active][k]
  <2> TAKE k \in 1 .. size
  <2>1. k \in Nat /\ k >= 1 /\ k <= Len(c) /\ k <= Len(synced[active])
    BY <1>2
  <2> QED
    BY <2>1, <1>2, <1>3, NearGives
<1>7. Near(f, synced[active])
  BY <1>2, <1>5, <1>6, NearCut
<1>8. Ended(f, h, emits) /\ Near(f, f)
  BY <1>2, <1>3, <1>4, EndedCut, NearSame
<1>9. Trimmed[active] = f /\ \A i \in Inodes : i # active => Trimmed[i] = contents[i]
  BY <1>1, <1>2 DEF Trimmed, WriterTyped
<1>10. Trimmed \in [Inodes -> Files]
  BY <1>1, <1>2, <1>4 DEF Trimmed, WriterTyped
<1> HIDE DEF f
<1> QED
  BY <1>3, <1>4, <1>7, <1>8, <1>9, <1>10

LEMMA TruncateHolds == WriterInv /\ Truncate => WriterInv'
<1> SUFFICES ASSUME WriterInv, Truncate PROVE WriterInv'
  OBVIOUS
<1>1. /\ pc = "truncate" /\ pc' = "syncTruncate" /\ contents' = Trimmed
      /\ dir' = dir /\ entries' = entries /\ kept' = kept /\ synced' = synced
      /\ acks' = acks /\ emits' = emits /\ cur' = cur /\ seq' = seq /\ active' = active /\ size' = size
  BY DEF Truncate, Trimmed
<1>2. WriterTyped
  BY DEF WriterInv
<1>3. PICK h \in Starts : Held(h)
  BY <1>1 DEF WriterInv, Started, Holding
<1>4. /\ h \in Segments /\ active \in Inodes /\ active = entries[h] /\ size \in Nat /\ size >= 1
      /\ size <= Len(synced[active])
  BY <1>2, <1>3, HeldTyped
<1>5. /\ contents' \in [Inodes -> Files]
      /\ \A i \in Inodes : i # active => contents'[i] = contents[i]
      /\ Ended(contents'[active], h, emits) /\ Ended(synced[active], h, emits)
      /\ Near(contents'[active], synced[active]) /\ Len(contents'[active]) = size
      /\ \A k \in 1 .. size : contents'[active][k] = contents[active][k]
  BY <1>1, <1>3, TrimmedIs
<1>6. WriterTyped'
  BY <1>1, <1>2, <1>5 DEF WriterTyped, Pcs, Booting
<1>7. Touched(h)
  BY <1>1, <1>4, <1>5 DEF Touched
<1>8. /\ Trail' /\ Segments' = Segments /\ (\A n : Final(n)' <=> Final(n))
      /\ Frames(h)' = contents'[active] /\ Synced(h)' = synced'[active] /\ dir' = "kept"
      /\ \A n \in Starts : kept'[n] = entries'[n]
  BY <1>1, <1>3, <1>6, <1>7, TouchedKeeps DEF Holding
<1>9. Held(h)'
  <2>1. Final(h) /\ seq = h + size - 1 /\ Len(synced[active]) <= size + 1
    BY <1>2, <1>3, HeldTyped DEF Held
  <2>2. \A k \in 1 .. size : contents[active][k] # Torn
    BY <1>2, <1>3, HeldTyped DEF Held
  <2>3. size <= size + 1
    BY <1>4
  <2> QED
    BY <1>1, <1>4, <1>5, <1>8, <2>1, <2>2, <2>3 DEF Held, Creating
<1>10. InProcess'
  BY <1>1, <1>8 DEF WriterInv, InProcess, Calm, Creating, Booting
<1>11. Started' /\ Newborn' /\ Scanning'
  BY <1>1, <1>9 DEF WriterInv, Started, Newborn, Scanning, Holding, Growing, Creating
<1> QED
  BY <1>6, <1>8, <1>10, <1>11 DEF WriterInv

LEMMA SyncTruncateHolds == WriterInv /\ SyncTruncate => WriterInv'
<1> SUFFICES ASSUME WriterInv, SyncTruncate PROVE WriterInv'
  OBVIOUS
<1>1. /\ pc = "syncTruncate" /\ pc' = "idle" /\ synced' = [synced EXCEPT ![active] = contents[active]]
      /\ dir' = dir /\ entries' = entries /\ kept' = kept /\ contents' = contents
      /\ acks' = acks /\ emits' = emits /\ cur' = cur /\ seq' = seq /\ active' = active /\ size' = size
  BY DEF SyncTruncate
<1>2. WriterTyped /\ Trail
  BY DEF WriterInv
<1>3. PICK h \in Starts : Held(h)
  BY <1>1 DEF WriterInv, Started, Holding
<1>4. /\ h \in Segments /\ active \in Inodes /\ active = entries[h] /\ size \in Nat /\ size >= 1
      /\ contents[active] \in Files /\ Frames(h) = contents[active] /\ size <= Len(contents[active])
  BY <1>2, <1>3, HeldTyped
<1>5. /\ synced' \in [Inodes -> Files] /\ synced'[active] = contents[active]
      /\ \A i \in Inodes : i # active => synced'[i] = synced[i]
  BY <1>1, <1>2, <1>4 DEF WriterTyped
<1>6. WriterTyped'
  BY <1>1, <1>2, <1>5 DEF WriterTyped, Pcs
<1>7. Touched(h)
  BY <1>1, <1>2, <1>4, <1>5, NearSame DEF Touched, Trail, Lawful
<1>8. /\ Trail' /\ Segments' = Segments /\ (\A n : Final(n)' <=> Final(n))
      /\ Frames(h)' = contents'[active] /\ Synced(h)' = synced'[active] /\ dir' = "kept"
      /\ \A n \in Starts : kept'[n] = entries'[n]
      /\ \A n \in Segments : n # h => Frames(n)' = Frames(n) /\ Synced(n)' = Synced(n)
  BY <1>1, <1>3, <1>6, <1>7, TouchedKeeps DEF Holding
<1>9. Held(h)'
  <2>1. /\ Final(h) /\ seq = h + size - 1 /\ Len(contents[active]) = size
        /\ \A k \in 1 .. size : contents[active][k] # Torn
    BY <1>1, <1>3, <1>4 DEF Held
  <2>2. size <= size + 1
    BY <1>4
  <2> QED
    BY <1>1, <1>4, <1>5, <1>8, <2>1, <2>2 DEF Held, Creating
<1>10. \A n \in Segments' : Synced(n)' = Frames(n)'
  <2>1. \A n \in Segments : ~Final(n) => Synced(n) = Frames(n)
    BY <1>2 DEF Trail, Lawful
  <2>2. \A n \in Segments : n # h => ~Final(n)
    <3> TAKE n \in Segments
    <3>1. n \in Nat /\ h \in Nat /\ Final(h)
      BY <1>2, <1>3, <1>4, FileTyped DEF Held
    <3> QED
      BY <1>4, <3>1 DEF Final
  <2> QED
    BY <1>1, <1>5, <1>8, <2>1, <2>2
<1>11. InProcess'
  BY <1>1, <1>8, <1>10 DEF WriterInv, InProcess, Calm, Creating, Booting
<1>12. Started' /\ Newborn' /\ Scanning'
  BY <1>1, <1>9 DEF WriterInv, Started, Newborn, Scanning, Holding, Growing, Creating
<1> QED
  BY <1>6, <1>8, <1>11, <1>12 DEF WriterInv

-----------------------------------------------------------------------------
(* commit *)

LEMMA CommitHolds == WriterInv /\ Commit => WriterInv'
<1> SUFFICES ASSUME WriterInv, Commit PROVE WriterInv'
  OBVIOUS
<1>1. /\ pc = "idle" /\ emits < MaxEmits /\ emits' = emits + 1 /\ cur' = emits'
      /\ pc' = "write" \/ (size > 1 /\ pc' = "create")
      /\ dir' = dir /\ entries' = entries /\ kept' = kept /\ contents' = contents /\ synced' = synced
      /\ acks' = acks /\ seq' = seq /\ active' = active /\ size' = size
  BY DEF Commit
<1>2. WriterTyped /\ Trail
  BY DEF WriterInv
<1>3. /\ emits \in Nat /\ emits' \in Nat /\ emits' <= MaxEmits /\ seq <= emits' /\ seq < emits' /\ emits <= emits'
      /\ size \in Nat
  BY <1>1, <1>2, WriterAssumption DEF WriterTyped
<1>4. PICK h \in Starts : Held(h)
  BY <1>1 DEF WriterInv, Started, Holding
<1>5. WriterTyped'
  BY <1>1, <1>2, <1>3 DEF WriterTyped, Pcs, Creating
<1>6. SameTrail
  BY <1>1, <1>3 DEF SameTrail, Frames, Synced
<1>7. Trail'
  BY <1>1, <1>2, <1>5, <1>6, Undisturbed
<1>8. Segments' = Segments /\ (\A n : Final(n)' <=> Final(n))
  BY <1>1, SameSegments
<1>9. Held(h)'
  <2>1. size > 1 => size >= 2
    BY <1>3
  <2> QED
    BY <1>1, <1>4, <1>6, <1>8, <2>1 DEF Held, Creating, SameTrail
<1>10. InProcess'
  BY <1>1, <1>6, <1>8 DEF WriterInv, InProcess, Calm, Creating, Booting, SameTrail
<1>11. Started' /\ Newborn' /\ Scanning'
  BY <1>1, <1>3, <1>9 DEF WriterInv, Started, Newborn, Scanning, Holding, Growing, Creating
<1> QED
  BY <1>5, <1>7, <1>10, <1>11 DEF WriterInv

LEMMA WriteHolds == WriterInv /\ Write => WriterInv'
<1> SUFFICES ASSUME WriterInv, Write PROVE WriterInv'
  OBVIOUS
<1> DEFINE rec == [id |-> cur, seq |-> seq]
<1>1. /\ pc = "write"
      /\ \/ contents' = Appended(rec) /\ pc' = "fsync"
         \/ contents' \in {contents, Appended(Torn), Appended(rec)} /\ pc' = "discard"
      /\ dir' = dir /\ entries' = entries /\ kept' = kept /\ synced' = synced
      /\ acks' = acks /\ emits' = emits /\ cur' = cur /\ seq' = seq /\ active' = active /\ size' = size
  BY DEF Write
<1>2. WriterTyped /\ Trail
  BY DEF WriterInv
<1>3. PICK h \in Starts : Held(h)
  BY <1>1 DEF WriterInv, Started, Holding
<1>4. /\ h \in Segments /\ active \in Inodes /\ active = entries[h] /\ size \in Nat /\ size >= 1
      /\ Frames(h) = contents[active] /\ Synced(h) = synced[active]
      /\ size <= Len(contents[active]) /\ size <= Len(synced[active])
  BY <1>2, <1>3, HeldTyped
<1>5. rec \in Records /\ Torn \in Records
  BY <1>2, Frame DEF WriterTyped, Records
<1>6. /\ Final(h) /\ seq = h + size - 1 /\ \A k \in 1 .. size : contents[active][k] # Torn
      /\ Len(contents[active]) = size /\ Len(synced[active]) = size
  BY <1>1, <1>3, <1>4 DEF Held, WriterInv, InProcess, Calm
<1>7. size <= size + 1 /\ size + 1 <= size + 1 /\ size <= size
  BY <1>4
<1>8. /\ contents' \in [Inodes -> Files]
      /\ \A i \in Inodes : i # active => contents'[i] = contents[i]
      /\ Ended(contents'[active], h, emits) /\ Ended(synced[active], h, emits)
      /\ Near(contents'[active], synced[active])
      /\ \A k \in 1 .. size : contents'[active][k] = contents[active][k]
      /\ Len(contents'[active]) \in {size, size + 1}
      /\ pc' = "fsync" => Len(contents'[active]) = size + 1 /\ contents'[active][size + 1] = rec
  <2>1. CASE contents' = Appended(rec)
    <3> HIDE DEF rec
    <3>1. rec = Torn \/ rec = [id |-> cur, seq |-> seq]
      BY DEF rec
    <3> QED
      BY <1>1, <1>3, <1>5, <2>1, <3>1, AppendedIs
  <2>2. CASE contents' = Appended(Torn) /\ pc' = "discard"
    BY <1>1, <1>3, <1>5, <2>2, AppendedIs
  <2>3. CASE contents' = contents /\ pc' = "discard"
    BY <1>2, <1>4, <1>6, <2>3 DEF WriterTyped, Trail, Lawful
  <2> QED
    BY <1>1, <2>1, <2>2, <2>3
<1>9. WriterTyped'
  BY <1>1, <1>2, <1>8 DEF WriterTyped, Pcs
<1>10. size <= Len(contents'[active]) /\ Len(contents'[active]) <= size + 1
  BY <1>4, <1>8
<1>11. Touched(h)
  BY <1>1, <1>4, <1>8, <1>10 DEF Touched
<1>12. /\ Trail' /\ Segments' = Segments /\ (\A n : Final(n)' <=> Final(n))
      /\ Frames(h)' = contents'[active] /\ Synced(h)' = synced'[active] /\ dir' = "kept"
      /\ \A n \in Starts : kept'[n] = entries'[n]
  BY <1>1, <1>3, <1>9, <1>11, TouchedKeeps DEF Holding
<1>13. Held(h)'
  <2>1. \A k \in 1 .. size : contents'[active][k] # Torn
    BY <1>6, <1>8
  <2>2. pc' \notin {"idle", "write", "syncTruncate"} \cup Creating
    BY <1>1 DEF Creating
  <2> QED
    BY <1>1, <1>4, <1>6, <1>7, <1>8, <1>10, <1>12, <2>1, <2>2 DEF Held, Creating
<1>14. InProcess'
  BY <1>1, <1>12 DEF WriterInv, InProcess, Calm, Creating, Booting
<1>15. Started' /\ Newborn' /\ Scanning'
  BY <1>1, <1>13 DEF WriterInv, Started, Newborn, Scanning, Holding, Growing, Creating
<1> QED
  BY <1>9, <1>12, <1>14, <1>15 DEF WriterInv

LEMMA FsyncHolds == WriterInv /\ Fsync => WriterInv'
<1> SUFFICES ASSUME WriterInv, Fsync PROVE WriterInv'
  OBVIOUS
<1> DEFINE rec == [id |-> cur, seq |-> seq]
<1>1. /\ pc = "fsync" /\ pc' = "idle" /\ synced' = [synced EXCEPT ![active] = contents[active]]
      /\ acks' = acks \cup {rec} /\ seq' = seq + 1 /\ size' = size + 1 /\ cur' = 0
      /\ dir' = dir /\ entries' = entries /\ kept' = kept /\ contents' = contents
      /\ emits' = emits /\ active' = active
  BY DEF Fsync
<1>2. WriterTyped /\ Trail
  BY DEF WriterInv
<1>3. PICK h \in Starts : Held(h)
  BY <1>1 DEF WriterInv, Started, Holding
<1>4. /\ h \in Segments /\ h \in Nat /\ active \in Inodes /\ active = entries[h] /\ size \in Nat /\ size >= 1
      /\ contents[active] \in Files /\ Frames(h) = contents[active] /\ size <= Len(contents[active])
  BY <1>2, <1>3, HeldTyped
<1>5. /\ synced' \in [Inodes -> Files] /\ synced'[active] = contents[active]
      /\ \A i \in Inodes : i # active => synced'[i] = synced[i]
  BY <1>1, <1>2, <1>4 DEF WriterTyped
<1>6. seq \in Nat /\ seq < emits /\ emits \in Nat
  BY <1>1, <1>2 DEF WriterTyped, WriterInv, Started
<1>7. WriterTyped'
  <2>1. seq + 1 \in Nat /\ seq + 1 <= emits /\ size + 1 \in Nat
    BY <1>4, <1>6
  <2> QED
    BY <1>1, <1>2, <1>5, <2>1 DEF WriterTyped, Pcs
<1>8. Touched(h)
  BY <1>1, <1>2, <1>4, <1>5, NearSame DEF Touched, Trail, Lawful
<1>9. /\ Pinned' /\ Lawful' /\ Chained'
      /\ \A a \in acks : a.seq \in Nat /\ \E n \in Segments : \E k \in Nat : Stored(a, n, k)'
      /\ Segments' = Segments /\ (\A n : Final(n)' <=> Final(n))
      /\ Frames(h)' = contents'[active] /\ Synced(h)' = synced'[active] /\ dir' = "kept"
      /\ \A n \in Starts : kept'[n] = entries'[n]
      /\ \A n \in Segments : n # h => Frames(n)' = Frames(n) /\ Synced(n)' = Synced(n)
  BY <1>1, <1>3, <1>7, <1>8, TouchedKeeps DEF Holding
<1>10. /\ Final(h) /\ seq = h + size - 1 /\ Len(contents[active]) = size + 1
       /\ contents[active][size + 1] = rec
       /\ \A k \in 1 .. size : contents[active][k] # Torn
  BY <1>1, <1>3, <1>4 DEF Held
<1>11. PICK b, z : b = rec /\ z = size + 1
  OBVIOUS
<1>12. Safe'
  <2>1. z \in Nat /\ z \in 2 .. z /\ z <= z
    BY <1>4, <1>11
  <2>2. b.seq = h + z - 2 /\ b.seq \in Nat
    BY <1>4, <1>6, <1>10, <1>11
  <2>3. contents[active][z] = b /\ Len(contents[active]) = z /\ acks' = acks \cup {b}
    BY <1>1, <1>10, <1>11
  <2>4. Frames(h)' = contents[active] /\ Synced(h)' = contents[active]
    BY <1>1, <1>5, <1>9
  <2>5. Stored(b, h, z)'
    BY <2>1, <2>2, <2>3, <2>4 DEF Stored
  <2> HIDE DEF rec
  <2> QED
    BY <1>4, <1>9, <2>1, <2>2, <2>3, <2>5 DEF Safe
<1>13. Held(h)'
  <2>1. h + size - 1 + 1 = h + (size + 1) - 1 /\ size + 1 >= 1 /\ size + 1 <= size + 1 /\ size + 1 <= size + 1 + 1
    BY <1>4
  <2>2. ASSUME NEW k \in 1 .. size + 1 PROVE contents[active][k] # Torn
    <3>1. rec # Torn
      <4>1. rec.seq # -1
        BY <1>6
      <4> QED
        BY <4>1, Frame
    <3>2. CASE k = size + 1
      BY <1>10, <3>1, <3>2
    <3>3. CASE k # size + 1
      <4>1. k \in 1 .. size
        BY <1>4, <3>3
      <4> QED
        BY <1>10, <4>1
    <3> QED
      BY <3>2, <3>3
  <2> HIDE DEF rec
  <2> QED
    BY <1>1, <1>4, <1>5, <1>9, <1>10, <2>1, <2>2 DEF Held, Creating
<1>14. \A n \in Segments' : Synced(n)' = Frames(n)'
  <2>1. \A n \in Segments : ~Final(n) => Synced(n) = Frames(n)
    BY <1>2 DEF Trail, Lawful
  <2>2. \A n \in Segments : n # h => ~Final(n)
    <3> TAKE n \in Segments
    <3>1. n \in Nat
      BY <1>2, FileTyped
    <3> QED
      BY <1>4, <1>10, <3>1 DEF Final
  <2> QED
    BY <1>1, <1>5, <1>9, <2>1, <2>2
<1>15. InProcess'
  BY <1>1, <1>9, <1>14 DEF WriterInv, InProcess, Calm, Creating, Booting
<1>16. \A a \in acks' : a.seq < seq'
  <2>1. \A a \in acks : a.seq \in Nat /\ a.seq < seq
    BY <1>1, <1>2 DEF WriterInv, Started, Holding, Trail, Safe
  <2>2. rec.seq = seq
    OBVIOUS
  <2> HIDE DEF rec
  <2>3. \A a \in acks' : a.seq \in Nat /\ a.seq <= seq
    BY <1>1, <1>6, <2>1, <2>2
  <2> QED
    BY <1>1, <1>6, <2>3
<1>17. Started' /\ Newborn' /\ Scanning'
  BY <1>1, <1>13, <1>16 DEF Started, Newborn, Scanning, Holding, Growing, Creating
<1> QED
  BY <1>7, <1>9, <1>12, <1>15, <1>17 DEF WriterInv, Trail

LEMMA FsyncFailsHolds == WriterInv /\ FsyncFails => WriterInv'
<1> SUFFICES ASSUME WriterInv, FsyncFails PROVE WriterInv'
  OBVIOUS
<1>1. /\ pc = "fsync" /\ pc' = "discard"
      /\ synced' \in {synced, [synced EXCEPT ![active] = contents[active]]}
      /\ dir' = dir /\ entries' = entries /\ kept' = kept /\ contents' = contents
      /\ acks' = acks /\ emits' = emits /\ cur' = cur /\ seq' = seq /\ active' = active /\ size' = size
  BY DEF FsyncFails
<1>2. WriterTyped /\ Trail
  BY DEF WriterInv
<1>3. PICK h \in Starts : Held(h)
  BY <1>1 DEF WriterInv, Started, Holding
<1>4. /\ h \in Segments /\ active \in Inodes /\ active = entries[h] /\ size \in Nat /\ size >= 1
      /\ contents[active] \in Files /\ synced[active] \in Files
      /\ Frames(h) = contents[active] /\ Synced(h) = synced[active]
      /\ size <= Len(contents[active]) /\ size <= Len(synced[active])
  BY <1>2, <1>3, HeldTyped
<1>5. /\ synced' \in [Inodes -> Files] /\ synced'[active] \in {synced[active], contents[active]}
      /\ \A i \in Inodes : i # active => synced'[i] = synced[i]
  BY <1>1, <1>2, <1>4 DEF WriterTyped
<1>6. WriterTyped'
  BY <1>1, <1>2, <1>5 DEF WriterTyped, Pcs
<1>7. Touched(h)
  <2>1. /\ Ended(contents[active], h, emits) /\ Ended(synced[active], h, emits)
        /\ Near(contents[active], synced[active]) /\ Near(contents[active], contents[active])
    BY <1>2, <1>4, NearSame DEF Trail, Lawful
  <2> QED
    BY <1>1, <1>4, <1>5, <2>1 DEF Touched
<1>8. /\ Trail' /\ Segments' = Segments /\ (\A n : Final(n)' <=> Final(n))
      /\ Frames(h)' = contents'[active] /\ Synced(h)' = synced'[active] /\ dir' = "kept"
      /\ \A n \in Starts : kept'[n] = entries'[n]
  BY <1>1, <1>3, <1>6, <1>7, TouchedKeeps DEF Holding
<1>9. Held(h)'
  <2>1. /\ Final(h) /\ seq = h + size - 1 /\ Len(contents[active]) <= size + 1 /\ Len(synced[active]) <= size + 1
        /\ \A k \in 1 .. size : contents[active][k] # Torn
    BY <1>3, <1>4 DEF Held
  <2> QED
    BY <1>1, <1>4, <1>5, <1>8, <2>1 DEF Held, Creating
<1>10. InProcess'
  BY <1>1, <1>8 DEF WriterInv, InProcess, Calm, Creating, Booting
<1>11. Started' /\ Newborn' /\ Scanning'
  BY <1>1, <1>9 DEF WriterInv, Started, Newborn, Scanning, Holding, Growing, Creating
<1> QED
  BY <1>6, <1>8, <1>10, <1>11 DEF WriterInv

LEMMA DiscardHolds == WriterInv /\ Discard => WriterInv'
<1> SUFFICES ASSUME WriterInv, Discard PROVE WriterInv'
  OBVIOUS
<1>1. /\ pc = "discard" /\ pc' = "poisoned"
      /\ dir' = dir /\ entries' = entries /\ kept' = kept
      /\ acks' = acks /\ emits' = emits /\ cur' = cur /\ seq' = seq /\ active' = active /\ size' = size
      /\ \/ contents' = contents /\ synced' = synced
         \/ /\ contents' = Trimmed
            /\ synced' \in {synced, [synced EXCEPT ![active] = contents'[active]]}
  BY DEF Discard, Trimmed
<1>2. WriterTyped /\ Trail
  BY DEF WriterInv
<1>3. PICK h \in Starts : Held(h)
  BY <1>1 DEF WriterInv, Started, Holding
<1>4. /\ h \in Segments /\ active \in Inodes /\ active = entries[h] /\ size \in Nat /\ size >= 1
      /\ contents[active] \in Files /\ synced[active] \in Files
      /\ Frames(h) = contents[active] /\ Synced(h) = synced[active]
      /\ size <= Len(contents[active]) /\ size <= Len(synced[active])
  BY <1>2, <1>3, HeldTyped
<1>5. /\ contents' \in [Inodes -> Files] /\ synced' \in [Inodes -> Files]
      /\ \A i \in Inodes : i # active => contents'[i] = contents[i] /\ synced'[i] = synced[i]
      /\ Ended(contents'[active], h, emits) /\ Ended(synced'[active], h, emits)
      /\ Near(contents'[active], synced'[active])
      /\ size <= Len(contents'[active]) /\ size <= Len(synced'[active])
      /\ \A k \in 1 .. size : contents'[active][k] = contents[active][k]
  <2>1. CASE contents' = contents /\ synced' = synced
    BY <1>2, <1>4, <2>1 DEF WriterTyped, Trail, Lawful
  <2>2. CASE contents' = Trimmed /\ synced' \in {synced, [synced EXCEPT ![active] = contents'[active]]}
    <3>1. /\ contents' \in [Inodes -> Files]
          /\ \A i \in Inodes : i # active => contents'[i] = contents[i]
          /\ Ended(contents'[active], h, emits) /\ Ended(synced[active], h, emits)
          /\ Near(contents'[active], synced[active]) /\ Near(contents'[active], contents'[active])
          /\ Len(contents'[active]) = size /\ \A k \in 1 .. size : contents'[active][k] = contents[active][k]
      BY <1>3, <2>2, TrimmedIs
    <3>2. /\ synced' \in [Inodes -> Files] /\ synced'[active] \in {synced[active], contents'[active]}
          /\ \A i \in Inodes : i # active => synced'[i] = synced[i]
      BY <1>2, <1>4, <2>2, <3>1 DEF WriterTyped
    <3>3. size <= size
      BY <1>4
    <3> QED
      BY <1>4, <3>1, <3>2, <3>3
  <2> QED
    BY <1>1, <2>1, <2>2
<1>6. WriterTyped'
  BY <1>1, <1>2, <1>5 DEF WriterTyped, Pcs
<1>7. Touched(h)
  BY <1>1, <1>5 DEF Touched
<1>8. Trail' /\ dir' = "kept"
  BY <1>1, <1>3, <1>6, <1>7, TouchedKeeps DEF Holding
<1> QED
  BY <1>1, <1>6, <1>8, Stopped DEF WriterInv

LEMMA DieHolds == WriterInv /\ Die => WriterInv'
<1> SUFFICES ASSUME WriterInv, Die PROVE WriterInv'
  OBVIOUS
<1>1. /\ pc' = "down" /\ cur' = 0 /\ seq' = 0 /\ active' = NoInode /\ size' = 0
      /\ dir' = dir /\ entries' = entries /\ kept' = kept /\ synced' = synced
      /\ acks' = acks /\ emits' = emits
      /\ contents' = contents \/ (pc = "write" /\ contents' = Appended(Torn))
  BY DEF Die, Forget
<1>2. WriterTyped /\ Trail
  BY DEF WriterInv
<1>3. CASE contents' = contents
  <2>1. WriterTyped'
    BY <1>1, <1>2, <1>3 DEF WriterTyped, Pcs
  <2>2. SameTrail
    BY <1>1, <1>2, <1>3 DEF SameTrail, Frames, Synced, WriterTyped
  <2>3. Trail'
    BY <1>1, <1>2, <2>1, <2>2, Undisturbed
  <2> QED
    BY <1>1, <2>1, <2>3, Stopped DEF WriterInv
<1>4. CASE pc = "write" /\ contents' = Appended(Torn)
  <2>1. PICK h \in Starts : Held(h)
    BY <1>4 DEF WriterInv, Started, Holding
  <2>2. /\ contents' \in [Inodes -> Files]
        /\ \A i \in Inodes : i # active => contents'[i] = contents[i]
        /\ Ended(contents'[active], h, emits) /\ Ended(synced[active], h, emits)
        /\ Near(contents'[active], synced[active])
        /\ Len(contents'[active]) = size + 1
        /\ \A k \in 1 .. size : contents'[active][k] = contents[active][k]
    BY <1>4, <2>1, Frame, AppendedIs
  <2>3. WriterTyped'
    BY <1>1, <1>2, <2>2 DEF WriterTyped, Pcs
  <2>4. size <= size + 1 /\ size <= Len(synced[active])
    BY <1>2, <2>1, HeldTyped
  <2>5. Touched(h)
    BY <1>1, <2>2, <2>4 DEF Touched
  <2>6. Trail'
    BY <1>1, <1>4, <2>1, <2>3, <2>5, TouchedKeeps DEF Holding
  <2> QED
    BY <1>1, <2>3, <2>6, Stopped DEF WriterInv
<1> QED
  BY <1>1, <1>3, <1>4

-----------------------------------------------------------------------------
(* createSegment *)

LEMMA CreateTempHolds == WriterInv /\ CreateTemp => WriterInv'
<1> SUFFICES ASSUME WriterInv, CreateTemp PROVE WriterInv'
  OBVIOUS
<1>1. PICK i : i = Min(Free)
  OBVIOUS
<1>2. /\ pc = "create" /\ pc' = "syncTemp" /\ Free # {}
      /\ entries' = [entries EXCEPT ![Temp] = i]
      /\ contents' = [contents EXCEPT ![i] = <<Header>>] /\ synced' = [synced EXCEPT ![i] = <<>>]
      /\ dir' = dir /\ kept' = kept
      /\ acks' = acks /\ emits' = emits /\ cur' = cur /\ seq' = seq /\ active' = active /\ size' = size
  BY <1>1 DEF CreateTemp
<1>3. WriterTyped /\ Trail
  BY DEF WriterInv
<1>4. i \in Inodes /\ i # NoInode /\ \A n \in Names : entries[n] # i
  <2>1. Free \subseteq Nat
    BY InodesAre DEF Free
  <2>2. i \in Free
    BY <1>1, <1>2, <2>1, MinFacts
  <2> QED
    BY <2>2, InodesAre DEF Free
<1>5. WriterTyped'
  BY <1>2, <1>3, <1>4, Frame DEF WriterTyped, Pcs, Creating
<1>6. \A n \in Starts : entries'[n] = entries[n]
  BY <1>2, <1>3, StartsAre DEF WriterTyped
<1>7. ASSUME NEW n \in Segments PROVE Frames(n)' = Frames(n) /\ Synced(n)' = Synced(n) /\ entries'[n] # i
  <2>1. entries[n] # i /\ entries[n] \in Inodes /\ entries'[n] = entries[n]
    BY <1>3, <1>4, <1>6, FileTyped, StartsAre
  <2> QED
    BY <1>2, <1>3, <2>1 DEF Frames, Synced, WriterTyped
<1>8. SameTrail
  BY <1>2, <1>3, <1>6, <1>7 DEF SameTrail, WriterTyped
<1>9. dir = "kept" /\ \A n \in Starts : kept[n] = entries[n]
  BY <1>2 DEF WriterInv, InProcess
<1>10. Trail'
  BY <1>2, <1>3, <1>5, <1>8, <1>9, Undisturbed
<1>11. Segments' = Segments /\ \A n : Final(n)' <=> Final(n)
  BY <1>6, SameSegments
<1>12. InProcess'
  BY <1>2, <1>6, <1>8, <1>9, <1>11 DEF WriterInv, InProcess, Calm, Creating, Booting, SameTrail
<1>13. ASSUME NEW h \in Starts, Held(h) PROVE Held(h)'
  BY <1>2, <1>8, <1>11, <1>13 DEF Held, Creating, SameTrail
<1>14. Started'
  BY <1>2, <1>11, <1>13 DEF WriterInv, Started, Holding, Growing, Creating
<1>15. Newborn' /\ Scanning'
  <2>1. entries'[Temp] = i /\ contents'[i] = <<Header>>
    BY <1>2, <1>3, <1>4, StartsAre DEF WriterTyped
  <2> QED
    BY <1>2, <1>4, <1>7, <1>11, <2>1 DEF Newborn, Scanning
<1> QED
  BY <1>5, <1>10, <1>12, <1>14, <1>15 DEF WriterInv

LEMMA SyncTempHolds == WriterInv /\ SyncTemp => WriterInv'
<1> SUFFICES ASSUME WriterInv, SyncTemp PROVE WriterInv'
  OBVIOUS
<1>1. PICK i : i = entries[Temp]
  OBVIOUS
<1>2. /\ pc = "syncTemp" /\ pc' = "rename" /\ synced' = [synced EXCEPT ![i] = contents[i]]
      /\ dir' = dir /\ entries' = entries /\ kept' = kept /\ contents' = contents
      /\ acks' = acks /\ emits' = emits /\ cur' = cur /\ seq' = seq /\ active' = active /\ size' = size
  BY <1>1 DEF SyncTemp
<1>3. WriterTyped /\ Trail
  BY DEF WriterInv
<1>4. /\ i # NoInode /\ contents[i] = <<Header>> /\ \A n \in Segments : entries[n] # i
  BY <1>1, <1>2 DEF WriterInv, Newborn
<1>5. i \in Inodes
  BY <1>1, <1>3, <1>4, StartsAre DEF WriterTyped
<1>6. WriterTyped'
  BY <1>2, <1>3, <1>5 DEF WriterTyped, Pcs, Creating
<1>7. ASSUME NEW n \in Segments PROVE Frames(n)' = Frames(n) /\ Synced(n)' = Synced(n)
  <2>1. entries[n] # i /\ entries[n] \in Inodes
    BY <1>3, <1>4, FileTyped
  <2> QED
    BY <1>2, <1>3, <2>1 DEF Frames, Synced, WriterTyped
<1>8. SameTrail
  BY <1>2, <1>3, <1>7 DEF SameTrail, WriterTyped
<1>9. dir = "kept" /\ \A n \in Starts : kept[n] = entries[n]
  BY <1>2 DEF WriterInv, InProcess
<1>10. Trail'
  BY <1>2, <1>3, <1>6, <1>8, <1>9, Undisturbed
<1>11. Segments' = Segments /\ \A n : Final(n)' <=> Final(n)
  BY <1>2, SameSegments
<1>12. InProcess'
  BY <1>2, <1>8, <1>9, <1>11 DEF WriterInv, InProcess, Calm, Creating, Booting, SameTrail
<1>13. ASSUME NEW h \in Starts, Held(h) PROVE Held(h)'
  BY <1>2, <1>8, <1>11, <1>13 DEF Held, Creating, SameTrail
<1>14. Started'
  BY <1>2, <1>11, <1>13 DEF WriterInv, Started, Holding, Growing, Creating
<1>15. Newborn' /\ Scanning'
  <2>1. entries'[Temp] = i /\ contents'[i] = <<Header>> /\ synced'[i] = <<Header>>
    BY <1>1, <1>2, <1>3, <1>4, <1>5 DEF WriterTyped
  <2> QED
    BY <1>2, <1>4, <1>11, <2>1 DEF Newborn, Scanning
<1> QED
  BY <1>6, <1>10, <1>12, <1>14, <1>15 DEF WriterInv

LEMMA RenameHolds == WriterInv /\ Rename => WriterInv'
<1> SUFFICES ASSUME WriterInv, Rename PROVE WriterInv'
  OBVIOUS
<1>1. PICK i, b : i = entries[Temp] /\ b = seq
  OBVIOUS
<1>2. /\ pc = "rename" /\ pc' = "syncDir" /\ entries' = [entries EXCEPT ![b] = i, ![Temp] = NoInode]
      /\ dir' = dir /\ kept' = kept /\ contents' = contents /\ synced' = synced
      /\ acks' = acks /\ emits' = emits /\ cur' = cur /\ seq' = seq /\ active' = active /\ size' = size
  BY <1>1 DEF Rename
<1>3. WriterTyped /\ Trail
  BY DEF WriterInv
<1>4. /\ i # NoInode /\ contents[i] = <<Header>> /\ synced[i] = <<Header>> /\ \A n \in Segments : entries[n] # i
  BY <1>1, <1>2 DEF WriterInv, Newborn
<1>5. i \in Inodes
  BY <1>1, <1>3, <1>4, StartsAre DEF WriterTyped
<1>6. b \in Starts /\ b \in Nat
  BY <1>1, <1>3, WriterAssumption DEF WriterTyped, Starts
<1>7. dir = "kept" /\ (\A n \in Starts : kept[n] = entries[n]) /\ \A n \in Segments : Synced(n) = Frames(n)
  BY <1>2 DEF WriterInv, InProcess, Calm, Creating
<1>8. \/ Segments = {} /\ b = 0
      \/ \E h \in Segments : /\ Final(h) /\ h < b /\ b = h + Len(Frames(h)) - 1 /\ Len(Frames(h)) >= 2
                             /\ Whole(Frames(h))
  <2>1. CASE Segments = {} /\ seq = 0
    BY <1>1, <2>1
  <2>2. CASE \E h \in Starts : Held(h)
    <3>1. PICK h \in Starts : Held(h)
      BY <2>2
    <3>2. /\ h \in Segments /\ Final(h) /\ b = h + size - 1 /\ Len(Frames(h)) = size /\ size >= 2
          /\ \A k \in 1 .. size : Frames(h)[k] # Torn
      BY <1>1, <1>2, <3>1 DEF Held, Creating
    <3>3. h \in Nat /\ size \in Nat
      BY <1>3, <3>2, FileTyped DEF WriterTyped
    <3>4. h < b
      BY <3>2, <3>3
    <3> QED
      BY <3>2, <3>4 DEF Whole
  <2> QED
    BY <1>2, <2>1, <2>2 DEF WriterInv, Started, Growing
<1>9. \A n \in Segments : n \in Nat /\ Len(Frames(n)) \in Nat /\ n < b
  <2> TAKE n \in Segments
  <2>1. n \in Nat /\ Len(Frames(n)) \in Nat
    BY <1>3, FileTyped
  <2>2. PICK h \in Segments : Final(h) /\ h < b
    BY <1>8
  <2>3. n <= h /\ h \in Nat
    BY <2>2, <1>3, FileTyped DEF Final
  <2> QED
    BY <2>1, <2>2, <2>3, <1>6
<1>10. WriterTyped'
  <2>1. b \in Names /\ Temp \in Names /\ b # Temp
    BY <1>6, StartsAre
  <2> QED
    BY <1>2, <1>3, <1>5, <2>1 DEF WriterTyped, Pcs, Creating
<1>11. entries'[b] = i /\ \A n \in Starts : n # b => entries'[n] = entries[n]
  BY <1>2, <1>3, <1>6, StartsAre DEF WriterTyped
<1>12. Segments' = Segments \cup {b}
  BY <1>4, <1>6, <1>11 DEF Segments
<1>13. /\ Frames(b)' = <<Header>> /\ Synced(b)' = <<Header>>
       /\ \A n \in Segments : entries'[n] = entries[n] /\ Frames(n)' = Frames(n) /\ Synced(n)' = Synced(n)
  <2>1. \A n \in Segments : n \in Starts /\ n # b
    BY <1>3, <1>6, <1>9, FileTyped
  <2> QED
    BY <1>2, <1>4, <1>11, <2>1 DEF Frames, Synced
<1>14. Final(b)' /\ \A n \in Segments : ~Final(n)'
  <2>1. b <= b /\ \A n \in Segments : n <= b /\ ~(b <= n)
    BY <1>6, <1>9
  <2> QED
    BY <1>12, <2>1 DEF Final
<1>15. Pinned'
  <2>1. kept'[b] = NoInode
    BY <1>2, <1>6, <1>7, <1>9 DEF Segments
  <2>2. \A m, n \in Segments' : entries'[m] = entries'[n] => m = n
    BY <1>3, <1>4, <1>11, <1>12, <1>13 DEF Trail, Pinned
  <2> QED
    BY <1>2, <1>7, <1>11, <1>12, <1>13, <1>14, <2>1, <2>2 DEF Pinned
<1>16. Lawful'
  <2>1. ASSUME NEW n \in Segments
        PROVE  /\ Ended(Frames(n), n, emits) /\ Ended(Synced(n), n, emits) /\ Near(Frames(n), Synced(n))
               /\ Synced(n) = Frames(n) /\ Whole(Frames(n)) /\ Len(Frames(n)) >= 2
    <3>1. CASE ~Final(n)
      BY <1>3, <3>1 DEF Trail, Lawful
    <3>2. CASE Final(n)
      <4>1. PICK h \in Segments : Final(h) /\ Len(Frames(h)) >= 2 /\ Whole(Frames(h))
        BY <1>8
      <4>2. n <= h /\ h <= n /\ n \in Nat /\ h \in Nat
        BY <1>9, <3>2, <4>1 DEF Final
      <4>3. n = h
        BY <4>2
      <4> QED
        BY <1>3, <1>7, <4>1, <4>3 DEF Trail, Lawful
    <3> QED
      BY <3>1, <3>2
  <2>2. Ended(<<Header>>, b, emits) /\ Near(<<Header>>, <<Header>>)
    BY Frame, NearSame DEF Ended
  <2> QED
    BY <1>2, <1>12, <1>13, <1>14, <2>1, <2>2 DEF Lawful
<1>17. Chained'
  <2>1. ASSUME NEW n \in Segments
        PROVE  /\ n + Len(Frames(n)) - 1 \in Segments \cup {b}
               /\ \A m \in Segments \cup {b} : n < m => n + Len(Frames(n)) - 1 <= m
               /\ n # 0 => \E m \in Segments : m < n /\ n = m + Len(Frames(m)) - 1
    <3>1. CASE ~Final(n)
      <4>1. /\ n + Len(Frames(n)) - 1 \in Segments
            /\ \A m \in Segments : n < m => n + Len(Frames(n)) - 1 <= m
            /\ n # 0 => \E m \in Segments : m < n /\ n = m + Len(Frames(m)) - 1
        BY <1>3, <3>1 DEF Trail, Chained
      <4>2. n + Len(Frames(n)) - 1 <= b
        BY <4>1, <1>6, <1>9
      <4> QED
        BY <4>1, <4>2
    <3>2. CASE Final(n)
      <4>1. PICK h \in Segments : Final(h) /\ b = h + Len(Frames(h)) - 1
        BY <1>8
      <4>2. n <= h /\ h <= n /\ n \in Nat /\ h \in Nat
        BY <1>9, <3>2, <4>1 DEF Final
      <4>3. n = h
        BY <4>2
      <4>4. n + Len(Frames(n)) - 1 = b /\ b <= b
        BY <4>1, <4>3, <1>6
      <4>5. /\ \A m \in Segments : n < m => n + Len(Frames(n)) - 1 <= m
            /\ n # 0 => \E m \in Segments : m < n /\ n = m + Len(Frames(m)) - 1
        BY <1>3 DEF Trail, Chained
      <4> QED
        BY <4>4, <4>5
    <3> QED
      BY <3>1, <3>2
  <2>2. /\ \A m \in Segments \cup {b} : ~(b < m)
        /\ b # 0 => \E m \in Segments : m < b /\ b = m + Len(Frames(m)) - 1
    BY <1>6, <1>8, <1>9
  <2> QED
    BY <1>12, <1>13, <1>14, <2>1, <2>2 DEF Chained
<1>18. Safe'
  <2>1. \A a \in acks : \A n \in Segments : \A k \in Nat : Stored(a, n, k) => Stored(a, n, k)'
    BY <1>13 DEF Stored
  <2> QED
    BY <1>2, <1>3, <1>12, <2>1 DEF Trail, Safe
<1>19. InProcess'
  BY <1>2, <1>7, <1>12, <1>13 DEF InProcess, Calm, Creating, Booting
<1>20. Started'
  BY <1>2 DEF WriterInv, Started, Holding, Growing, Creating
<1>21. Newborn' /\ Scanning'
  BY <1>1, <1>2, <1>7, <1>11, <1>12, <1>13, <1>14 DEF Newborn, Scanning
<1> QED
  BY <1>10, <1>15, <1>16, <1>17, <1>18, <1>19, <1>20, <1>21 DEF WriterInv, Trail

LEMMA SyncDirHolds == WriterInv /\ SyncDir => WriterInv'
<1> SUFFICES ASSUME WriterInv, SyncDir PROVE WriterInv'
  OBVIOUS
<1>1. PICK b : b = seq
  OBVIOUS
<1>2. /\ pc = "syncDir" /\ pc' = (IF cur = 0 THEN "idle" ELSE "write") /\ kept' = entries
      /\ active' = entries[b] /\ size' = 1
      /\ dir' = dir /\ entries' = entries /\ contents' = contents /\ synced' = synced
      /\ acks' = acks /\ emits' = emits /\ cur' = cur /\ seq' = seq
  BY <1>1 DEF SyncDir
<1>3. WriterTyped /\ Trail
  BY DEF WriterInv
<1>4. b \in Segments /\ Final(b) /\ Frames(b) = <<Header>>
  BY <1>1, <1>2 DEF WriterInv, Newborn
<1>5. b \in Starts /\ b \in Nat /\ entries[b] \in Inodes
  BY <1>3, <1>4, FileTyped
<1>6. dir = "kept" /\ \A n \in Segments : Synced(n) = Frames(n)
  BY <1>2 DEF WriterInv, InProcess, Calm, Creating
<1>7. WriterTyped'
  BY <1>2, <1>3, <1>5 DEF WriterTyped, Pcs
<1>8. SameTrail
  BY <1>2, <1>3 DEF SameTrail, Frames, Synced, WriterTyped
<1>9. Trail'
  <2>1. Pinned'
    BY <1>2, <1>3, <1>6, AllPinned
  <2> QED
    BY <1>3, <1>7, <1>8, <2>1, Unmoved DEF Trail
<1>10. Segments' = Segments /\ \A n : Final(n)' <=> Final(n)
  BY <1>2, SameSegments
<1>11. InProcess'
  BY <1>2, <1>6, <1>8, <1>10 DEF InProcess, Calm, Creating, Booting, SameTrail
<1>12. Held(b)'
  <2>1. Frames(b)' = <<Header>> /\ Synced(b)' = <<Header>>
    BY <1>4, <1>6, <1>8 DEF SameTrail
  <2>2. seq' = b + 1 - 1
    BY <1>1, <1>2, <1>5
  <2>3. \A k \in 1 .. 1 : <<Header>>[k] # Torn
    BY Frame
  <2> QED
    BY <1>2, <1>4, <1>10, <2>1, <2>2, <2>3, Frame DEF Held, Creating
<1>13. Started'
  BY <1>2, <1>5, <1>12 DEF WriterInv, Started, Holding, Growing, Creating
<1>14. Newborn' /\ Scanning'
  BY <1>2 DEF Newborn, Scanning
<1> QED
  BY <1>7, <1>9, <1>11, <1>13, <1>14 DEF WriterInv

LEMMA CreateFailsHolds == WriterInv /\ CreateFails => WriterInv'
<1> SUFFICES ASSUME WriterInv, CreateFails PROVE WriterInv'
  OBVIOUS
<1>1. /\ pc \in Creating /\ pc' = (IF cur = 0 THEN "down" ELSE "poisoned")
      /\ entries' \in {entries, [entries EXCEPT ![Temp] = NoInode]}
      /\ dir' = dir /\ kept' = kept /\ contents' = contents /\ synced' = synced
      /\ acks' = acks /\ emits' = emits /\ cur' = cur /\ seq' = seq /\ active' = active /\ size' = size
  BY DEF CreateFails
<1>2. WriterTyped /\ Trail
  BY DEF WriterInv
<1>3. \A n \in Starts : entries'[n] = entries[n]
  BY <1>1, <1>2, StartsAre DEF WriterTyped
<1>4. WriterTyped'
  BY <1>1, <1>2 DEF WriterTyped, Pcs
<1>5. SameTrail
  <2>1. \A n \in Segments : Frames(n)' = Frames(n) /\ Synced(n)' = Synced(n)
    BY <1>1, <1>2, <1>3, FileTyped DEF Frames, Synced
  <2> QED
    BY <1>1, <1>2, <1>3, <2>1 DEF SameTrail, WriterTyped
<1>6. dir = "kept"
  BY <1>1 DEF WriterInv, InProcess, Creating
<1>7. Trail'
  BY <1>1, <1>2, <1>4, <1>5, <1>6, Undisturbed
<1> QED
  BY <1>1, <1>4, <1>6, <1>7, Stopped DEF WriterInv

-----------------------------------------------------------------------------
(* The system *)

LEMMA SettleHolds == WriterInv /\ Settle => WriterInv'
<1> SUFFICES ASSUME WriterInv, Settle PROVE WriterInv'
  OBVIOUS
<1>1. /\ dir' = (IF dir = "seen" THEN "kept" ELSE dir) /\ kept' = entries /\ synced' = contents
      /\ entries' = entries /\ contents' = contents /\ pc' = pc
      /\ acks' = acks /\ emits' = emits /\ cur' = cur /\ seq' = seq /\ active' = active /\ size' = size
  BY DEF Settle
<1>2. WriterTyped /\ Trail
  BY DEF WriterInv
<1>3. WriterTyped'
  BY <1>1, <1>2 DEF WriterTyped
<1>4. Segments' = Segments /\ \A n : Final(n)' <=> Final(n)
  BY <1>1, SameSegments
<1>5. \A n : Frames(n)' = Frames(n) /\ Synced(n)' = Frames(n)
  BY <1>1 DEF Frames, Synced
<1>6. Pinned'
  <2>1. dir' # "kept" => \A n \in Names : entries[n] = NoInode
    BY <1>1, <1>2 DEF WriterTyped, Trail, Pinned
  <2>2. \A m, n \in Segments : entries[m] = entries[n] => m = n
    BY <1>2 DEF Trail, Pinned
  <2> QED
    BY <1>1, <1>4, <2>1, <2>2 DEF Pinned
<1>7. Lawful'
  <2>1. \A n \in Segments : Near(Frames(n), Frames(n))
    BY <1>2, FileTyped, NearSame
  <2> QED
    BY <1>1, <1>2, <1>4, <1>5, <2>1 DEF Trail, Lawful
<1>8. Chained'
  BY <1>2, <1>4, <1>5 DEF Trail, Chained
<1>9. Safe'
  <2>1. ASSUME NEW a \in acks, NEW n \in Segments, NEW k \in Nat, Stored(a, n, k) PROVE Stored(a, n, k)'
    <3>1. Len(Frames(n)) \in Nat
      BY <1>2, FileTyped
    <3> QED
      BY <1>5, <2>1, <3>1 DEF Stored
  <2> QED
    BY <1>1, <1>2, <2>1, StillSafe
<1>10. InProcess'
  BY <1>1, <1>4, <1>5 DEF WriterInv, InProcess
<1>11. ASSUME NEW h \in Starts, Held(h) PROVE Held(h)'
  BY <1>1, <1>4, <1>5, <1>11 DEF Held
<1>12. Started'
  BY <1>1, <1>4, <1>11 DEF WriterInv, Started
<1>13. Newborn'
  BY <1>1, <1>4, <1>5 DEF WriterInv, Newborn
<1>14. Scanning'
  BY <1>1, <1>4 DEF WriterInv, Scanning, Unread
<1> QED
  BY <1>3, <1>6, <1>7, <1>8, <1>9, <1>10, <1>12, <1>13, <1>14 DEF WriterInv, Trail

LEMMA SurvivorsTyped ==
  ASSUME WriterTyped, NEW i \in Inodes
  PROVE  Survivors(i) \subseteq Files
<1> DEFINE c == contents[i]
           s == synced[i]
           S == {k \in 0 .. Len(c) : k <= Len(s) /\ Prefix(c, k) = Prefix(s, k)}
           same == Max(S)
<1>1. c \in Files /\ s \in Files /\ Len(c) \in Nat /\ Len(s) \in Nat
  BY Elements DEF WriterTyped
<1>2. Survivors(i) = Cuts(c, same) \cup Cuts(s, same)
  BY DEF Survivors, Cuts
<1> HIDE DEF c, s
<1>3. S \subseteq 0 .. Len(c)
  OBVIOUS
<1>4. 0 \in S
  <2>1. SubSeq(c, 1, 0) = SubSeq(s, 1, 0)
    BY <1>1, Cutting, SameFrames
  <2> QED
    BY <1>1, <2>1 DEF Prefix
<1>5. same \in Nat
  <2>1. same \in S
    BY <1>1, <1>3, <1>4, MaxFacts
  <2> QED
    BY <1>1, <1>3, <2>1
<1> HIDE DEF S, same
<1>6. ASSUME NEW t \in {c, s}, NEW x \in Cuts(t, same) PROVE x \in Files
  <2>1. t \in Files /\ Len(t) \in Nat
    BY <1>1
  <2>2. \A k \in same .. Len(t) : Prefix(t, k) \in Files
    <3> TAKE k \in same .. Len(t)
    <3>1. k \in Nat /\ k <= Len(t)
      BY <1>5, <2>1
    <3> QED
      BY <2>1, <3>1, Cutting DEF Prefix
  <2>3. \A k \in same .. Len(t) - 1 : k \in same .. Len(t)
    BY <1>5, <2>1
  <2>4. \A k \in same .. Len(t) - 1 : Append(Prefix(t, k), Torn) \in Files
    BY <2>2, <2>3, Frame, Growth
  <2> QED
    BY <2>2, <2>4 DEF Cuts
<1> QED
  BY <1>2, <1>6

\* What a power loss leaves of the disk.
Left(i) == contents'[i] = contents[i] \/ contents'[i] \in Survivors(i)

LEMMA PowerLossIs ==
  ASSUME WriterTyped, PowerLoss
  PROVE  /\ \A n \in Names : entries'[n] \in {entries[n], kept[n], NoInode}
         /\ dir = "kept" => dir' = "kept"
         /\ dir' = "kept" => \A n \in Names : entries'[n] \in {entries[n], kept[n]}
         /\ dir' \in {"absent", "kept"}
         /\ dir' # "kept" => \A n \in Names : entries'[n] = NoInode
         /\ kept' = entries' /\ synced' = contents'
         /\ entries' \in [Names -> Inodes \cup {NoInode}] /\ contents' \in [Inodes -> Files]
         /\ \A n \in Names : entries'[n] # NoInode =>
              /\ contents[entries'[n]] = synced[entries'[n]] => contents'[entries'[n]] = contents[entries'[n]]
              /\ Left(entries'[n])
<1>1. dir' \in {"absent", "kept"} /\ (dir = "kept" => dir' = "kept")
  BY DEF PowerLoss, WriterTyped
<1>2. PICK lost \in SUBSET {n \in Names : entries[n] # kept[n]} :
        entries' = [n \in Names |-> IF dir' = "absent" THEN NoInode
                                    ELSE IF n \in lost THEN kept[n] ELSE entries[n]]
  BY DEF PowerLoss
<1>3. PICK left \in [{i \in Inodes : contents[i] # synced[i]} -> UNION {Survivors(i) : i \in Inodes}] :
        /\ \A i \in DOMAIN left : left[i] \in Survivors(i)
        /\ contents' = [i \in Inodes |->
                          IF \A n \in Names : entries'[n] # i THEN <<>>
                          ELSE IF i \in DOMAIN left THEN left[i] ELSE contents[i]]
  BY DEF PowerLoss
<1>4. kept' = entries' /\ synced' = contents'
  BY DEF PowerLoss
<1>5. entries' \in [Names -> Inodes \cup {NoInode}]
  BY <1>2 DEF WriterTyped
<1>6. DOMAIN left = {i \in Inodes : contents[i] # synced[i]}
  OBVIOUS
<1>7. ASSUME NEW i \in Inodes
      PROVE  /\ contents'[i] = <<>> \/ contents'[i] = contents[i] \/ contents'[i] \in Survivors(i)
             /\ \A n \in Names : entries'[n] = i =>
                  Left(i) /\ (contents[i] = synced[i] => contents'[i] = contents[i])
  BY <1>3, <1>6 DEF Left
<1>8. contents' \in [Inodes -> Files]
  <2>1. \A i \in Inodes : contents'[i] \in Files
    BY <1>7, SurvivorsTyped, Frame DEF WriterTyped
  <2> QED
    BY <1>3, <2>1
<1>9. ASSUME NEW n \in Names, entries'[n] # NoInode
      PROVE  /\ contents[entries'[n]] = synced[entries'[n]] => contents'[entries'[n]] = contents[entries'[n]]
             /\ Left(entries'[n])
  BY <1>5, <1>7, <1>9
<1> QED
  BY <1>1, <1>2, <1>4, <1>5, <1>8, <1>9

LEMMA PowerLossHolds == WriterInv /\ PowerLoss => WriterInv'
<1> SUFFICES ASSUME WriterInv, PowerLoss PROVE WriterInv'
  OBVIOUS
<1>1. /\ pc' = "down" /\ cur' = 0 /\ seq' = 0 /\ active' = NoInode /\ size' = 0
      /\ acks' = acks /\ emits' = emits
  BY DEF PowerLoss, Forget
<1>2. WriterTyped /\ Trail
  BY DEF WriterInv
<1>3. /\ \A n \in Names : entries'[n] \in {entries[n], kept[n], NoInode}
      /\ dir = "kept" => dir' = "kept"
      /\ dir' = "kept" => \A n \in Names : entries'[n] \in {entries[n], kept[n]}
      /\ dir' \in {"absent", "kept"}
      /\ dir' # "kept" => \A n \in Names : entries'[n] = NoInode
      /\ kept' = entries' /\ synced' = contents'
      /\ entries' \in [Names -> Inodes \cup {NoInode}] /\ contents' \in [Inodes -> Files]
      /\ \A n \in Names : entries'[n] # NoInode =>
           /\ contents[entries'[n]] = synced[entries'[n]] => contents'[entries'[n]] = contents[entries'[n]]
           /\ Left(entries'[n])
  BY <1>2, PowerLossIs
<1>4. WriterTyped'
  BY <1>1, <1>2, <1>3 DEF WriterTyped, Pcs
<1>5. CASE dir # "kept"
  <2>1. \A n \in Names : entries[n] = NoInode /\ entries'[n] = NoInode
    BY <1>2, <1>3, <1>5 DEF Trail, Pinned
  <2>2. Segments = {} /\ Segments' = {}
    BY <2>1, StartsAre DEF Segments
  <2>3. acks = {}
    BY <1>2, <2>2 DEF Trail, Safe
  <2>4. Trail'
    BY <1>1, <1>3, <2>1, <2>2, <2>3 DEF Trail, Pinned, Lawful, Chained, Safe
  <2> QED
    BY <1>1, <1>4, <2>4, Stopped DEF WriterInv
<1>6. CASE dir = "kept"
  <2>1. ASSUME NEW n \in Starts
        PROVE  \/ entries'[n] = entries[n]
               \/ entries'[n] = NoInode /\ n \in Segments /\ Final(n) /\ Frames(n) = <<Header>>
    <3>1. n \in Names
      BY StartsAre
    <3>2. entries'[n] \in {entries[n], kept[n]}
      BY <1>3, <1>6, <3>1
    <3> QED
      BY <1>2, <3>2 DEF Trail, Pinned
  <2>2. \A n \in Segments' : n \in Segments /\ n \in Starts /\ entries'[n] = entries[n] /\ entries'[n] # NoInode
    BY <2>1 DEF Segments
  <2>3. \A n \in Segments : n \in Segments' \/ (Final(n) /\ Frames(n) = <<Header>>)
    BY <2>1 DEF Segments
  <2>4. ASSUME NEW n \in Segments'
        PROVE  /\ Synced(n)' = Frames(n)' /\ Frames(n)' \in Files
               /\ Ended(Frames(n)', n, emits)
               /\ Synced(n) = Frames(n) => Frames(n)' = Frames(n)
               /\ \A k \in Nat : k <= Len(Frames(n)) /\ k <= Len(Synced(n)) =>
                    k <= Len(Frames(n)') /\ (k >= 1 => Frames(n)'[k] = Frames(n)[k])
    <3>1. PICK i : i = entries[n]
      OBVIOUS
    <3>2. n \in Segments /\ n \in Names /\ entries'[n] = i /\ i # NoInode
      BY <2>2, <3>1, StartsAre
    <3>3. i \in Inodes /\ n \in Nat /\ Frames(n) = contents[i] /\ Synced(n) = synced[i]
      BY <1>2, <3>1, <3>2, FileTyped DEF Frames, Synced
    <3>4. Frames(n)' = contents'[i] /\ Synced(n)' = contents'[i] /\ contents'[i] \in Files
      BY <1>3, <3>2, <3>3 DEF Frames, Synced
    <3>5. Ended(contents[i], n, emits) /\ Ended(synced[i], n, emits) /\ Near(contents[i], synced[i])
      BY <1>2, <3>2, <3>3 DEF Trail, Lawful
    <3>6. contents[i] = synced[i] => contents'[i] = contents[i]
      BY <1>3, <3>2
    <3>7. /\ Ended(contents'[i], n, emits)
          /\ \A k \in Nat : k <= Len(contents[i]) /\ k <= Len(synced[i]) =>
               k <= Len(contents'[i]) /\ (k >= 1 => contents'[i][k] = contents[i][k])
      <4>1. CASE contents'[i] = contents[i]
        BY <3>5, <4>1
      <4>2. CASE contents'[i] \in Survivors(i)
        BY <1>2, <3>3, <3>5, <4>2, Survived
      <4>3. Left(i)
        BY <1>3, <3>2
      <4> QED
        BY <4>1, <4>2, <4>3 DEF Left
    <3> QED
      BY <3>3, <3>4, <3>6, <3>7
  <2>5. ASSUME NEW n \in Segments', ~Final(n)
        PROVE  /\ Frames(n)' = Frames(n) /\ Synced(n) = Frames(n)
               /\ Whole(Frames(n)) /\ Len(Frames(n)) >= 2 /\ n + Len(Frames(n)) - 1 \in Segments
    <3>1. n \in Segments
      BY <2>2
    <3>2. Synced(n) = Frames(n) /\ Whole(Frames(n)) /\ Len(Frames(n)) >= 2 /\ n + Len(Frames(n)) - 1 \in Segments
      BY <1>2, <2>5, <3>1 DEF Trail, Lawful, Chained
    <3> QED
      BY <2>4, <3>2
  <2>6. \A n \in Segments : n \in Nat /\ Len(Frames(n)) \in Nat
    BY <1>2, FileTyped
  <2>7. \A n, m \in Segments : n < m => ~Final(n)
    BY <2>6 DEF Final
  <2>8. \A n \in Segments' : ~Final(n)' => \E m \in Segments' : n < m
    BY <2>2, <2>6 DEF Final
  <2>9. \A n \in Segments' : ~Final(n)' => ~Final(n)
    BY <2>2, <2>7, <2>8
  <2>10. Pinned'
    <3>1. \A m, n \in Segments' : entries'[m] = entries'[n] => m = n
      BY <1>2, <2>2 DEF Trail, Pinned
    <3> QED
      BY <1>3, <1>6, <3>1 DEF Pinned
  <2>11. Lawful'
    <3>1. \A n \in Segments' : Near(Frames(n)', Frames(n)')
      BY <2>4, NearSame
    <3> QED
      BY <1>1, <2>4, <2>5, <2>9, <3>1 DEF Lawful
  <2>12. Chained'
    <3>1. ASSUME NEW n \in Segments'
          PROVE  /\ ~Final(n)' => n + Len(Frames(n)') - 1 \in Segments'
                 /\ \A m \in Segments' : n < m => n + Len(Frames(n)') - 1 <= m
                 /\ n # 0 => \E m \in Segments' : m < n /\ n = m + Len(Frames(m)') - 1
      <4>1. /\ \A m \in Segments : n < m => n + Len(Frames(n)) - 1 <= m
            /\ n # 0 => \E m \in Segments : m < n /\ n = m + Len(Frames(m)) - 1
        BY <1>2, <2>2 DEF Trail, Chained
      <4>2. \A m \in Segments' : n < m => n + Len(Frames(n)') - 1 <= m
        BY <2>2, <2>5, <2>7, <4>1
      <4>3. ASSUME ~Final(n)' PROVE n + Len(Frames(n)') - 1 \in Segments'
        <5>1. PICK m \in Segments' : n < m
          BY <2>8, <4>3
        <5>2. PICK p : p = n + Len(Frames(n)) - 1
          OBVIOUS
        <5>3. Frames(n)' = Frames(n) /\ p \in Segments /\ p <= m
          BY <2>2, <2>5, <2>9, <4>1, <4>3, <5>1, <5>2
        <5>4. CASE p \in Segments'
          BY <5>2, <5>3, <5>4
        <5>5. CASE Final(p)
          <6>1. m <= p /\ m \in Nat /\ p \in Nat
            BY <2>2, <2>6, <5>3, <5>5 DEF Final
          <6>2. p = m
            BY <5>3, <6>1
          <6> QED
            BY <5>1, <5>2, <5>3, <6>2
        <5> QED
          BY <2>3, <5>3, <5>4, <5>5
      <4>4. ASSUME n # 0 PROVE \E m \in Segments' : m < n /\ n = m + Len(Frames(m)') - 1
        <5>1. PICK m \in Segments : m < n /\ n = m + Len(Frames(m)) - 1
          BY <4>1, <4>4
        <5>2. ~Final(m)
          BY <2>2, <2>7, <5>1
        <5>3. m \in Segments'
          BY <2>3, <5>2
        <5> QED
          BY <2>5, <5>1, <5>2, <5>3
      <4> QED
        BY <4>2, <4>3, <4>4
    <3> QED
      BY <3>1 DEF Chained
  <2>13. Safe'
    <3>1. ASSUME NEW a \in acks, NEW n \in Segments, NEW k \in Nat, Stored(a, n, k)
          PROVE  n \in Segments' /\ Stored(a, n, k)'
      <4>1. k \in 2 .. Len(Frames(n)) /\ k <= Len(Synced(n)) /\ Frames(n)[k] = a /\ a.seq = n + k - 2
        BY <3>1 DEF Stored
      <4>2. k >= 1 /\ k >= 2 /\ k <= Len(Frames(n)) /\ Len(Frames(n)) # 1
        BY <2>6, <4>1
      <4>3. n \in Segments'
        BY <2>3, <4>2, Frame
      <4>4. k <= Len(Frames(n)') /\ Frames(n)'[k] = a
        BY <2>4, <4>1, <4>2, <4>3
      <4>5. Len(Frames(n)') \in Nat /\ Synced(n)' = Frames(n)'
        BY <2>4, <4>3, Elements
      <4>6. k \in 2 .. Len(Frames(n)')
        BY <4>2, <4>4, <4>5
      <4> QED
        BY <4>1, <4>3, <4>4, <4>5, <4>6 DEF Stored
    <3>2. \A a \in acks : a.seq \in Nat /\ \E n \in Segments : \E k \in Nat : Stored(a, n, k)
      BY <1>2 DEF Trail, Safe
    <3> QED
      BY <1>1, <3>1, <3>2 DEF Safe
  <2> QED
    BY <1>1, <1>4, <2>10, <2>11, <2>12, <2>13, Stopped DEF WriterInv, Trail
<1> QED
  BY <1>5, <1>6

-----------------------------------------------------------------------------
LEMMA StutterHolds == WriterInv /\ UNCHANGED writerVars => WriterInv'
<1> SUFFICES ASSUME WriterInv, UNCHANGED writerVars PROVE WriterInv'
  OBVIOUS
<1>1. /\ dir' = dir /\ entries' = entries /\ kept' = kept /\ contents' = contents /\ synced' = synced
      /\ pc' = pc /\ cur' = cur /\ seq' = seq /\ active' = active /\ size' = size
      /\ acks' = acks /\ emits' = emits
  OBVIOUS
<1>2. WriterTyped /\ Trail
  BY DEF WriterInv
<1>3. WriterTyped'
  BY <1>1, <1>2 DEF WriterTyped
<1>4. Segments' = Segments /\ \A n : Final(n)' <=> Final(n)
  BY <1>1, SameSegments
<1>5. \A n : Frames(n)' = Frames(n) /\ Synced(n)' = Synced(n)
  BY <1>1 DEF Frames, Synced
<1>6. Trail'
  <2>1. SameTrail
    BY <1>1, <1>2, <1>5 DEF SameTrail, WriterTyped
  <2> QED
    BY <1>1, <1>2, <1>3, <2>1, Undisturbed
<1>7. InProcess'
  BY <1>1, <1>4, <1>5 DEF WriterInv, InProcess
<1>8. ASSUME NEW h \in Starts, Held(h) PROVE Held(h)'
  BY <1>1, <1>4, <1>5, <1>8 DEF Held
<1>9. Started' /\ Newborn' /\ Scanning'
  BY <1>1, <1>4, <1>5, <1>8 DEF WriterInv, Started, Newborn, Scanning, Unread
<1> QED
  BY <1>3, <1>6, <1>7, <1>9 DEF WriterInv

LEMMA WriterStep == Settles /\ WriterInv /\ [WriterNext]_writerVars => WriterInv'
<1> SUFFICES ASSUME Settles, WriterInv, [WriterNext]_writerVars PROVE WriterInv'
  OBVIOUS
<1>1. CASE Boot \/ SyncParent \/ CleanTemps \/ SyncClean \/ Scan \/ Truncate \/ SyncTruncate \/ BootFails
  BY <1>1, BootHolds, SyncParentHolds, CleanTempsHolds, SyncCleanHolds, ScanHolds, TruncateHolds,
     SyncTruncateHolds, BootFailsHolds
<1>2. CASE CreateTemp \/ SyncTemp \/ Rename \/ SyncDir \/ CreateFails
  BY <1>2, CreateTempHolds, SyncTempHolds, RenameHolds, SyncDirHolds, CreateFailsHolds
<1>3. CASE Commit \/ Write \/ Fsync \/ FsyncFails \/ Discard
  BY <1>3, CommitHolds, WriteHolds, FsyncHolds, FsyncFailsHolds, DiscardHolds
<1>4. CASE Die \/ Settle \/ PowerLoss
  BY <1>4, DieHolds, SettleHolds, PowerLossHolds
<1>5. CASE UNCHANGED writerVars
  BY <1>5, StutterHolds
<1> QED
  BY <1>1, <1>2, <1>3, <1>4, <1>5 DEF WriterNext

\* The invariant of the trail holds in every state: its segments follow on each other, only the
\* last one may end in a torn frame or lack its entry on the disk, and every acknowledged record
\* is in what is both seen and on the disk (internal/audit/writer.go).
THEOREM WriterInvariance == ASSUME Settles PROVE WriterSpec => []WriterInv
<1>1. Settles
  OBVIOUS
<1> QED
  BY <1>1, InitHolds, WriterStep, PTL DEF WriterSpec

\* Whatever failed, crashed or lost power, recovery reads every record that Emit returned an Ack
\* for, however many emissions and failures there were.
THEOREM AcksSurvive == ASSUME Settles PROVE WriterSpec => []AckedSurvives
<1>1. WriterInv => AckedSurvives
  BY ReadsAcked DEF WriterInv
<1> QED
  BY <1>1, WriterInvariance, PTL

\* The trail that recovery reads is numbered from 0 without a gap or a repetition.
THEOREM TrailInSequence == ASSUME Settles PROVE WriterSpec => []InSequence
<1>1. WriterInv => InSequence
  BY ReadsInSequence DEF WriterInv
<1> QED
  BY <1>1, WriterInvariance, PTL

\* No failure or crash leaves a trail that New refuses.
THEOREM AlwaysBoots == ASSUME Settles PROVE WriterSpec => []BootsAgain
<1>1. WriterInv => BootsAgain
  BY ReadsOn DEF WriterInv
<1> QED
  BY <1>1, WriterInvariance, PTL
=============================================================================
