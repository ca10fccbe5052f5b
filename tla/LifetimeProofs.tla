----------------------------- MODULE LifetimeProofs -----------------------------
(***************************************************************************)
(* What outlives a process.  First the store over its releases, for every   *)
(* set of intents, releases and marker shapes and every bound (StoreOpen).  *)
(*                                                                          *)
(* Then the sentinel over the lifetimes of processes (Sentinel): that no    *)
(* restart forgets a halt, for any number of processes in a row.  What is   *)
(* owed is blocked while a process runs (OwedBlocks) and keeps the store    *)
(* from saying clean (CleanIsEarned); each carries the other over one half  *)
(* of a lifetime: a boot over anything but a clean raises the boot halt,    *)
(* and a shutdown writes a clean only in a state where nothing blocks       *)
(* (Judged) and nothing that could halt is left (DrainedIsQuiet).           *)
(***************************************************************************)
EXTENDS StoreOpen, Sentinel, TLAPS

-----------------------------------------------------------------------------
(* The store: StoreOpen *)

Kinds == {m.kind : m \in Shapes} \cup {"prepared"}
Orders == {m.orderId : m \in Shapes} \cup {NoOrder}
Rows == [intent : Intents, kind : Kinds, orderId : Orders, at : Nat]

\* The schema the migrations up to v leave.
SchemaAt(v) ==
  IF v = 0 THEN {}
  ELSE {"intents", "markers", "counters"}
       \cup (IF v = 1 THEN {"halt.halted"} ELSE {"halt.state", "lifecycle"})
       \cup (IF v >= 3 THEN {"fully_audited_at", "audit_acks"} ELSE {})
       \cup (IF v >= 4 THEN {"ux_markers_intent_kind"} ELSE {"idx_markers_intent"})
       \cup (IF v >= 5 THEN {"idx_intents_prunable"} ELSE {})

Typed ==
  /\ version \in 0 .. 5 /\ clock \in Nat \ {0}
  /\ markers \in Seq(Rows)
  /\ DOMAIN resolved \subseteq Intents /\ \A i \in DOMAIN resolved : resolved[i] \in Nat
  /\ \A s \in DOMAIN markers : markers[s].intent \in DOMAIN resolved
  /\ stepped \in BOOLEAN /\ tripped \in BOOLEAN

Procs ==
  [at : {"down", "connect", "migrate", "open"}, release : Releases \cup {0}, next : 0 .. 6]

\* The version says which objects there are, in which form the halt row is, and where in
\* the ladder Open is.
Versioned ==
  /\ proc \in Procs
  /\ schema = SchemaAt(version)
  /\ halt = IF version = 0 THEN "absent"
            ELSE IF version = 1 THEN IF tripped THEN "1" ELSE "0"
            ELSE IF tripped THEN "halted" ELSE "none"
  /\ version = 0 => ~tripped
  /\ proc.at \in {"connect", "migrate", "open"} => proc.release \in Releases
  /\ proc.at = "migrate" => proc.next = version + 1
  /\ proc.at = "open" => version >= 1
  /\ refusal # "none" => proc.at = "down"

\* A late marker's intent is resolved.
LateIsLate ==
  \A s \in late : s \in DOMAIN markers /\ resolved[markers[s].intent] # 0

\* Unless the clock was set back, no time is ahead of it, and a marker that is later than
\* its intent's resolution was appended after it.
Ordered ==
  ~stepped =>
    /\ \A s \in DOMAIN markers : markers[s].at <= clock
    /\ \A s \in DOMAIN markers \ late :
         resolved[markers[s].intent] # 0 => markers[s].at <= resolved[markers[s].intent]

IInv ==
  /\ Typed /\ Versioned /\ LateIsLate /\ Ordered
  /\ JournalIsKept /\ LawfulSinceV4 /\ RefusalIsEarned
-----------------------------------------------------------------------------
(* Markers and migrations *)

LEMMA AppendFacts ==
  ASSUME NEW ms \in Seq(Rows), NEW m \in Rows
  PROVE  /\ Append(ms, m) \in Seq(Rows)
         /\ Len(ms) \in Nat /\ DOMAIN ms = 1 .. Len(ms)
         /\ DOMAIN Append(ms, m) = 1 .. (Len(ms) + 1)
         /\ \A s \in 1 .. Len(ms) : Append(ms, m)[s] = ms[s]
         /\ Append(ms, m)[Len(ms) + 1] = m
  OBVIOUS

LEMMA CopiedSame ==
  ASSUME NEW ms \in Seq(Rows)
  PROVE  Copied(ms) = ms
  BY DEF Copied

LEMMA TimesTyped ==
  ASSUME Typed, NEW s \in DOMAIN markers
  PROVE  /\ markers[s].intent \in DOMAIN resolved
         /\ markers[s].at \in Nat /\ resolved[markers[s].intent] \in Nat
  <1>1. markers[s] \in Rows
    BY DEF Typed
  <1>2. markers[s].at \in Nat
    BY <1>1 DEF Rows
  <1>3. markers[s].intent \in DOMAIN resolved
    BY DEF Typed
  <1>4. QED
    BY <1>2, <1>3 DEF Typed

\* Every migration finds the schema the one before it left, and leaves its own.
LEMMA LadderRuns ==
  ASSUME NEW v \in 1 .. 5, schema = SchemaAt(v - 1)
  PROVE  /\ DDLRuns(v)
         /\ (schema \ Migrations[v].drops) \cup Migrations[v].adds = SchemaAt(v)
  <1>1. CASE v = 1
    BY <1>1 DEF DDLRuns, SchemaAt, Migrations
  <1>2. CASE v = 2
    BY <1>2 DEF DDLRuns, SchemaAt, Migrations
  <1>3. CASE v = 3
    BY <1>3 DEF DDLRuns, SchemaAt, Migrations
  <1>4. CASE v = 4
    BY <1>4 DEF DDLRuns, SchemaAt, Migrations
  <1>5. CASE v = 5
    BY <1>5 DEF DDLRuns, SchemaAt, Migrations
  <1>6. QED
    BY <1>1, <1>2, <1>3, <1>4, <1>5

\* A journal that V4 does not refuse is lawful.
LEMMA UnrefusedIsLawful ==
  ASSUME Typed, LateIsLate, Violations(4) = {}
  PROVE  Lawful
  <1>1. /\ OrderProbe(markers) = {} /\ TerminalProbe(markers, resolved) = {}
        /\ ShapeChecks(markers) = {} /\ UniqueIndex(markers) = {}
    BY DEF Violations
  <1>2. Len(markers) \in Nat /\ DOMAIN markers = 1 .. Len(markers)
    BY DEF Typed
  <1>3. ASSUME NEW s \in DOMAIN markers
        PROVE  /\ markers[s].kind \in MarkerKinds
               /\ markers[s].kind = "acked" <=> markers[s].orderId # NoOrder
    BY <1>1 DEF ShapeChecks
  <1>4. ASSUME NEW s \in DOMAIN markers, markers[s].kind # "prepared"
        PROVE  \E p \in 1 .. s - 1 : /\ markers[p].intent = markers[s].intent
                                     /\ markers[p].kind = Predecessor(markers[s].kind)
    <2>1. Predecessor(markers[s].kind) # "none"
      BY <1>3, <1>4 DEF MarkerKinds, Predecessor
    <2>2. PICK p \in DOMAIN markers : /\ markers[p].intent = markers[s].intent /\ p < s
                                      /\ markers[p].kind = Predecessor(markers[s].kind)
      BY <1>1, <2>1 DEF OrderProbe
    <2>3. p \in 1 .. s - 1
      BY <1>2, <2>2
    <2>4. QED
      BY <2>2, <2>3
  <1>5. ASSUME NEW s \in DOMAIN markers, NEW t \in DOMAIN markers,
               markers[t].intent = markers[s].intent, markers[t].kind = markers[s].kind
        PROVE  s = t
    BY <1>1, <1>5 DEF UniqueIndex
  <1>6. ASSUME NEW s \in late
        PROVE  markers[s].at <= resolved[markers[s].intent]
    <2>1. s \in DOMAIN markers /\ resolved[markers[s].intent] # 0
      BY DEF LateIsLate
    <2>2. ~(markers[s].at > resolved[markers[s].intent])
      BY <1>1, <2>1 DEF TerminalProbe
    <2>3. markers[s].at \in Nat /\ resolved[markers[s].intent] \in Nat
      BY <2>1, TimesTyped
    <2>4. QED
      BY <2>2, <2>3
  <1>7. QED
    BY <1>3, <1>4, <1>5, <1>6 DEF Lawful

\* With an unaltered clock and no late marker, V4 refuses no lawful journal.
LEMMA RefusedForCause ==
  ASSUME Typed, Ordered, Violations(4) # {}, ~stepped, late = {}
  PROVE  OrderProbe(markers) \cup ShapeChecks(markers) \cup UniqueIndex(markers) # {}
  <1>1. TerminalProbe(markers, resolved) = {}
    <2>1. SUFFICES ASSUME NEW s \in DOMAIN markers, resolved[markers[s].intent] # 0,
                          markers[s].at > resolved[markers[s].intent]
                   PROVE  FALSE
      BY DEF TerminalProbe
    <2>2. markers[s].at <= resolved[markers[s].intent]
      BY <2>1 DEF Ordered
    <2>3. markers[s].at \in Nat /\ resolved[markers[s].intent] \in Nat
      BY TimesTyped
    <2>4. QED
      BY <2>1, <2>2, <2>3
  <1>2. QED
    BY <1>1 DEF Violations

-----------------------------------------------------------------------------
(* The invariant *)

LEMMA DownTyped == Down \in Procs
  BY DEF Down, Procs

LEMMA InitIInv == Init => IInv
  <1>1. SUFFICES ASSUME Init PROVE IInv
    OBVIOUS
  <1>2. Typed /\ LateIsLate /\ Ordered
    <2>1. markers = <<>> /\ DOMAIN markers = {} /\ markers \in Seq(Rows)
      BY <1>1 DEF Init
    <2>2. DOMAIN resolved = {}
      BY <1>1 DEF Init
    <2>3. stepped \in BOOLEAN /\ tripped \in BOOLEAN
      BY <1>1 DEF Init
    <2>4. version \in 0 .. 5 /\ clock \in Nat \ {0}
      BY <1>1 DEF Init
    <2>5. Typed
      BY <2>1, <2>2, <2>3, <2>4, Zenon DEF Typed
    <2>6. LateIsLate /\ Ordered
      BY <1>1, <2>1 DEF Init, LateIsLate, Ordered
    <2>7. QED
      BY <2>5, <2>6
  <1>3. Versioned
    BY <1>1, DownTyped DEF Init, Versioned, SchemaAt, Down
  <1>4. JournalIsKept /\ LawfulSinceV4 /\ RefusalIsEarned
    BY <1>1 DEF Init, JournalIsKept, LawfulSinceV4, RefusalIsEarned
  <1>5. QED
    BY <1>2, <1>3, <1>4 DEF IInv

\* A step that leaves the data and the clock alone keeps all that is said of them.
LEMMA DataAlone ==
  ASSUME IInv, UNCHANGED <<data, clock, history>>
  PROVE  /\ Typed' /\ LateIsLate' /\ Ordered' /\ JournalIsKept' /\ LawfulSinceV4'
         /\ schema' = SchemaAt(version)' /\ version' = version /\ halt' = halt /\ tripped' = tripped
         /\ refusal' = refusal => RefusalIsEarned'
  <1>1. Typed' /\ LateIsLate' /\ Ordered'
    BY DEF IInv, Typed, LateIsLate, Ordered, data, history
  <1>2. JournalIsKept' /\ LawfulSinceV4'
    BY DEF IInv, JournalIsKept, LawfulSinceV4, Lawful, data, history
  <1>3. refusal' = refusal => RefusalIsEarned'
    BY DEF IInv, RefusalIsEarned, OrderProbe, ShapeChecks, UniqueIndex, data, history
  <1>4. schema' = SchemaAt(version)' /\ version' = version /\ halt' = halt /\ tripped' = tripped
    BY DEF IInv, Versioned, SchemaAt, data, history
  <1>5. QED
    BY <1>1, <1>2, <1>3, <1>4

\* A step of Open that touches no data.
LEMMA OpenSteps ==
  ASSUME IInv, (\E r \in Releases : Start(r)) \/ Connect \/ Opened \/ Stops
  PROVE  IInv'
  <1>1. UNCHANGED <<data, clock, history>>
    BY Zenon DEF Start, Connect, Opened, Stops
  <1>2. RefusalIsEarned'
    <2>1. refusal' = refusal \/ refusal' \in {"none", "tooNew"}
      BY DEF Start, Connect, Opened, Stops, Refuse
    <2>2. CASE refusal' = refusal
      BY <1>1, <2>2, DataAlone
    <2>3. CASE refusal' \in {"none", "tooNew"}
      BY <2>3 DEF RefusalIsEarned
    <2>4. QED
      BY <2>1, <2>2, <2>3
  <1>3. Versioned'
    <2>1. /\ schema' = SchemaAt(version)' /\ version' = version /\ halt' = halt /\ tripped' = tripped
          /\ Versioned /\ version \in 0 .. 5
      BY <1>1, DataAlone DEF IInv, Typed
    <2>2. CASE \E r \in Releases : Start(r)
      BY <2>1, <2>2 DEF Start, Versioned, Procs
    <2>3. CASE Connect
      <3>1. CASE version > proc.release
        BY <2>1, <2>3, <3>1, DownTyped DEF Connect, Versioned, Refuse, Down
      <3>2. CASE ~(version > proc.release)
        <4>1. /\ proc' = [proc EXCEPT !.at = "migrate", !.next = version + 1]
              /\ proc.at = "connect" /\ refusal' = refusal
          BY <2>3, <3>2 DEF Connect, At
        <4>2. /\ proc' \in Procs /\ proc'.at = "migrate" /\ proc'.next = version + 1
              /\ proc'.release = proc.release
          <5>1. proc \in Procs /\ version + 1 \in 0 .. 6
            BY <2>1 DEF Versioned
          <5>2. QED
            BY <4>1, <5>1 DEF Procs
        <4>3. QED
          BY <2>1, <4>1, <4>2 DEF Versioned
      <3>3. QED
        BY <3>1, <3>2
    <2>4. CASE Opened
      <3>1. /\ proc' = [proc EXCEPT !.at = "open"]
            /\ proc.at = "migrate" /\ proc.next > proc.release /\ refusal' = refusal
        BY <2>4 DEF Opened, At, Goes
      <3>2. /\ proc' \in Procs /\ proc'.at = "open" /\ proc'.release = proc.release
        BY <2>1, <3>1 DEF Versioned, Procs
      <3>3. version >= 1
        BY <2>1, <3>1, StoreOpenAssumption DEF Versioned
      <3>4. QED
        BY <2>1, <3>1, <3>2, <3>3 DEF Versioned
    <2>5. CASE Stops
      BY <2>1, <2>5, DownTyped DEF Stops, Versioned, Down
    <2>6. QED
      BY <2>2, <2>3, <2>4, <2>5
  <1>4. QED
    BY <1>1, <1>2, <1>3, DataAlone DEF IInv

LEMMA MigrateStep ==
  ASSUME IInv, Migrate
  PROVE  IInv'
  <1> DEFINE v == proc.next
  <1>1. /\ proc.at = "migrate" /\ v = version + 1 /\ v <= proc.release
        /\ proc.release \in Releases /\ v \in 1 .. 5 /\ version = v - 1
    <2>1. proc.at = "migrate" /\ v <= proc.release
      BY DEF Migrate, At
    <2>2. v = version + 1 /\ proc.release \in Releases
      BY <2>1 DEF IInv, Versioned
    <2>3. version \in 0 .. 5 /\ proc.release \in 1 .. 5
      BY <2>2, StoreOpenAssumption DEF IInv, Typed
    <2>4. QED
      BY <2>1, <2>2, <2>3
  <1>2. schema = SchemaAt(v - 1)
    BY <1>1 DEF IInv, Versioned
  <1>3. DDLRuns(v) /\ (schema \ Migrations[v].drops) \cup Migrations[v].adds = SchemaAt(v)
    BY <1>1, <1>2, LadderRuns
  <1>4. UNCHANGED <<clock, history>>
    BY Zenon DEF Migrate
  <1>5. CASE Violations(v) # {}
    <2>1. UNCHANGED data /\ Refuse("violation")
      BY <1>3, <1>5, Zenon DEF Migrate
    <2>2. Versioned'
      <3>1. /\ schema' = SchemaAt(version)' /\ version' = version /\ halt' = halt /\ tripped' = tripped
            /\ Versioned
        BY <1>4, <2>1, DataAlone DEF IInv
      <3>2. proc' \in Procs /\ proc'.at = "down"
        BY <2>1, DownTyped DEF Refuse, Down
      <3>3. QED
        BY <3>1, <3>2 DEF Versioned
    <2>3. RefusalIsEarned'
      <3>1. refusal' = "violation" /\ v = 4
        BY <1>5, <2>1 DEF Refuse, Violations
      <3>2. \/ stepped \/ late # {}
            \/ OrderProbe(markers) \cup ShapeChecks(markers) \cup UniqueIndex(markers) # {}
        BY <1>5, <3>1, RefusedForCause DEF IInv
      <3>3. markers' = markers /\ stepped' = stepped /\ late' = late
        BY <1>4, <2>1 DEF data, history
      <3>4. QED
        BY <3>1, <3>2, <3>3 DEF RefusalIsEarned, OrderProbe, ShapeChecks, UniqueIndex
    <2>4. QED
      BY <1>4, <2>1, <2>2, <2>3, DataAlone DEF IInv
  <1>6. CASE Violations(v) = {}
    <2>1. applyMigration(v) /\ UNCHANGED refusal
      BY <1>3, <1>6, Zenon DEF Migrate
    <2>2. /\ version' = v /\ schema' = SchemaAt(v) /\ halt' = HaltAfter(v, halt)
          /\ resolved' = resolved /\ proc' = [proc EXCEPT !.next = v + 1]
          /\ markers' = IF v = 4 THEN Copied(markers) ELSE markers
      BY <1>3, <2>1 DEF applyMigration, Migrated
    <2>3. markers' = markers
      BY <2>2, CopiedSame DEF IInv, Typed
    <2>4. clock' = clock /\ written' = written /\ late' = late /\ tripped' = tripped /\ stepped' = stepped
      BY <1>4, Zenon DEF history
    <2>5. Typed' /\ LateIsLate' /\ Ordered' /\ JournalIsKept'
      <3>1. Typed'
        BY <1>1, <2>2, <2>3, <2>4 DEF IInv, Typed
      <3>2. LateIsLate' /\ Ordered' /\ JournalIsKept'
        BY <2>2, <2>3, <2>4 DEF IInv, LateIsLate, Ordered, JournalIsKept
      <3>3. QED
        BY <3>1, <3>2
    <2>6. LawfulSinceV4'
      <3>1. CASE v = 4
        <4>1. Lawful
          BY <1>6, <3>1, UnrefusedIsLawful DEF IInv
        <4>2. Lawful'
          BY <2>2, <2>3, <2>4, <4>1 DEF Lawful
        <4>3. QED
          BY <4>2 DEF LawfulSinceV4
      <3>2. CASE v # 4
        <4>1. version >= 4 <=> version' >= 4
          <5>1. v \in 1 .. 5 /\ v # 4 /\ version = v - 1 /\ version' = v
            BY <1>1, <2>2, <3>2
          <5> HIDE DEF v
          <5>2. QED
            BY <5>1
        <4>2. Lawful => Lawful'
          BY <2>2, <2>3, <2>4 DEF Lawful
        <4>3. QED
          BY <4>1, <4>2 DEF IInv, LawfulSinceV4
      <3>3. QED
        BY <3>1, <3>2
    <2>7. Versioned'
      <3>1. /\ proc' \in Procs /\ proc'.at = "migrate" /\ proc'.next = v + 1
            /\ proc'.release = proc.release
        <4>1. proc \in Procs /\ v + 1 \in 0 .. 6 /\ proc' = [proc EXCEPT !.next = v + 1]
          <5>1. proc \in Procs
            BY DEF IInv, Versioned
          <5>2. v \in 1 .. 5
            BY <1>1
          <5>3. v + 1 \in 0 .. 6
            <6> HIDE DEF v
            <6>1. QED
              BY <5>2
          <5>4. QED
            BY <2>2, <5>1, <5>3
        <4> HIDE DEF v
        <4>2. QED
          BY <1>1, <4>1 DEF Procs
      <3>2. /\ schema' = SchemaAt(version') /\ version' >= 1 /\ proc'.release \in Releases
            /\ proc'.next = version' + 1
        <4>1. v \in 1 .. 5 /\ version' = v /\ schema' = SchemaAt(v) /\ proc'.next = v + 1
              /\ proc'.release = proc.release /\ proc.release \in Releases
          BY <1>1, <2>2, <3>1
        <4> HIDE DEF v
        <4>2. QED
          BY <4>1
      <3>3. refusal' = "none"
        BY <1>1, <2>1 DEF IInv, Versioned
      <3>4. halt' = IF v = 1 THEN IF tripped THEN "1" ELSE "0"
                    ELSE IF tripped THEN "halted" ELSE "none"
        <4>1. /\ v \in 1 .. 5 /\ version = v - 1 /\ halt' = HaltAfter(v, halt)
              /\ version = 0 => ~tripped
              /\ halt = IF version = 0 THEN "absent"
                        ELSE IF version = 1 THEN IF tripped THEN "1" ELSE "0"
                        ELSE IF tripped THEN "halted" ELSE "none"
          BY <1>1, <2>2 DEF IInv, Versioned
        <4> HIDE DEF v
        <4>2. CASE v = 1
          BY <4>1, <4>2 DEF HaltAfter
        <4>3. CASE v = 2
          BY <4>1, <4>3 DEF HaltAfter
        <4>4. CASE v > 2
          BY <4>1, <4>4 DEF HaltAfter
        <4>5. QED
          BY <4>1, <4>2, <4>3, <4>4
      <3>5. version' = v /\ tripped' = tripped
        BY <2>2, <2>4
      <3> HIDE DEF v
      <3>6. QED
        BY <3>1, <3>2, <3>3, <3>4, <3>5 DEF Versioned
    <2>8. RefusalIsEarned'
      BY <1>1, <2>1 DEF IInv, Versioned, RefusalIsEarned
    <2>9. QED
      BY <2>5, <2>6, <2>7, <2>8 DEF IInv
  <1>7. QED
    BY <1>5, <1>6

\* A step of the open store.
LEMMA AppendIntentStep ==
  ASSUME IInv, NEW i \in Intents, AppendIntent(i)
  PROVE  IInv'
  <1> DEFINE m == Prepared(i)
             n == Len(markers)
  <1>1. /\ markers \in Seq(Rows) /\ m \in Rows /\ clock \in Nat \ {0}
        /\ proc.at = "open" /\ i \notin DOMAIN resolved
        /\ markers' = Append(markers, m) /\ written' = Append(written, m)
        /\ resolved' = [j \in DOMAIN resolved \cup {i} |-> IF j = i THEN 0 ELSE resolved[j]]
    BY DEF IInv, Typed, AppendIntent, Uses, At, Prepared, Rows, Kinds, Orders
  <1>2. UNCHANGED <<version, schema, proc, refusal, clock, stepped, halt, late, tripped>>
    BY Zenon DEF AppendIntent, Uses
  <1>3. /\ n \in Nat /\ DOMAIN markers = 1 .. n /\ DOMAIN markers' = 1 .. (n + 1)
        /\ markers' \in Seq(Rows) /\ \A s \in 1 .. n : markers'[s] = markers[s]
        /\ markers'[n + 1] = m
    BY <1>1, AppendFacts
  <1>4. /\ DOMAIN resolved' = DOMAIN resolved \cup {i} /\ resolved'[i] = 0
        /\ \A j \in DOMAIN resolved : resolved'[j] = resolved[j]
    BY <1>1
  <1>5. m.intent = i /\ m.kind = "prepared" /\ m.orderId = NoOrder /\ m.at = clock
    BY DEF Prepared
  <1>6. \A s \in DOMAIN markers : markers[s].intent \in DOMAIN resolved
    BY DEF IInv, Typed
  <1> HIDE DEF m, n
  <1>7. Typed'
    <2>1. \A j \in DOMAIN resolved' : resolved'[j] \in Nat
      BY <1>4 DEF IInv, Typed
    <2>2. \A s \in DOMAIN markers' : markers'[s].intent \in DOMAIN resolved'
      BY <1>3, <1>4, <1>5, <1>6
    <2>3. QED
      BY <1>2, <1>3, <1>4, <2>1, <2>2 DEF IInv, Typed
  <1>8. LateIsLate'
    BY <1>2, <1>3, <1>4, <1>6 DEF IInv, LateIsLate
  <1>9. Ordered'
    <2>1. SUFFICES ASSUME ~stepped
                   PROVE  /\ \A s \in DOMAIN markers' : markers'[s].at <= clock
                          /\ \A s \in DOMAIN markers' \ late :
                               resolved'[markers'[s].intent] # 0
                               => markers'[s].at <= resolved'[markers'[s].intent]
      BY <1>2 DEF Ordered
    <2>2. \A s \in 1 .. n : markers[s].at <= clock
      BY <1>3, <2>1 DEF IInv, Ordered
    <2>3. \A s \in DOMAIN markers' : markers'[s].at <= clock
      BY <1>1, <1>3, <1>5, <2>2
    <2>4. ASSUME NEW s \in DOMAIN markers' \ late, resolved'[markers'[s].intent] # 0
          PROVE  markers'[s].at <= resolved'[markers'[s].intent]
      <3>1. s \in 1 .. n
        BY <1>3, <1>4, <1>5, <2>4
      <3>2. markers'[s] = markers[s] /\ resolved'[markers[s].intent] = resolved[markers[s].intent]
        BY <1>3, <1>4, <1>6, <3>1
      <3>3. QED
        BY <1>3, <2>1, <2>4, <3>1, <3>2 DEF IInv, Ordered
    <2>5. QED
      BY <2>3, <2>4
  <1>10. Lawful => Lawful'
    <2>1. SUFFICES ASSUME Lawful PROVE Lawful'
      OBVIOUS
    <2>2. ASSUME NEW s \in 1 .. n
          PROVE  /\ markers'[s].kind \in MarkerKinds
                 /\ markers'[s].kind = "acked" <=> markers'[s].orderId # NoOrder
                 /\ markers'[s].kind # "prepared" =>
                      \E p \in 1 .. s - 1 : /\ markers'[p].intent = markers'[s].intent
                                            /\ markers'[p].kind = Predecessor(markers'[s].kind)
      <3>1. \A p \in 1 .. s - 1 : markers'[p] = markers[p]
        BY <1>3
      <3>2. QED
        BY <1>3, <2>1, <3>1 DEF Lawful
    <2>3. /\ markers'[n + 1].kind \in MarkerKinds
          /\ markers'[n + 1].kind = "acked" <=> markers'[n + 1].orderId # NoOrder
          /\ markers'[n + 1].kind = "prepared"
      BY <1>3, <1>5 DEF MarkerKinds
    <2>4. ASSUME NEW s \in 1 .. (n + 1), NEW t \in 1 .. (n + 1),
                 markers'[t].intent = markers'[s].intent, markers'[t].kind = markers'[s].kind
          PROVE  s = t
      <3>1. \A x \in 1 .. n : markers'[x].intent # i
        BY <1>1, <1>3, <1>6
      <3>2. markers'[n + 1].intent = i
        BY <1>3, <1>5
      <3>3. CASE s = n + 1 \/ t = n + 1
        BY <1>3, <2>4, <3>1, <3>2, <3>3
      <3>4. CASE s \in 1 .. n /\ t \in 1 .. n
        BY <1>3, <2>1, <2>4, <3>4 DEF Lawful
      <3>5. QED
        BY <1>3, <3>3, <3>4
    <2>5. ASSUME NEW s \in late
          PROVE  markers'[s].at <= resolved'[markers'[s].intent]
      <3>1. s \in 1 .. n
        BY <1>3 DEF IInv, LateIsLate
      <3>2. markers'[s] = markers[s] /\ resolved'[markers[s].intent] = resolved[markers[s].intent]
        BY <1>3, <1>4, <1>6, <3>1
      <3>3. QED
        BY <2>1, <3>2 DEF Lawful
    <2>6. ASSUME NEW s \in DOMAIN markers' PROVE s \in 1 .. n \/ s = n + 1
      BY <1>3
    <2>7. QED
      BY <1>2, <1>3, <2>2, <2>3, <2>4, <2>5, <2>6 DEF Lawful
  <1>11. JournalIsKept' /\ Versioned' /\ RefusalIsEarned'
    <2>1. JournalIsKept'
      BY <1>1 DEF IInv, JournalIsKept
    <2>2. Versioned'
      BY <1>2 DEF IInv, Versioned
    <2>3. RefusalIsEarned'
      BY <1>1, <1>2 DEF IInv, Versioned, RefusalIsEarned
    <2>4. QED
      BY <2>1, <2>2, <2>3
  <1>12. QED
    BY <1>2, <1>7, <1>8, <1>9, <1>10, <1>11 DEF IInv, LawfulSinceV4

LEMMA AppendMarkerStep ==
  ASSUME IInv, NEW i \in Intents, NEW shape \in Shapes, AppendMarker(i, shape.kind, shape.orderId)
  PROVE  IInv'
  <1> DEFINE m == [intent |-> i, kind |-> shape.kind, orderId |-> shape.orderId, at |-> clock]
             n == Len(markers)
  <1>1. /\ proc.at = "open" /\ i \in DOMAIN resolved /\ Accepts(i, shape.kind, shape.orderId)
        /\ markers' = Append(markers, m) /\ written' = Append(written, m)
        /\ late' = IF resolved[i] # 0 THEN late \cup {n + 1} ELSE late
    BY DEF AppendMarker, Uses, At
  <1>2. UNCHANGED <<version, schema, proc, refusal, clock, stepped, halt, resolved, tripped>>
    BY Zenon DEF AppendMarker, Uses
  <1>3. markers \in Seq(Rows) /\ m \in Rows /\ clock \in Nat \ {0}
    BY DEF IInv, Typed, Rows, Kinds, Orders
  <1>4. /\ n \in Nat /\ DOMAIN markers = 1 .. n /\ DOMAIN markers' = 1 .. (n + 1)
        /\ markers' \in Seq(Rows) /\ \A s \in 1 .. n : markers'[s] = markers[s]
        /\ markers'[n + 1] = m
    BY <1>1, <1>3, AppendFacts
  <1>5. m.intent = i /\ m.kind = shape.kind /\ m.orderId = shape.orderId /\ m.at = clock
    OBVIOUS
  <1>6. late \subseteq 1 .. n /\ \A s \in late : resolved[markers[s].intent] # 0
    BY <1>4 DEF IInv, LateIsLate
  <1> HIDE DEF m, n
  <1>7. Typed'
    <2>1. \A s \in DOMAIN markers' : markers'[s].intent \in DOMAIN resolved
      BY <1>1, <1>4, <1>5 DEF IInv, Typed
    <2>2. QED
      BY <1>2, <1>4, <2>1 DEF IInv, Typed
  <1>8. LateIsLate'
    <2>1. ASSUME NEW s \in late' PROVE s \in DOMAIN markers' /\ resolved'[markers'[s].intent] # 0
      <3>1. CASE s \in late
        BY <1>2, <1>4, <1>6, <3>1
      <3>2. CASE s \notin late
        <4>1. s = n + 1 /\ resolved[i] # 0
          BY <1>1, <2>1, <3>2
        <4>2. QED
          BY <1>2, <1>4, <1>5, <4>1
      <3>3. QED
        BY <3>1, <3>2
    <2>2. QED
      BY <2>1 DEF LateIsLate
  <1>9. Ordered'
    <2>1. SUFFICES ASSUME ~stepped
                   PROVE  /\ \A s \in DOMAIN markers' : markers'[s].at <= clock
                          /\ \A s \in DOMAIN markers' \ late' :
                               resolved[markers'[s].intent] # 0
                               => markers'[s].at <= resolved[markers'[s].intent]
      BY <1>2 DEF Ordered
    <2>2. \A s \in 1 .. n : markers[s].at <= clock
      BY <1>4, <2>1 DEF IInv, Ordered
    <2>3. \A s \in DOMAIN markers' : markers'[s].at <= clock
      BY <1>3, <1>4, <1>5, <2>2
    <2>4. ASSUME NEW s \in DOMAIN markers' \ late', resolved[markers'[s].intent] # 0
          PROVE  markers'[s].at <= resolved[markers'[s].intent]
      <3>1. s \in 1 .. n /\ s \notin late
        BY <1>1, <1>4, <1>5, <2>4
      <3>2. QED
        BY <1>4, <2>1, <2>4, <3>1 DEF IInv, Ordered
    <2>5. QED
      BY <2>3, <2>4
  <1>10. version >= 4 => Lawful'
    <2>1. SUFFICES ASSUME version >= 4 PROVE Lawful'
      OBVIOUS
    <2>2. Lawful /\ version \in 0 .. 5 /\ ~(version < 4)
      BY <2>1 DEF IInv, LawfulSinceV4, Typed
    <2>3. /\ resolved[i] = 0
          /\ Predecessor(m.kind) # "none" =>
               \E s \in 1 .. n : markers[s].intent = i /\ markers[s].kind = Predecessor(m.kind)
          /\ ~\E s \in 1 .. n : markers[s].intent = i /\ markers[s].kind = m.kind
          /\ m.kind \in MarkerKinds /\ (m.kind = "acked") # (m.orderId = NoOrder)
      BY <1>1, <1>4, <1>5, <2>2, Zenon DEF Accepts
    <2>4. ASSUME NEW s \in 1 .. n
          PROVE  /\ markers'[s].kind \in MarkerKinds
                 /\ markers'[s].kind = "acked" <=> markers'[s].orderId # NoOrder
                 /\ markers'[s].kind # "prepared" =>
                      \E p \in 1 .. s - 1 : /\ markers'[p].intent = markers'[s].intent
                                            /\ markers'[p].kind = Predecessor(markers'[s].kind)
      <3>1. \A p \in 1 .. s - 1 : markers'[p] = markers[p]
        BY <1>4
      <3>2. /\ markers'[s] = markers[s] /\ markers[s].kind \in MarkerKinds
            /\ markers[s].kind = "acked" <=> markers[s].orderId # NoOrder
            /\ markers[s].kind # "prepared" =>
                 \E p \in 1 .. s - 1 : /\ markers[p].intent = markers[s].intent
                                       /\ markers[p].kind = Predecessor(markers[s].kind)
        <4>1. s \in DOMAIN markers /\ markers'[s] = markers[s]
          BY <1>4
        <4>2. QED
          BY <2>2, <4>1, Zenon DEF Lawful
      <3>3. QED
        BY <3>1, <3>2
    <2>5. /\ markers'[n + 1].kind \in MarkerKinds
          /\ markers'[n + 1].kind = "acked" <=> markers'[n + 1].orderId # NoOrder
      BY <1>4, <2>3
    <2>6. ASSUME markers'[n + 1].kind # "prepared"
          PROVE  \E p \in 1 .. (n + 1) - 1 : /\ markers'[p].intent = markers'[n + 1].intent
                                             /\ markers'[p].kind = Predecessor(markers'[n + 1].kind)
      <3>1. Predecessor(m.kind) # "none"
        BY <1>4, <2>3, <2>6 DEF MarkerKinds, Predecessor
      <3>2. PICK p \in 1 .. n : markers[p].intent = i /\ markers[p].kind = Predecessor(m.kind)
        BY <2>3, <3>1
      <3>3. p \in 1 .. (n + 1) - 1
        BY <1>4
      <3>4. QED
        BY <1>4, <1>5, <3>2, <3>3
    <2>7. ASSUME NEW s \in 1 .. (n + 1), NEW t \in 1 .. (n + 1),
                 markers'[t].intent = markers'[s].intent, markers'[t].kind = markers'[s].kind
          PROVE  s = t
      <3>1. CASE s \in 1 .. n /\ t \in 1 .. n
        BY <1>4, <2>2, <2>7, <3>1 DEF Lawful
      <3>2. CASE s = n + 1 \/ t = n + 1
        BY <1>4, <1>5, <2>3, <2>7, <3>2
      <3>3. QED
        BY <1>4, <3>1, <3>2
    <2>8. late' = late
      BY <1>1, <2>3
    <2>9. ASSUME NEW s \in late
          PROVE  markers'[s].at <= resolved[markers'[s].intent]
      BY <1>4, <1>6, <2>2 DEF Lawful
    <2>10. ASSUME NEW s \in DOMAIN markers' PROVE s \in 1 .. n \/ s = n + 1
      BY <1>4
    <2>11. QED
      BY <1>2, <1>4, <2>4, <2>5, <2>6, <2>7, <2>8, <2>9, <2>10 DEF Lawful
  <1>11. JournalIsKept' /\ Versioned' /\ RefusalIsEarned'
    <2>1. JournalIsKept'
      BY <1>1 DEF IInv, JournalIsKept
    <2>2. Versioned'
      BY <1>2 DEF IInv, Versioned
    <2>3. RefusalIsEarned'
      BY <1>1, <1>2 DEF IInv, Versioned, RefusalIsEarned
    <2>4. QED
      BY <2>1, <2>2, <2>3
  <1>12. QED
    BY <1>2, <1>7, <1>8, <1>9, <1>10, <1>11 DEF IInv, LawfulSinceV4

\* A resolved intent's markers are as old as the clock, and none of them is late.
LEMMA ResolveIntentStep ==
  ASSUME IInv, NEW i \in Intents, ResolveIntent(i)
  PROVE  IInv'
  <1>1. /\ proc.at = "open" /\ i \in DOMAIN resolved /\ resolved[i] = 0
        /\ resolved' = [resolved EXCEPT ![i] = clock]
    BY DEF ResolveIntent, Uses, At
  <1>2. UNCHANGED <<version, schema, proc, refusal, clock, stepped, halt, markers, written, late, tripped>>
    BY Zenon DEF ResolveIntent, Uses
  <1>3. /\ DOMAIN resolved' = DOMAIN resolved /\ resolved'[i] = clock /\ clock \in Nat \ {0}
        /\ \A j \in DOMAIN resolved \ {i} : resolved'[j] = resolved[j]
    BY <1>1 DEF IInv, Typed
  <1>4. \A s \in DOMAIN markers : markers[s].intent \in DOMAIN resolved
    BY DEF IInv, Typed
  <1>5. \A s \in late : s \in DOMAIN markers /\ markers[s].intent \in DOMAIN resolved \ {i}
    BY <1>1, <1>4 DEF IInv, LateIsLate
  <1>6. Typed'
    <2>1. \A j \in DOMAIN resolved' : resolved'[j] \in Nat
      BY <1>3 DEF IInv, Typed
    <2>2. QED
      BY <1>2, <1>3, <2>1 DEF IInv, Typed
  <1>7. LateIsLate'
    BY <1>2, <1>3, <1>5 DEF IInv, LateIsLate
  <1>8. Ordered'
    <2>1. SUFFICES ASSUME ~stepped, NEW s \in DOMAIN markers
                   PROVE  /\ markers[s].at <= clock
                          /\ s \notin late /\ resolved'[markers[s].intent] # 0
                             => markers[s].at <= resolved'[markers[s].intent]
      BY <1>2 DEF Ordered
    <2>2. markers[s].at <= clock
      BY <2>1 DEF IInv, Ordered
    <2>3. CASE markers[s].intent = i
      BY <1>3, <2>2, <2>3
    <2>4. CASE markers[s].intent # i
      BY <1>3, <1>4, <2>1, <2>2, <2>4 DEF IInv, Ordered
    <2>5. QED
      BY <2>3, <2>4
  <1>9. Lawful => Lawful'
    BY <1>2, <1>3, <1>5 DEF Lawful
  <1>10. JournalIsKept' /\ Versioned' /\ RefusalIsEarned'
    <2>1. JournalIsKept'
      BY <1>2 DEF IInv, JournalIsKept
    <2>2. Versioned'
      BY <1>2 DEF IInv, Versioned
    <2>3. RefusalIsEarned'
      BY <1>1, <1>2 DEF IInv, Versioned, RefusalIsEarned
    <2>4. QED
      BY <2>1, <2>2, <2>3
  <1>11. QED
    BY <1>2, <1>6, <1>7, <1>8, <1>9, <1>10 DEF IInv, LawfulSinceV4

\* The halt's writes and the clock's steps leave the journal alone.
LEMMA OtherSteps ==
  ASSUME IInv, TripHalt \/ ClearHalt \/ Tick
  PROVE  IInv'
  <1>1. /\ UNCHANGED <<version, schema, proc, refusal, markers, resolved, written, late>>
        /\ proc.at = "open"
    BY DEF TripHalt, ClearHalt, Tick, Uses, At, data
  <1>2. /\ clock' \in Nat \ {0} /\ stepped' \in BOOLEAN /\ tripped' \in BOOLEAN
        /\ ~stepped' => ~stepped /\ clock <= clock'
    <2>1. clock \in Nat \ {0} /\ stepped \in BOOLEAN /\ tripped \in BOOLEAN
      BY DEF IInv, Typed
    <2>2. CASE TripHalt \/ ClearHalt
      <3>1. clock' = clock /\ stepped' = stepped
        BY <2>2, Zenon DEF TripHalt, ClearHalt, Uses
      <3>2. tripped' \in BOOLEAN
        BY <2>2 DEF TripHalt, ClearHalt
      <3>3. QED
        BY <2>1, <3>1, <3>2
    <2>3. CASE Tick
      <3>1. tripped' = tripped
        BY <2>3 DEF Tick
      <3>2. \/ clock' = clock + 1 /\ stepped' = stepped
            \/ clock > 1 /\ clock' = clock - 1 /\ stepped' = TRUE
        BY <2>3, Zenon DEF Tick
      <3>3. CASE clock' = clock + 1 /\ stepped' = stepped
        BY <2>1, <3>1, <3>3
      <3>4. CASE clock > 1 /\ clock' = clock - 1 /\ stepped' = TRUE
        BY <2>1, <3>1, <3>4
      <3>5. QED
        BY <3>2, <3>3, <3>4
    <2>4. QED
      BY <2>2, <2>3
  <1>3. Typed' /\ LateIsLate' /\ JournalIsKept'
    BY <1>1, <1>2 DEF IInv, Typed, LateIsLate, JournalIsKept
  <1>4. Ordered'
    <2>1. SUFFICES ASSUME ~stepped', NEW s \in DOMAIN markers
                   PROVE  /\ markers[s].at <= clock'
                          /\ s \notin late /\ resolved[markers[s].intent] # 0
                             => markers[s].at <= resolved[markers[s].intent]
      BY <1>1 DEF Ordered
    <2>2. markers[s].at <= clock /\ markers[s].at \in Nat
      BY <1>2, <2>1, TimesTyped DEF IInv, Ordered
    <2>3. QED
      BY <1>2, <2>1, <2>2 DEF IInv, Ordered, Typed
  <1>5. Lawful => Lawful'
    BY <1>1 DEF Lawful
  <1>6. RefusalIsEarned'
    BY <1>1 DEF IInv, Versioned, RefusalIsEarned
  <1>7. Versioned'
    <2>1. version >= 1 /\ version \in 0 .. 5 /\ Versioned
      BY <1>1 DEF IInv, Versioned, Typed
    <2>2. halt' = IF version = 1 THEN IF tripped' THEN "1" ELSE "0"
                  ELSE IF tripped' THEN "halted" ELSE "none"
      <3>1. CASE TripHalt
        BY <2>1, <3>1 DEF TripHalt
      <3>2. CASE ClearHalt
        BY <2>1, <3>2 DEF ClearHalt
      <3>3. CASE Tick
        BY <2>1, <3>3 DEF Tick, data, Versioned
      <3>4. QED
        BY <3>1, <3>2, <3>3
    <2>3. QED
      BY <1>1, <2>1, <2>2 DEF Versioned
  <1>8. QED
    BY <1>1, <1>3, <1>4, <1>5, <1>6, <1>7 DEF IInv, LawfulSinceV4

LEMMA StepIInv == IInv /\ [Next]_vars => IInv'
  <1>1. SUFFICES ASSUME IInv, [Next]_vars PROVE IInv'
    OBVIOUS
  <1>2. CASE \/ \E r \in Releases : Start(r)
             \/ Connect \/ Opened \/ Stops
    BY <1>1, <1>2, OpenSteps
  <1>3. CASE Migrate
    BY <1>1, <1>3, MigrateStep
  <1>4. ASSUME NEW i \in Intents, AppendIntent(i) \/ ResolveIntent(i)
        PROVE  IInv'
    BY <1>1, <1>4, AppendIntentStep, ResolveIntentStep
  <1>5. ASSUME NEW i \in Intents, NEW m \in Shapes, AppendMarker(i, m.kind, m.orderId)
        PROVE  IInv'
    BY <1>1, <1>5, AppendMarkerStep
  <1>6. CASE TripHalt \/ ClearHalt \/ Tick
    BY <1>1, <1>6, OtherSteps
  <1>7. CASE UNCHANGED vars
    <2>1. UNCHANGED <<data, clock, history>> /\ UNCHANGED <<proc, refusal>>
      BY <1>7 DEF vars
    <2>2. Versioned'
      BY <1>1, <2>1 DEF IInv, Versioned, data, history
    <2>3. QED
      BY <1>1, <2>1, <2>2, DataAlone DEF IInv
  <1>8. QED
    BY <1>1, <1>2, <1>3, <1>4, <1>5, <1>6, <1>7 DEF Next

-----------------------------------------------------------------------------
(* What follows *)

LEMMA Always == Spec => []IInv
  BY InitIInv, StepIInv, PTL DEF Spec

\* No upgrade loses, alters or renumbers a marker, whatever crashes on the way
\* (schema.go:180-186).
THEOREM JournalSurvives == Spec => []JournalIsKept
  <1>1. IInv => JournalIsKept
    BY DEF IInv
  <1>2. QED
    BY <1>1, Always, PTL

\* A store at V4 or later holds no marker the protocol forbids, up to what the stored times
\* cannot show (schema.go:190-245).
THEOREM LawfulFromV4 == Spec => []LawfulSinceV4
  <1>1. IInv => LawfulSinceV4
    BY DEF IInv
  <1>2. QED
    BY <1>1, Always, PTL

\* A halt survives every upgrade, and none appears (schema.go:95-97).
THEOREM HaltSurvives == Spec => []HaltStands
  <1>1. IInv => HaltStands
    BY DEF IInv, Typed, Versioned, HaltStands
  <1>2. QED
    BY <1>1, Always, PTL

\* Open never fails over a half-done ladder, and refuses rows only for cause
\* (schema.go:334-381).
THEOREM RefusalsEarned == Spec => []RefusalIsEarned
  <1>1. IInv => RefusalIsEarned
    BY DEF IInv
  <1>2. QED
    BY <1>1, Always, PTL

-----------------------------------------------------------------------------
(* The process: Sentinel *)

Quiet == loop # "running" /\ ~inflight /\ reports = 0

\* Before the flip nothing of the process runs.
AtRest ==
  /\ pc \in {"down"} \cup Booting => loop = "off" /\ ~inflight /\ reports = 0 /\ ~gate
  /\ pc \in {"down", "read"} => ~latch

\* From the flip to the judgment's end the store says running.
Marked == pc \in {"up", "drain", "quiesce"} \cup Judging => lifecycle = "running"

OwedBlocks == owed /\ pc \notin {"down", "read"} => Blocked

DrainedIsQuiet ==
  /\ drained /\ pc = "quiesce" => loop = "ended"
  /\ drained /\ pc \in Judging => Quiet
  /\ pc \in {"finalize", "readHalt", "writeClean"} => drained

Judged ==
  /\ pc = "readHalt" => ~HasUnpersistedPendingHalt
  /\ pc = "writeClean" => ~Blocked

\* Without a doubt nothing blocks, the drain succeeded, and the judgment ends in a clean.
DoubtExcuses ==
  ~doubt =>
    /\ pc # "down" => ~Blocked
    /\ pc \in {"quiesce"} \cup Judging => drained
    /\ pc \in {"close", "exit"} => lifecycle = "clean"

LifetimeInv ==
  /\ TypeOK /\ AtRest /\ Marked /\ OwedBlocks /\ CleanIsEarned
  /\ DrainedIsQuiet /\ Judged /\ DoubtExcuses

-----------------------------------------------------------------------------
LEMMA InitLifetime == SentinelInit => LifetimeInv
<1> SUFFICES ASSUME SentinelInit PROVE LifetimeInv
  OBVIOUS
<1> USE SentinelAssumption DEF SentinelInit
<1>1. TypeOK
  <2>1. reports \in 0 .. MaxReports /\ (inflight => reports < MaxReports)
    OBVIOUS
  <2> QED
    BY <2>1 DEF TypeOK, Phases, Booting, Judging, Alive
<1>2. AtRest
  BY DEF AtRest
<1>3. Marked /\ OwedBlocks /\ CleanIsEarned
  BY DEF Marked, OwedBlocks, CleanIsEarned
<1>4. DrainedIsQuiet
  BY DEF DrainedIsQuiet, Judging
<1>5. Judged
  BY DEF Judged
<1>6. DoubtExcuses
  BY DEF DoubtExcuses, Judging
<1> QED
  BY <1>1, <1>2, <1>3, <1>4, <1>5, <1>6 DEF LifetimeInv

\* The arithmetic of the reports, and the types of all else.
Owing == reports \in 0 .. MaxReports /\ (inflight => reports < MaxReports)
Enums ==
  /\ lifecycle \in {"running", "clean"} /\ phase \in Phases
  /\ latch \in BOOLEAN /\ bootHalt \in BOOLEAN /\ gate \in BOOLEAN
  /\ loop \in {"off", "running", "ended"} /\ inflight \in BOOLEAN
  /\ pc \in Alive \cup {"down"} /\ drained \in BOOLEAN
  /\ owed \in BOOLEAN /\ doubt \in BOOLEAN

LEMMA Types == TypeOK <=> Owing /\ Enums
  BY DEF TypeOK, Owing, Enums

LEMMA OwingStep == Owing /\ inflight \in BOOLEAN /\ [SentinelNext]_sentinelVars => Owing'
<1> SUFFICES ASSUME Owing, inflight \in BOOLEAN, [SentinelNext]_sentinelVars PROVE Owing'
  OBVIOUS
<1> USE SentinelAssumption DEF Owing, token
<1>1. CASE Assemble BY <1>1 DEF Assemble
<1>2. CASE ReadSentinel BY <1>2 DEF ReadSentinel
<1>3. CASE Flip BY <1>3 DEF Flip
<1>4. CASE FlipFails BY <1>4 DEF FlipFails
<1>5. CASE NotifyScanComplete BY <1>5 DEF NotifyScanComplete
<1>6. CASE Trip BY <1>6 DEF Trip, HaltCommits, HaltFails
<1>7. CASE StartFlight BY <1>7 DEF StartFlight
<1>8. CASE EndFlight BY <1>8 DEF EndFlight
<1>9. CASE Report BY <1>9 DEF Report, Counted, CountHalts, CountFails, HaltCommits
<1>10. CASE OperatorClears BY <1>10 DEF OperatorClears
<1>11. CASE Signal BY <1>11 DEF Signal
<1>12. CASE EndLoop BY <1>12 DEF EndLoop
<1>13. CASE Wait BY <1>13 DEF Wait
<1>14. CASE WaitForRefreshQuiescence BY <1>14 DEF WaitForRefreshQuiescence
<1>15. CASE Judge BY <1>15 DEF Judge
<1>16. CASE FinalizePendingHalt BY <1>16 DEF FinalizePendingHalt
<1>17. CASE FinalizeFails BY <1>17 DEF FinalizeFails, HaltFails
<1>18. CASE ReadHalt BY <1>18 DEF ReadHalt
<1>19. CASE WriteClean BY <1>19 DEF WriteClean
<1>20. CASE CloseSinks BY <1>20 DEF CloseSinks
<1>21. CASE Exit \/ Crash BY <1>21 DEF Exit, Crash, Die
<1>22. CASE UNCHANGED sentinelVars BY <1>22 DEF sentinelVars
<1> QED
  BY <1>1, <1>2, <1>3, <1>4, <1>5, <1>6, <1>7, <1>8, <1>9, <1>10, <1>11,
     <1>12, <1>13, <1>14, <1>15, <1>16, <1>17, <1>18, <1>19, <1>20, <1>21, <1>22
  DEF SentinelNext, Boot, Beside, Shutdown

LEMMA EnumsStep == Enums /\ [SentinelNext]_sentinelVars => Enums'
<1> SUFFICES ASSUME Enums, [SentinelNext]_sentinelVars PROVE Enums'
  OBVIOUS
<1> USE DEF Enums, durable, guard, token
<1>1. CASE Assemble BY <1>1 DEF Assemble, Booting, Judging, Alive
<1>2. CASE ReadSentinel BY <1>2 DEF ReadSentinel, Booting, Judging, Alive
<1>3. CASE Flip BY <1>3 DEF Flip, Booting, Judging, Alive
<1>4. CASE FlipFails BY <1>4 DEF FlipFails, Booting, Judging, Alive
<1>5. CASE NotifyScanComplete BY <1>5 DEF NotifyScanComplete
<1>6. CASE Trip BY <1>6 DEF Trip, HaltCommits, HaltFails, Phases
<1>7. CASE StartFlight BY <1>7 DEF StartFlight
<1>8. CASE EndFlight BY <1>8 DEF EndFlight
<1>9. CASE Report
  <2>1. /\ Counted \/ CountHalts \/ CountFails
        /\ UNCHANGED <<lifecycle, bootHalt, gate, loop, inflight, pc, drained>>
    BY <1>9 DEF Report
  <2>2. CASE Counted BY <2>1, <2>2 DEF Counted
  <2>3. CASE CountHalts BY <2>1, <2>3 DEF CountHalts, HaltCommits, Phases
  <2>4. CASE CountFails BY <2>1, <2>4 DEF CountFails
  <2> QED
    BY <2>1, <2>2, <2>3, <2>4
<1>10. CASE OperatorClears BY <1>10 DEF OperatorClears, Phases
<1>11. CASE Signal BY <1>11 DEF Signal, Booting, Judging, Alive
<1>12. CASE EndLoop BY <1>12 DEF EndLoop
<1>13. CASE Wait BY <1>13 DEF Wait, Booting, Judging, Alive
<1>14. CASE WaitForRefreshQuiescence BY <1>14 DEF WaitForRefreshQuiescence, Booting, Judging, Alive
<1>15. CASE Judge BY <1>15 DEF Judge, Booting, Judging, Alive
<1>16. CASE FinalizePendingHalt BY <1>16 DEF FinalizePendingHalt, Phases, Booting, Judging, Alive
<1>17. CASE FinalizeFails BY <1>17 DEF FinalizeFails, HaltFails, Phases, Booting, Judging, Alive
<1>18. CASE ReadHalt BY <1>18 DEF ReadHalt, Booting, Judging, Alive
<1>19. CASE WriteClean BY <1>19 DEF WriteClean, Booting, Judging, Alive
<1>20. CASE CloseSinks BY <1>20 DEF CloseSinks, Booting, Judging, Alive
<1>21. CASE Exit \/ Crash BY <1>21 DEF Exit, Crash, Die, Booting, Judging, Alive
<1>22. CASE UNCHANGED sentinelVars BY <1>22 DEF sentinelVars
<1> QED
  BY <1>1, <1>2, <1>3, <1>4, <1>5, <1>6, <1>7, <1>8, <1>9, <1>10, <1>11,
     <1>12, <1>13, <1>14, <1>15, <1>16, <1>17, <1>18, <1>19, <1>20, <1>21, <1>22
  DEF SentinelNext, Boot, Beside, Shutdown

\* What the invariant says beyond the types.
Course ==
  /\ AtRest /\ Marked /\ OwedBlocks /\ CleanIsEarned
  /\ DrainedIsQuiet /\ Judged /\ DoubtExcuses

LEMMA CourseStep == Enums /\ Course /\ [SentinelNext]_sentinelVars => Course'
<1> SUFFICES ASSUME Enums, Course, [SentinelNext]_sentinelVars PROVE Course'
  OBVIOUS
<1> USE DEF Enums, Course, AtRest, Marked, OwedBlocks, CleanIsEarned, DrainedIsQuiet, Judged,
        DoubtExcuses, Phases, Booting, Judging, Alive, StoreOpen, Quiet, Blocked,
        HasUnpersistedPendingHalt, durable, guard, token
<1>1. CASE Assemble BY <1>1 DEF Assemble
<1>2. CASE ReadSentinel BY <1>2 DEF ReadSentinel
<1>3. CASE Flip BY <1>3 DEF Flip
<1>4. CASE FlipFails BY <1>4 DEF FlipFails
<1>5. CASE NotifyScanComplete BY <1>5 DEF NotifyScanComplete
<1>6. CASE Trip BY <1>6 DEF Trip, HaltCommits, HaltFails
<1>7. CASE StartFlight BY <1>7 DEF StartFlight
<1>8. CASE EndFlight BY <1>8 DEF EndFlight
<1>9. CASE Report BY <1>9 DEF Report, Counted, CountHalts, CountFails, HaltCommits
<1>10. CASE OperatorClears BY <1>10 DEF OperatorClears
<1>11. CASE Signal BY <1>11 DEF Signal
<1>12. CASE EndLoop BY <1>12 DEF EndLoop
<1>13. CASE Wait BY <1>13 DEF Wait
<1>14. CASE WaitForRefreshQuiescence BY <1>14 DEF WaitForRefreshQuiescence
<1>15. CASE Judge BY <1>15 DEF Judge
<1>16. CASE FinalizePendingHalt BY <1>16 DEF FinalizePendingHalt
<1>17. CASE FinalizeFails BY <1>17 DEF FinalizeFails, HaltFails
<1>18. CASE ReadHalt BY <1>18 DEF ReadHalt
<1>19. CASE WriteClean BY <1>19 DEF WriteClean
<1>20. CASE CloseSinks BY <1>20 DEF CloseSinks
<1>21. CASE Exit \/ Crash BY <1>21 DEF Exit, Crash, Die
<1>22. CASE UNCHANGED sentinelVars BY <1>22 DEF sentinelVars
<1> QED
  BY <1>1, <1>2, <1>3, <1>4, <1>5, <1>6, <1>7, <1>8, <1>9, <1>10, <1>11,
     <1>12, <1>13, <1>14, <1>15, <1>16, <1>17, <1>18, <1>19, <1>20, <1>21, <1>22
  DEF SentinelNext, Boot, Beside, Shutdown

LEMMA StepLifetime == LifetimeInv /\ [SentinelNext]_sentinelVars => LifetimeInv'
<1> SUFFICES ASSUME LifetimeInv, [SentinelNext]_sentinelVars PROVE LifetimeInv'
  OBVIOUS
<1>1. Owing /\ Enums /\ Course
  BY Types DEF LifetimeInv, Course
<1>2. Owing' /\ Enums' /\ Course'
  BY <1>1, OwingStep, EnumsStep, CourseStep DEF Enums
<1>3. TypeOK'
  BY <1>2 DEF TypeOK, Owing, Enums
<1> QED
  BY <1>2, <1>3 DEF LifetimeInv, Course

\* Every reachable state satisfies the inductive invariant.
THEOREM Invariance == SentinelSpec => []LifetimeInv
  BY InitLifetime, StepLifetime, PTL DEF SentinelSpec

\* Every reachable state is well typed (sentinel.go:29-87).
THEOREM TypeCorrect == SentinelSpec => []TypeOK
<1>1. LifetimeInv => TypeOK
  BY DEF LifetimeInv
<1> QED
  BY <1>1, Invariance, PTL

\* No process, after however many crashes and restarts, submits over a halt or an
\* uncounted refresh failure that no operator has cleared (sentinel.go:89-109, 183-202).
THEOREM NoHaltForgottenSafety == SentinelSpec => []NoHaltForgotten
<1>1. LifetimeInv => NoHaltForgotten
  BY DEF LifetimeInv, AtRest, OwedBlocks, NoHaltForgotten, MaySubmit, Booting
<1> QED
  BY <1>1, Invariance, PTL

\* A clean sentinel is only ever there when no halt is owed or durable and nothing is
\* left that could halt (app.go:243-255).
THEOREM CleanSafety == SentinelSpec => []CleanIsEarned
<1>1. LifetimeInv => CleanIsEarned
  BY DEF LifetimeInv
<1> QED
  BY <1>1, Invariance, PTL

\* An exit with nothing against it leaves the store clean (app.go:291-300).
THEOREM OrdinaryExit == SentinelSpec => []OrdinaryExitIsClean
<1>1. LifetimeInv => OrdinaryExitIsClean
  BY DEF LifetimeInv, DoubtExcuses, OrdinaryExitIsClean
<1> QED
  BY <1>1, Invariance, PTL
=============================================================================
