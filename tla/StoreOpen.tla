------------------------------- MODULE StoreOpen -------------------------------
(***************************************************************************)
(* A store over its life: internal/store opened, migrated, written and      *)
(* crashed by binaries of different releases, one process at a time.  A     *)
(* release knows the migrations up to its own version; Open refuses a newer *)
(* schema and runs each pending migration in a transaction of its own.      *)
(* Releases before V4 wrote any marker.                                     *)
(***************************************************************************)
EXTENDS Naturals, FiniteSets, Sequences

CONSTANTS
  Intents,
  OrderIds, NoOrder,   \* order ids, and the empty one
  Releases,            \* the binaries that are started, by the version they migrate to
  Shapes,              \* the kinds and order ids a caller may give a marker
  MaxMarkers, MaxClock, MaxBoots   \* bounds

ASSUME StoreOpenAssumption == Releases \subseteq 1 .. 5 /\ NoOrder \notin OrderIds

VARIABLES
  version,    \* PRAGMA user_version
  schema,     \* the schema's objects, as far as a migration can clash with them
  markers,    \* the markers table, by seq
  resolved,   \* resolved_at of each intent that has a row, 0 while NULL
  halt,       \* the halt row: "absent", halted 0 or 1 in V1, the state since V2
  proc,       \* the process: where it is in Open, its release, the migration it is at
  refusal,    \* why the last Open refused the store, "none" if it did not
  clock,      \* wall clock
  boots,      \* how often Open was called
  written,    \* history: the markers appended, in order
  late,       \* history: the seqs of those appended after their intent was resolved
  tripped,    \* history: a halt was tripped and not cleared
  stepped     \* history: the clock was set back

data == <<version, schema, markers, resolved, halt>>
history == <<written, late, tripped, stepped>>
vars == <<data, proc, refusal, clock, boots, history>>

MarkerKinds == {"prepared", "submit-attempted", "acked"}

Down == [at |-> "down", release |-> 0, next |-> 0]

Init ==
  /\ version = 0 /\ schema = {} /\ markers = <<>>
  /\ resolved = [i \in {} |-> 0] /\ halt = "absent"
  /\ proc = Down /\ refusal = "none" /\ clock = 1 /\ boots = 0
  /\ written = <<>> /\ late = {} /\ tripped = FALSE /\ stepped = FALSE

-----------------------------------------------------------------------------
(* The migrations *)

\* What each finds, creates and drops; V4 drops the table of an index it creates anew.
Migrations ==
  <<[needs |-> {}, drops |-> {},
     adds |-> {"intents", "markers", "idx_markers_intent", "halt.halted", "counters"}],
    [needs |-> {"halt.halted"}, drops |-> {"halt.halted"}, adds |-> {"halt.state", "lifecycle"}],
    [needs |-> {"intents"}, drops |-> {}, adds |-> {"fully_audited_at", "audit_acks"}],
    [needs |-> {"markers", "intents"}, drops |-> {"idx_markers_intent", "ux_markers_intent_kind"},
     adds |-> {"ux_markers_intent_kind"}],
    [needs |-> {"fully_audited_at"}, drops |-> {}, adds |-> {"idx_intents_prunable"}]>>

Predecessor(kind) ==
  IF kind = "submit-attempted" THEN "prepared"
  ELSE IF kind = "acked" THEN "submit-attempted" ELSE "none"

\* The probe for a marker before its predecessor.  The slip asks only that there is one.
OrderProbeAnywhere(ms) ==
  {s \in DOMAIN ms : /\ Predecessor(ms[s].kind) # "none"
                     /\ ~\E p \in DOMAIN ms : /\ ms[p].intent = ms[s].intent
                                              /\ ms[p].kind = Predecessor(ms[s].kind)}
OrderProbe(ms) ==
  {s \in DOMAIN ms : /\ Predecessor(ms[s].kind) # "none"
                     /\ ~\E p \in DOMAIN ms : /\ ms[p].intent = ms[s].intent /\ p < s
                                              /\ ms[p].kind = Predecessor(ms[s].kind)}

\* The probe for a marker after its intent's resolution, by their times.
TerminalProbe(ms, at) ==
  {s \in DOMAIN ms : at[ms[s].intent] # 0 /\ ms[s].at > at[ms[s].intent]}

\* The checks and the unique index of the new table.
ShapeChecks(ms) ==
  {s \in DOMAIN ms : ms[s].kind \notin MarkerKinds \/ (ms[s].kind = "acked") = (ms[s].orderId = NoOrder)}
UniqueIndex(ms) ==
  {s \in DOMAIN ms : \E t \in DOMAIN ms \ {s} : ms[t].intent = ms[s].intent /\ ms[t].kind = ms[s].kind}

\* The rows on disk that the migration to v refuses.
Violations(v) ==
  IF v = 4 THEN OrderProbe(markers) \cup TerminalProbe(markers, resolved)
                \cup ShapeChecks(markers) \cup UniqueIndex(markers)
  ELSE {}

\* A slip: the copy is made intent by intent and numbered anew.
CopiedByIntent(ms) ==
  LET first == {s \in DOMAIN ms : ms[s].intent # ms[1].intent}
      Rank(s) == IF s \in first THEN Cardinality({t \in first : t <= s})
                 ELSE Cardinality(first) + Cardinality({t \in DOMAIN ms \ first : t <= s})
  IN [n \in DOMAIN ms |-> ms[CHOOSE s \in DOMAIN ms : Rank(s) = n]]
\* V4 copies the markers into the new table under the seq they have.
Copied(ms) == [s \in DOMAIN ms |-> ms[s]]

\* The halt row V1 creates and V2 carries over; the slip creates the new one instead.
HaltAfterFresh(v, h) == IF v = 1 THEN "0" ELSE IF v = 2 THEN "none" ELSE h
HaltAfter(v, h) ==
  IF v = 1 THEN "0" ELSE IF v = 2 THEN IF h # "0" THEN "halted" ELSE "none" ELSE h

Migrated(v) ==
  /\ schema' = (schema \ Migrations[v].drops) \cup Migrations[v].adds
  /\ markers' = IF v = 4 THEN Copied(markers) ELSE markers
  /\ halt' = HaltAfter(v, halt)
  /\ UNCHANGED resolved

DDLRuns(v) ==
  /\ Migrations[v].needs \subseteq schema
  /\ (Migrations[v].adds \ Migrations[v].drops) \cap schema = {}

-----------------------------------------------------------------------------
(* Open *)

At(step) == proc.at = step
Goes(step) == proc' = [proc EXCEPT !.at = step]

\* Open refuses the store: what is open is closed again.
Refuse(why) == refusal' = why /\ proc' = Down

\* Open secures the files and connects.
Start(r) ==
  /\ At("down") /\ boots < MaxBoots
  /\ proc' = [at |-> "connect", release |-> r, next |-> 0]
  /\ refusal' = "none" /\ boots' = boots + 1
  /\ UNCHANGED <<data, clock, history>>

\* migrate's look at the version.
Connect ==
  /\ At("connect")
  /\ IF version > proc.release
     THEN Refuse("tooNew")
     ELSE /\ proc' = [proc EXCEPT !.at = "migrate", !.next = version + 1]
          /\ UNCHANGED refusal
  /\ UNCHANGED <<data, clock, boots, history>>

\* A slip: the version is set after the migration's transaction, and a crash may come first.
applyMigrationThenBump(v) ==
  /\ Migrated(v)
  /\ \/ version' = v /\ proc' = [proc EXCEPT !.next = v + 1]
     \/ version' = version /\ proc' = Down

\* The transaction of one migration commits its statements and the version together.
applyMigration(v) ==
  Migrated(v) /\ version' = v /\ proc' = [proc EXCEPT !.next = v + 1]

Migrate ==
  LET v == proc.next
  IN /\ At("migrate") /\ v <= proc.release
     /\ IF ~DDLRuns(v) THEN Refuse("schema") /\ UNCHANGED data
        ELSE IF Violations(v) # {} THEN Refuse("violation") /\ UNCHANGED data
        ELSE applyMigration(v) /\ UNCHANGED refusal
     /\ UNCHANGED <<clock, boots, history>>

\* The ladder is done, and the read handle opens.
Opened ==
  /\ At("migrate") /\ proc.next > proc.release
  /\ Goes("open")
  /\ UNCHANGED <<data, refusal, clock, boots, history>>

\* A call of Open fails, the store is closed, or the process crashes: a transaction in
\* progress rolls back.
Stops ==
  /\ ~At("down") /\ proc' = Down
  /\ UNCHANGED <<data, refusal, clock, boots, history>>

-----------------------------------------------------------------------------
(* What the open store is used for *)

Uses == At("open") /\ UNCHANGED <<version, schema, proc, refusal, clock, boots, stepped>>

Prepared(i) == [intent |-> i, kind |-> "prepared", orderId |-> NoOrder, at |-> clock]

AppendIntent(i) ==
  /\ Uses /\ i \notin DOMAIN resolved /\ Len(markers) < MaxMarkers
  /\ resolved' = [j \in DOMAIN resolved \cup {i} |-> IF j = i THEN 0 ELSE resolved[j]]
  /\ markers' = Append(markers, Prepared(i)) /\ written' = Append(written, Prepared(i))
  /\ UNCHANGED <<halt, late, tripped>>

\* appendMarker and the constraints of V4.  Before, any marker of an intent was accepted.
Accepts(i, kind, orderId) ==
  \/ version < 4
  \/ /\ resolved[i] = 0
     /\ Predecessor(kind) # "none" =>
          \E s \in DOMAIN markers : markers[s].intent = i /\ markers[s].kind = Predecessor(kind)
     /\ ~\E s \in DOMAIN markers : markers[s].intent = i /\ markers[s].kind = kind
     /\ kind \in MarkerKinds /\ (kind = "acked") # (orderId = NoOrder)

AppendMarker(i, kind, orderId) ==
  LET m == [intent |-> i, kind |-> kind, orderId |-> orderId, at |-> clock]
  IN /\ Uses /\ i \in DOMAIN resolved /\ Len(markers) < MaxMarkers
     /\ Accepts(i, kind, orderId)
     /\ markers' = Append(markers, m) /\ written' = Append(written, m)
     /\ late' = IF resolved[i] # 0 THEN late \cup {Len(markers) + 1} ELSE late
     /\ UNCHANGED <<resolved, halt, tripped>>

ResolveIntent(i) ==
  /\ Uses /\ i \in DOMAIN resolved /\ resolved[i] = 0
  /\ resolved' = [resolved EXCEPT ![i] = clock]
  /\ UNCHANGED <<markers, halt, written, late, tripped>>

\* TripHalt; the pending state MarkHaltPending writes since V2 blocks alike.
TripHalt ==
  /\ Uses /\ tripped' = TRUE
  /\ halt' = IF version = 1 THEN "1" ELSE "halted"
  /\ UNCHANGED <<markers, resolved, written, late>>

ClearHalt ==
  /\ Uses /\ tripped' = FALSE
  /\ halt' = IF version = 1 THEN "0" ELSE "none"
  /\ UNCHANGED <<markers, resolved, written, late>>

\* The wall clock moves, or is set back, between two writes.
Tick ==
  /\ At("open")
  /\ \/ clock < MaxClock /\ clock' = clock + 1 /\ UNCHANGED stepped
     \/ clock > 1 /\ clock' = clock - 1 /\ stepped' = TRUE
  /\ UNCHANGED <<data, proc, refusal, boots, written, late, tripped>>

Next ==
  \/ \E r \in Releases : Start(r)
  \/ Connect \/ Migrate \/ Opened \/ Stops
  \/ \E i \in Intents :
       \/ AppendIntent(i) \/ ResolveIntent(i)
       \/ \E m \in Shapes : AppendMarker(i, m.kind, m.orderId)
  \/ TripHalt \/ ClearHalt
  \/ Tick

Spec == Init /\ [][Next]_vars

-----------------------------------------------------------------------------
\* No upgrade, refused, crashed or complete, loses a marker, alters one or gives it another
\* number, which its ack is filed under (schema.go:180-186, 271-274).
JournalIsKept == markers = written

Lawful ==
  /\ \A s \in DOMAIN markers :
       /\ markers[s].kind \in MarkerKinds
       /\ markers[s].kind = "acked" <=> markers[s].orderId # NoOrder
       /\ markers[s].kind # "prepared" =>
            \E p \in 1 .. s - 1 : /\ markers[p].intent = markers[s].intent
                                  /\ markers[p].kind = Predecessor(markers[s].kind)
       /\ \A t \in DOMAIN markers :
            markers[t].intent = markers[s].intent /\ markers[t].kind = markers[s].kind => s = t
  /\ \A s \in late : markers[s].at <= resolved[markers[s].intent]

\* From V4 on the journal obeys the marker protocol, whoever wrote it: a row may only be
\* later than its intent's resolution if their times do not show it (schema.go:190-245,
\* tx.go:198-206).
LawfulSinceV4 == version >= 4 => Lawful

\* A halt tripped by any release blocks until it is cleared, across every upgrade, crash and
\* refusal, and no upgrade makes one up (schema.go:95-114).
HaltStands == tripped <=> halt \in {"1", "halted"}

\* Open refuses a store over its contents only if they are unlawful or the clock was set
\* back: whatever a crash cuts short in the ladder, the next Open continues
\* (schema.go:334-381).
RefusalIsEarned ==
  /\ refusal # "schema"
  /\ refusal = "violation" =>
       \/ stepped \/ late # {}
       \/ OrderProbe(markers) \cup ShapeChecks(markers) \cup UniqueIndex(markers) # {}
=============================================================================
