---------------------------- MODULE ReconcilerProofs ----------------------------
(***************************************************************************)
(* The reconciler for any number of intents, symbols and thresholds, and     *)
(* any number of faults and crashes.                                         *)
(*                                                                           *)
(* Why no failure is erased: what a cycle has in view stays true (Seen), so  *)
(* a reset is of an order that was filled, and what is counted is known to   *)
(* this process or older than its first scan (Known), so ResetDue passes     *)
(* over nothing newer than the fill.  Why evidence blocks: a cycle keeps in  *)
(* needBlock what it has seen of it (Held), and what has no answer is seen   *)
(* by every cycle to come (Aging).  Why resets wait: a fill on its way to a  *)
(* reset has left nothing before it in doubt (Waited).                       *)
(***************************************************************************)
EXTENDS Reconciler, FiniteSetTheorems, WellFoundedInduction, TLAPS

\* An intent has a time exactly if it was submit-attempted.
Timed ==
  /\ \A i \in Intents : (order[i] = "none" <=> at[i] = NoTime) /\ at[i] <= now
  /\ failures <= faults

Ongoing == {"verdict", "resolve", "reset"}

\* What a cycle has in view was so when it looked, and is so still where nothing can change it.
Seen ==
  /\ pc = "idle" => view = NoView
  /\ \A i \in Intents :
       /\ view[i] # "absent" => order[i] # "none"
       /\ i \in Acked(view) => order[i] \in AckedOrders
       /\ view[i] \in Terminal => order[i] = view[i]
       /\ i \in closed => view[i] \in {"absent"} \cup Terminal
       /\ view[i] = "unread" => pc = "lookup"
       /\ pc = "lookup" => (view[i] = "unread" <=> i \in Acked(view) /\ i >= cur)
  /\ cur # 0 => cur \in Acked(view)

\* The course of one verdict.
Course ==
  /\ pc # "idle" => watermark # NoTime
  /\ pc = "resolve" => view[cur] \in {"filled", "canceled", "rejected"}
  /\ pc = "resolve" /\ view[cur] = "rejected" => cur \in streak
  /\ pc = "reset" => view[cur] = "filled" /\ cur \in closed

\* A counted failure is of before this process's first scan, or known to it.
Known ==
  \A i \in streak :
    order[i] # "none" /\ (watermark # NoTime => at[i] <= watermark \/ at[i] <= newest)

\* What has no answer yet is seen ambiguous by every cycle to come.
Aging == \A i \in evidence : order[i] # "none" /\ (order[i] \in Unacked => now - at[i] >= SettleWindow)

Judged(i) == pc \in {"clear", "gate", "audit"} \/ (pc \in Ongoing /\ i < cur)
Relevant(i) == order[i] \in Unacked \/ crashes = 0

\* A cycle keeps in needBlock what it has seen of the evidence.
Held ==
  /\ crashes = 0 /\ ~gate => \A i \in Intents : order[i] = "none"
  /\ pc # "idle" =>
       /\ \A i \in evidence : view[i] \in {"ambiguous", "unread", "failed", "unknown"}
       /\ \A i \in Intents : view[i] = "ambiguous" => SymbolOf[i] \in needBlock \cap blocked
       /\ \A i \in evidence :
            Relevant(i) /\ view[i] \in {"failed", "unknown"} /\ Judged(i) => SymbolOf[i] \in needBlock
  /\ evidence \cap closed = {}

\* A fill that is on its way to a reset has left nothing before it in doubt.
Waited ==
  /\ \A i, j \in Intents :
       view[i] = "absent" /\ i \notin closed /\ order[i] # "none" /\ view[j] # "absent" => at[j] <= at[i]
  /\ pc \in {"resolve", "reset"} /\ view[cur] = "filled" => ~earlierInDoubt(at[cur])
  /\ faults = 0 /\ pc \in Ongoing =>
       \A i \in Intents : i < cur /\ view[i] = "rejected" => i \in closed

IInv ==
  /\ TypeOK /\ Timed /\ Seen /\ Course /\ Known /\ Aging /\ Held /\ Waited
  /\ NoFailureErased /\ EvidenceBlocks
-----------------------------------------------------------------------------
(* The order in which a cycle goes through the acked intents *)

Less == {ss \in Nat \X Nat : ss[1] < ss[2]}

\* The least element principle, from the well-foundedness of the order.
LEMMA LeastNat ==
  ASSUME NEW T, T \subseteq Nat, T # {}
  PROVE  \E x \in T : \A y \in T : x <= y
<1>1. IsWellFoundedOn(Less, Nat)
  BY NatLessThanWellFounded DEF OpToRel, Less
<1>2. PICK x \in T : \A y \in T : ~ (<<y, x>> \in Less)
  BY <1>1, WFMin
<1>3. \A y \in T : x <= y
  <2> TAKE y \in T
  <2>1. x \in Nat /\ y \in Nat
    OBVIOUS
  <2>2. <<y, x>> \in Less <=> y < x
    BY <2>1 DEF Less
  <2> QED
    BY <1>2, <2>1, <2>2
<1> QED
  BY <1>3

LEMMA MinFacts ==
  ASSUME NEW S, S \subseteq Nat, S # {}
  PROVE  Min(S) \in S /\ \A y \in S : Min(S) <= y
  BY LeastNat DEF Min

LEMMA Acks ==
  ASSUME NEW v, NEW k \in 0 .. N
  PROVE  /\ NextAcked(v, k) \in k + 1 .. N + 1
         /\ NextAcked(v, k) <= N => NextAcked(v, k) \in Acked(v)
         /\ \A i \in Acked(v) : i > k => i >= NextAcked(v, k)
<1> DEFINE S == {i \in Acked(v) : i > k} \cup {N + 1}
<1>1. S \subseteq Nat /\ S # {} /\ \A i \in S : i \in k + 1 .. N + 1
  BY ReconcilerAssumption DEF Acked, Intents
<1>2. Min(S) \in S /\ \A y \in S : Min(S) <= y
  BY <1>1, MinFacts
<1>3. NextAcked(v, k) = Min(S)
  BY DEF NextAcked
<1> QED
  BY <1>1, <1>2, <1>3, ReconcilerAssumption DEF Acked, Intents

\* Where a cycle goes after a verdict.
Moved ==
  /\ view' = view
  /\ \/ /\ pc' = "verdict" /\ cur' \in Acked(view) /\ cur' > cur
        /\ \A i \in Acked(view) : i > cur => i >= cur'
     \/ /\ pc' = "clear" /\ cur' = 0 /\ \A i \in Acked(view) : i <= cur

LEMMA AdvanceMoves == cur \in Intents /\ Advance => Moved
<1> SUFFICES ASSUME cur \in Intents, Advance PROVE Moved
  OBVIOUS
<1> DEFINE m == NextAcked(view, cur)
<1>1. /\ m \in cur + 1 .. N + 1 /\ (m <= N => m \in Acked(view))
      /\ \A i \in Acked(view) : i > cur => i >= m
  BY Acks, ReconcilerAssumption DEF Intents
<1>2. /\ IF m <= N THEN pc' = "verdict" /\ cur' = m ELSE pc' = "clear" /\ cur' = 0
      /\ view' = view
  BY DEF Advance
<1>3. \A i \in Acked(view) : i \in Nat /\ i <= N
  BY ReconcilerAssumption DEF Acked, Intents
<1> HIDE DEF m
<1>4. CASE m <= N
  BY <1>1, <1>2, <1>4, ReconcilerAssumption DEF Moved, Intents
<1>5. CASE ~(m <= N)
  BY <1>1, <1>2, <1>3, <1>5, ReconcilerAssumption DEF Moved, Intents
<1> QED
  BY <1>4, <1>5

\* What a cycle begins with.
Begun ==
  /\ view' \in [Intents -> Views]
  /\ \A i \in Intents :
       /\ view'[i] \in {"absent", "settling", "ambiguous", "unread"}
       /\ view'[i] = "absent" <=> i \in closed \/ order[i] = "none"
       /\ view'[i] = "unread" <=> i \notin closed /\ order[i] \in AckedOrders
       /\ view'[i] = "ambiguous" <=>
            i \notin closed /\ order[i] \in Unacked /\ now - at[i] >= SettleWindow
  /\ \/ pc' = "lookup" /\ cur' \in Acked(view') /\ \A i \in Acked(view') : i >= cur'
     \/ pc' = "clear" /\ cur' = 0 /\ Acked(view') = {}
  /\ needBlock' \subseteq Symbols /\ blocked' = blocked \cup needBlock'
  /\ \A i \in Intents : view'[i] = "ambiguous" => SymbolOf[i] \in needBlock'
  /\ evidence' = evidence \cup {i \in Intents : view'[i] = "ambiguous"}
  /\ halted' \in BOOLEAN
  /\ watermark' = IF watermark = NoTime THEN now ELSE watermark
  /\ UNCHANGED <<journalVars, count, gate, newest, failures, promoted, world, faults, streak>>

LEMMA Classes ==
  ASSUME TypeOK, NEW i \in Intents
  PROVE  /\ classify(i) \in {"absent", "settling", "ambiguous", "unread"}
         /\ classify(i) = "absent" <=> i \in closed \/ order[i] = "none"
         /\ classify(i) = "unread" <=> i \notin closed /\ order[i] \in AckedOrders
         /\ classify(i) = "ambiguous" <=>
              i \notin closed /\ order[i] \in Unacked /\ now - at[i] >= SettleWindow
<1>1. order[i] \in Orders
  BY DEF TypeOK
<1>2. CASE i \in closed \/ order[i] = "none"
  BY <1>2 DEF classify, Unacked, AckedOrders, Terminal
<1>3. CASE i \notin closed /\ order[i] \in AckedOrders
  BY <1>3 DEF classify, Unacked, AckedOrders, Terminal
<1>4. CASE i \notin closed /\ order[i] \in Unacked
  BY <1>4 DEF classify, Unacked, AckedOrders, Terminal
<1> QED
  BY <1>1, <1>2, <1>3, <1>4 DEF Orders

LEMMA Begins == TypeOK /\ BeginCycle => Begun
<1> SUFFICES ASSUME TypeOK, BeginCycle PROVE Begun
  OBVIOUS
<1> DEFINE amb == {i \in Intents : view'[i] = "ambiguous"}
           first == NextAcked(view', 0)
<1>1. /\ view' = [i \in Intents |-> classify(i)]
      /\ needBlock' = {SymbolOf[i] : i \in amb}
      /\ blocked' = blocked \cup needBlock'
      /\ evidence' = evidence \cup amb
      /\ halted' = (halted \/ Cardinality(amb) >= AmbiguousBacklogThreshold)
      /\ IF first <= N THEN pc' = "lookup" /\ cur' = first ELSE pc' = "clear" /\ cur' = 0
      /\ MarkWatermark
      /\ UNCHANGED <<journalVars, count, gate, newest, failures, promoted, world, faults, streak>>
  BY DEF BeginCycle, TripSymbols
<1>2. \A i \in Intents : view'[i] = classify(i)
  BY <1>1
<1>3. view' \in [Intents -> Views]
  BY <1>1, Classes DEF Views
<1>4. \/ pc' = "lookup" /\ cur' \in Acked(view') /\ \A i \in Acked(view') : i >= cur'
      \/ pc' = "clear" /\ cur' = 0 /\ Acked(view') = {}
  <2>1. /\ first \in 1 .. N + 1 /\ (first <= N => first \in Acked(view'))
        /\ \A i \in Acked(view') : i > 0 => i >= first
    BY Acks, ReconcilerAssumption
  <2>2. \A i \in Acked(view') : i \in Nat /\ 0 < i /\ i <= N
    BY ReconcilerAssumption DEF Acked, Intents
  <2> HIDE DEF first
  <2>3. CASE first <= N
    BY <1>1, <2>1, <2>2, <2>3
  <2>4. CASE ~(first <= N)
    BY <1>1, <2>1, <2>2, <2>4, ReconcilerAssumption
  <2> QED
    BY <2>3, <2>4
<1>5. needBlock' \subseteq Symbols /\ \A i \in Intents : view'[i] = "ambiguous" => SymbolOf[i] \in needBlock'
  BY <1>1 DEF Symbols
<1>6. halted' \in BOOLEAN
  BY <1>1 DEF TypeOK
<1> HIDE DEF amb
<1>7. /\ blocked' = blocked \cup needBlock'
      /\ watermark' = IF watermark = NoTime THEN now ELSE watermark
      /\ UNCHANGED <<journalVars, count, gate, newest, failures, promoted, world, faults, streak>>
  BY <1>1 DEF MarkWatermark
<1>8. evidence' = evidence \cup {i \in Intents : view'[i] = "ambiguous"}
  BY <1>1 DEF amb
<1> QED
  BY <1>2, <1>3, <1>4, <1>5, <1>6, <1>7, <1>8, Classes DEF Begun

\* What a lookup changes.
Looked(answer) ==
  /\ view' = [view EXCEPT ![cur] = answer]
  /\ evidence' = IF answer \in {"failed", "unknown"} THEN evidence ELSE evidence \ {cur}
  /\ \/ /\ pc' = "lookup" /\ cur' \in Acked(view) /\ cur' > cur
        /\ \A i \in Acked(view) : i > cur => i >= cur'
     \/ /\ pc' = "verdict" /\ cur' \in Acked(view)
        /\ \A i \in Acked(view) : i >= cur' /\ i <= cur
  /\ UNCHANGED <<journalVars, count, halted, memory, needBlock, world, faults, streak>>

LEMMA LooksUp ==
  cur \in Acked(view) /\ GetOrder => \E answer \in {order[cur], "failed"} : Looked(answer)
<1> SUFFICES ASSUME cur \in Acked(view), GetOrder
             PROVE  \E answer \in {order[cur], "failed"} : Looked(answer)
  OBVIOUS
<1> DEFINE next == NextAcked(view, cur)
           first == NextAcked(view, 0)
<1>1. PICK answer \in {order[cur], "failed"} :
        /\ view' = [view EXCEPT ![cur] = answer]
        /\ evidence' = IF answer \in {"failed", "unknown"} THEN evidence ELSE evidence \ {cur}
  BY DEF GetOrder
<1>2. /\ IF next <= N THEN pc' = "lookup" /\ cur' = next ELSE pc' = "verdict" /\ cur' = first
      /\ UNCHANGED <<journalVars, count, halted, memory, needBlock, world, faults, streak>>
  BY DEF GetOrder
<1>3. \A i \in Acked(view) : i \in Nat /\ 0 < i /\ i <= N
  BY ReconcilerAssumption DEF Acked, Intents
<1>4. /\ next \in cur + 1 .. N + 1 /\ (next <= N => next \in Acked(view))
      /\ \A i \in Acked(view) : i > cur => i >= next
  BY <1>3, Acks, ReconcilerAssumption
<1>5. /\ first \in 1 .. N + 1 /\ (first <= N => first \in Acked(view))
      /\ \A i \in Acked(view) : i >= first
  BY <1>3, Acks, ReconcilerAssumption
<1> HIDE DEF next, first
<1>6. \/ /\ pc' = "lookup" /\ cur' \in Acked(view) /\ cur' > cur
         /\ \A i \in Acked(view) : i > cur => i >= cur'
      \/ /\ pc' = "verdict" /\ cur' \in Acked(view)
         /\ \A i \in Acked(view) : i >= cur' /\ i <= cur
  <2>1. CASE next <= N
    BY <1>2, <1>3, <1>4, <2>1
  <2>2. CASE ~(next <= N)
    <3>1. first <= cur /\ cur <= N
      BY <1>3, <1>5
    <3>3. first \in Acked(view)
      BY <1>3, <1>5, <3>1, ReconcilerAssumption
    <3>2. \A i \in Acked(view) : i <= cur
      BY <1>3, <1>4, <2>2, ReconcilerAssumption
    <3> QED
      BY <1>2, <1>5, <2>2, <3>3, <3>2
  <2> QED
    BY <2>1, <2>2
<1>7. Looked(answer)
  BY <1>1, <1>2, <1>6 DEF Looked
<1> QED
  BY <1>7

-----------------------------------------------------------------------------
(* The steps *)

LEMMA ShapeOf ==
  ASSUME TypeOK
  PROVE  /\ cur # 0 => cur \in Intents
         /\ cur \in Intents => cur # 0 /\ cur \in Nat
  BY ReconcilerAssumption DEF TypeOK, Intents

\* The types, but for the counter's.
Enums ==
  /\ order \in [Intents -> Orders] /\ at \in [Intents -> 0 .. MaxNow]
  /\ closed \subseteq Intents /\ \A i \in closed : order[i] \in Terminal
  /\ halted \in BOOLEAN /\ blocked \subseteq Symbols /\ gate \in BOOLEAN
  /\ watermark \in 0 .. now /\ newest \in 0 .. now
  /\ promoted \in BOOLEAN
  /\ pc \in {"idle", "lookup", "verdict", "resolve", "reset", "clear", "gate", "audit"}
  /\ cur \in 0 .. N /\ ((cur = 0) <=> pc \in {"idle", "clear", "gate", "audit"})
  /\ view \in [Intents -> Views] /\ needBlock \subseteq Symbols
  /\ now \in 1 .. MaxNow
  /\ streak \subseteq Intents /\ evidence \subseteq Intents

Counts ==
  /\ count \in Nat /\ Cardinality(streak) <= count
  /\ failures \in 0 .. MaxFaults
  /\ faults \in 0 .. MaxFaults /\ crashes \in 0 .. MaxCrashes

LEMMA Types == TypeOK <=> Enums /\ Counts
  BY DEF TypeOK, Enums, Counts

LEMMA MovesOn ==
  ASSUME Enums, Advance, cur # 0
  PROVE  Moved /\ pc' \in {"verdict", "clear"} /\ cur' \in 0 .. N
         /\ ((cur' = 0) <=> pc' = "clear")
<1>1. cur \in Intents
  BY ReconcilerAssumption DEF Enums, Intents
<1>2. Moved
  BY <1>1, AdvanceMoves
<1>3. \A i \in Acked(view) : i \in 0 .. N /\ i # 0
  BY ReconcilerAssumption DEF Acked, Intents
<1> QED
  BY <1>2, <1>3, ReconcilerAssumption DEF Moved

LEMMA InitIInv == Init => IInv
<1> SUFFICES ASSUME Init PROVE IInv
  OBVIOUS
<1> USE ReconcilerAssumption DEF Init
<1>1. Cardinality(streak) = 0
  BY FS_EmptySet
<1>2. TypeOK
  <2>1. Counts
    BY <1>1 DEF Counts
  <2>2. order \in [Intents -> Orders] /\ view \in [Intents -> Views] /\ at \in [Intents -> 0 .. MaxNow]
    BY DEF Orders, Views, NoView, NoTime
  <2>3. now \in 1 .. MaxNow /\ watermark \in 0 .. now /\ newest \in 0 .. now
    BY DEF NoTime
  <2>4. halted \in BOOLEAN /\ gate \in BOOLEAN /\ promoted \in BOOLEAN
    OBVIOUS
  <2>5. cur \in 0 .. N /\ ((cur = 0) <=> pc \in {"idle", "clear", "gate", "audit"})
        /\ pc \in {"idle", "lookup", "verdict", "resolve", "reset", "clear", "gate", "audit"}
    OBVIOUS
  <2>6. closed = {} /\ blocked = {} /\ needBlock = {} /\ streak = {} /\ evidence = {}
    OBVIOUS
  <2>7. Enums
    <3> HIDE DEF Init
    <3> QED
      BY <2>2, <2>3, <2>4, <2>5, <2>6 DEF Enums
  <2> QED
    BY <2>1, <2>7, Types
<1>3. Timed
  BY DEF Timed, NoTime
<1>4. Seen
  BY DEF Seen, NoView, Acked, Terminal
<1>5. Course /\ Known /\ Aging /\ Held /\ Waited
  BY DEF Course, Known, Aging, Held, Waited, Ongoing
<1>6. NoFailureErased /\ EvidenceBlocks
  BY DEF NoFailureErased, EvidenceBlocks
<1> QED
  BY <1>2, <1>3, <1>4, <1>5, <1>6 DEF IInv

LEMMA EnumsStep == IInv /\ [Next]_vars => Enums'
<1> SUFFICES ASSUME IInv, [Next]_vars PROVE Enums'
  OBVIOUS
<1>0. Enums /\ Seen /\ Course /\ TypeOK
  BY Types DEF IInv
<1> USE <1>0, ReconcilerAssumption DEF Enums, journalVars, memory, cycleVars, world
<1>1. ASSUME NEW i \in Intents, Attempt(i) PROVE Enums'
  BY <1>1 DEF Attempt, Orders, Unacked, Terminal
<1>2. ASSUME NEW i \in Intents, Ack(i) \/ Decide(i) PROVE Enums'
  <2>1. PICK s \in AckedOrders : order' = [order EXCEPT ![i] = s]
    BY <1>2 DEF Ack, Decide, Moves, AckedOrders, Terminal
  <2>2. order[i] \notin Terminal
    BY <1>2 DEF Ack, Decide, Terminal
  <2>3. UNCHANGED <<at, closed, halted, memory, cycleVars, world, streak, evidence>>
    BY <1>2 DEF Ack, Decide, Moves
  <2>4. order' \in [Intents -> Orders]
    BY <2>1 DEF Orders
  <2>5. \A j \in closed : order'[j] \in Terminal
    BY <2>1, <2>2
  <2> QED
    BY <2>3, <2>4, <2>5
<1>3. CASE BeginCycle
  <2>1. Begun
    BY <1>3, Begins
  <2>2. cur' \in 0 .. N /\ ((cur' = 0) <=> pc' = "clear") /\ pc' \in {"lookup", "clear"}
    BY <2>1 DEF Begun, Acked, Intents
  <2>3. evidence' \subseteq Intents /\ watermark' \in 0 .. now
    BY <2>1 DEF Begun
  <2>4. view' \in [Intents -> Views] /\ needBlock' \subseteq Symbols /\ blocked' \subseteq Symbols
        /\ halted' \in BOOLEAN
    BY <2>1 DEF Begun
  <2>5. UNCHANGED <<order, at, closed, gate, newest, promoted, now, streak>>
    BY <2>1 DEF Begun
  <2> QED
    BY <2>2, <2>3, <2>4, <2>5
<1>4. CASE GetOrder
  <2>1. cur \in Acked(view)
    BY <1>4 DEF GetOrder, Seen
  <2>2. PICK answer \in {order[cur], "failed"} : Looked(answer)
    BY <1>4, <2>1, LooksUp
  <2>3. cur' \in 1 .. N /\ pc' \in {"lookup", "verdict"}
    BY <2>2 DEF Looked, Acked, Intents
  <2>4. answer \in Views
    BY <2>1, <2>2 DEF Seen, Acked, Views
  <2>5. view' \in [Intents -> Views] /\ evidence' \subseteq Intents
    BY <2>2, <2>4 DEF Looked
  <2>6. UNCHANGED <<journalVars, halted, memory, needBlock, world, streak>>
    BY <2>2 DEF Looked
  <2> QED
    BY <2>3, <2>5, <2>6
<1>5. CASE KeepBlock
  BY <1>5, MovesOn DEF KeepBlock, Verdict, Moved
<1>6. CASE BlockUnknown
  <2>1. cur \in Intents
    BY <1>6 DEF BlockUnknown, Verdict, Intents
  <2>2. SymbolOf[cur] \in Symbols
    BY <2>1 DEF Symbols
  <2> QED
    BY <1>6, <2>1, <2>2, MovesOn DEF BlockUnknown, Verdict, TripSymbols, Moved
<1>7. CASE RecordFill
  <2>1. pc = "verdict" /\ UNCHANGED <<journalVars, count, memory, needBlock, world, streak, evidence>>
        /\ halted' \in BOOLEAN
    BY <1>7 DEF RecordFill, Emitted, EmitFails
  <2>2. Advance \/ GoOn("resolve")
    BY <1>7 DEF RecordFill
  <2> QED
    BY <2>1, <2>2, MovesOn DEF Moved, GoOn
<1>8. CASE CountRejected
  <2>1. pc = "verdict" /\ cur \in Intents
    BY <1>8 DEF CountRejected, Verdict, Intents
  <2>2. UNCHANGED <<journalVars, blocked, gate, watermark, promoted, needBlock, world, evidence>>
        /\ halted' \in BOOLEAN /\ streak' \subseteq Intents
    BY <1>8, <2>1 DEF CountRejected, Verdict
  <2>3. Advance \/ GoOn("resolve")
    BY <1>8 DEF CountRejected
  <2>4. at[cur] <= now
    BY <2>1 DEF IInv, Timed
  <2>5. newest' \in 0 .. now
    BY <1>8, <2>1, <2>4 DEF CountRejected, Later
  <2> QED
    BY <2>1, <2>2, <2>3, <2>5, MovesOn DEF Moved, GoOn
<1>9. CASE Resolve
  <2>1. pc = "resolve" /\ cur \in Intents /\ order[cur] \in Terminal
    BY <1>9 DEF Resolve, Intents, Course, Seen, Terminal
  <2>2. UNCHANGED <<order, at, memory, needBlock, world, streak, evidence>>
        /\ halted' \in BOOLEAN /\ (closed' = closed \/ closed' = closed \cup {cur})
    BY <1>9 DEF Resolve, Emitted, EmitFails
  <2>3. Advance \/ GoOn("reset")
    BY <1>9 DEF Resolve
  <2> QED
    BY <2>1, <2>2, <2>3, MovesOn DEF Moved, GoOn
<1>10. CASE ResetStreak
  BY <1>10, MovesOn DEF ResetStreak, Moved
<1>11. CASE KeepStreak
  BY <1>11, MovesOn DEF KeepStreak, Moved
<1>12. CASE reconcileSymbolBlocks
  BY <1>12 DEF reconcileSymbolBlocks, GoOn
<1>13. CASE NotifyScanComplete
  BY <1>13 DEF NotifyScanComplete, GoOn
<1>14. CASE ReemitAudit
  <2>1. view' \in [Intents -> Views] /\ needBlock' \subseteq Symbols /\ cur' = 0 /\ pc' = "idle"
    BY <1>14 DEF ReemitAudit, NoView, Views
  <2> QED
    BY <1>14, <2>1 DEF ReemitAudit, Emitted, EmitFails
<1>15. CASE LoadFails \/ Panic
  <2>1. PICK boot \in BOOLEAN : CycleFails(boot)
    BY <1>15 DEF LoadFails, Panic
  <2>2. view' \in [Intents -> Views] /\ needBlock' \subseteq Symbols /\ cur' = 0 /\ pc' = "idle"
    BY <2>1 DEF CycleFails, NoView, Views
  <2>3. promoted' \in BOOLEAN /\ halted' \in BOOLEAN
    BY <2>1 DEF CycleFails, Promote
  <2> QED
    BY <2>1, <2>2, <2>3 DEF CycleFails
<1>16. CASE Tick
  BY <1>16 DEF Tick
<1>17. CASE ClearHalt
  BY <1>17 DEF ClearHalt
<1>18. CASE Crash
  <2>1. view' \in [Intents -> Views] /\ needBlock' \subseteq Symbols /\ cur' = 0 /\ pc' = "idle"
    BY <1>18 DEF Crash, NoView, Views
  <2>2. order' \in [Intents -> Orders] /\ \A i \in closed : order'[i] \in Terminal
    BY <1>18 DEF Crash, Orders, Unacked, Terminal
  <2>3. gate' \in BOOLEAN /\ promoted' \in BOOLEAN /\ blocked' \subseteq Symbols
    BY <1>18 DEF Crash
  <2>4. watermark' \in 0 .. now /\ newest' \in 0 .. now
    BY <1>18 DEF Crash, NoTime
  <2>5. UNCHANGED <<at, closed, halted, now, streak, evidence>>
    BY <1>18 DEF Crash
  <2> QED
    BY <2>1, <2>2, <2>3, <2>4, <2>5
<1>19. CASE UNCHANGED vars
  BY <1>19 DEF vars
<1> QED
  BY <1>1, <1>2, <1>3, <1>4, <1>5, <1>6, <1>7, <1>8, <1>9, <1>10, <1>11, <1>12, <1>13, <1>14,
     <1>15, <1>16, <1>17, <1>18, <1>19 DEF Next, Cycle

LEMMA CountsStep == IInv /\ [Next]_vars => Counts' /\ (failures <= faults)'
<1> SUFFICES ASSUME IInv, [Next]_vars PROVE Counts' /\ (failures <= faults)'
  OBVIOUS
<1>0. Counts /\ streak \subseteq Intents /\ failures <= faults
  BY Types DEF IInv, Enums, Timed
<1>1. IsFiniteSet(Intents)
  BY FS_Interval, ReconcilerAssumption DEF Intents
<1>2. IsFiniteSet(streak)
  BY <1>0, <1>1, FS_Subset
<1>3. Cardinality(streak) \in Nat
  BY <1>2, FS_CardinalityType
<1>13. Cardinality(streak \cup {cur}) = IF cur \in streak THEN Cardinality(streak) ELSE Cardinality(streak) + 1
  BY <1>2, FS_AddElement
<1> USE <1>0, <1>3, ReconcilerAssumption DEF Counts, journalVars, memory, cycleVars, world, Fault
<1>4. CASE CountRejected
  <2>1. \/ count' = count + 1 /\ streak' = streak \cup {cur} /\ faults' = faults
        \/ Fault /\ UNCHANGED <<count, streak>>
    BY <1>4 DEF CountRejected
  <2>2. Cardinality(streak') <= count'
    <3>1. CASE count' = count + 1 /\ streak' = streak \cup {cur}
      <4>1. Cardinality(streak') = Cardinality(streak \cup {cur})
        BY <3>1
      <4> QED
        BY <1>13, <3>1, <4>1
    <3>2. CASE UNCHANGED <<count, streak>>
      BY <3>2
    <3> QED
      BY <2>1, <3>1, <3>2
  <2>3. UNCHANGED <<failures, crashes>>
    BY <1>4 DEF CountRejected
  <2> QED
    BY <2>1, <2>2, <2>3
<1>5. CASE ResetStreak
  <2>1. Cardinality({}) = 0
    BY FS_EmptySet
  <2> QED
    BY <1>5, <2>1 DEF ResetStreak
<1>6. CASE \E i \in Intents : Attempt(i) \/ Ack(i) \/ Decide(i)
  BY <1>6 DEF Attempt, Ack, Decide, Moves
<1>7. CASE BeginCycle \/ GetOrder \/ KeepBlock \/ BlockUnknown
  BY <1>7 DEF BeginCycle, GetOrder, KeepBlock, BlockUnknown
<1>8. CASE RecordFill \/ Resolve \/ KeepStreak
  BY <1>8 DEF RecordFill, Resolve, KeepStreak, Emitted, EmitFails
<1>9. CASE reconcileSymbolBlocks \/ NotifyScanComplete \/ ReemitAudit
  BY <1>9 DEF reconcileSymbolBlocks, NotifyScanComplete, ReemitAudit, Emitted, EmitFails
<1>10. CASE LoadFails \/ Panic
  BY <1>10 DEF LoadFails, Panic, CycleFails
<1>11. CASE Tick \/ ClearHalt \/ Crash
  BY <1>11 DEF Tick, ClearHalt, Crash
<1>12. CASE UNCHANGED vars
  BY <1>12 DEF vars
<1> QED
  BY <1>4, <1>5, <1>6, <1>7, <1>8, <1>9, <1>10, <1>11, <1>12 DEF Next, Cycle

\* What no step changes of an intent: a time that is set, and what is decided for good.
LEMMA Lasting ==
  ASSUME IInv, [Next]_vars, NEW i \in Intents
  PROVE  /\ order[i] # "none" => order'[i] # "none" /\ at'[i] = at[i]
         /\ order[i] \in AckedOrders => order'[i] \in AckedOrders
         /\ order[i] \in Terminal => order'[i] = order[i]
         /\ order[i] = "none" /\ order'[i] # "none" => gate /\ at'[i] = now /\ pc' = pc /\ view' = view
         /\ order'[i] \in Unacked => order[i] \in Unacked \cup {"none"}
         /\ order'[i] = "none" => order[i] = "none" /\ at'[i] = at[i]
         /\ now <= now' /\ now \in Nat /\ now' \in Nat /\ now # NoTime
<1> USE ReconcilerAssumption DEF journalVars, memory, cycleVars, world, NoTime, Unacked, AckedOrders, Terminal
<1>0. now \in Nat /\ now # 0 /\ order \in [Intents -> Orders] /\ at \in [Intents -> 0 .. MaxNow]
  BY DEF IInv, TypeOK
<1>1. CASE \E j \in Intents : Attempt(j)
  BY <1>0, <1>1 DEF Attempt
<1>2. CASE \E j \in Intents : Ack(j) \/ Decide(j)
  BY <1>0, <1>2 DEF Ack, Decide, Moves
<1>3. CASE Crash
  BY <1>0, <1>3 DEF Crash
<1>4. CASE BeginCycle \/ GetOrder \/ KeepBlock \/ BlockUnknown
  BY <1>0, <1>4 DEF BeginCycle, GetOrder, KeepBlock, BlockUnknown
<1>5. CASE RecordFill \/ CountRejected \/ Resolve
  BY <1>0, <1>5 DEF RecordFill, CountRejected, Resolve
<1>6. CASE ResetStreak \/ KeepStreak \/ reconcileSymbolBlocks \/ NotifyScanComplete \/ ReemitAudit
  BY <1>0, <1>6 DEF ResetStreak, KeepStreak, reconcileSymbolBlocks, NotifyScanComplete, ReemitAudit
<1>7. CASE LoadFails \/ Panic
  BY <1>0, <1>7 DEF LoadFails, Panic, CycleFails
<1>8. CASE Tick \/ ClearHalt
  BY <1>0, <1>8 DEF Tick, ClearHalt
<1>9. CASE UNCHANGED vars
  BY <1>0, <1>9 DEF vars
<1> QED
  BY <1>1, <1>2, <1>3, <1>4, <1>5, <1>6, <1>7, <1>8, <1>9 DEF Next, Cycle

LEMMA TimedStep == IInv /\ [Next]_vars => Timed'
<1> SUFFICES ASSUME IInv, [Next]_vars PROVE Timed'
  OBVIOUS
<1>1. \A i \in Intents : (order'[i] = "none" <=> at'[i] = NoTime) /\ at'[i] <= now'
  <2> TAKE i \in Intents
  <2>1. (order[i] = "none" <=> at[i] = NoTime) /\ at[i] <= now /\ at[i] \in Nat
    BY ReconcilerAssumption DEF IInv, Timed, TypeOK
  <2> QED
    BY <2>1, Lasting
<1> QED
  BY <1>1, CountsStep DEF Timed

LEMMA SeenStep == IInv /\ [Next]_vars => Seen'
<1> SUFFICES ASSUME IInv, [Next]_vars PROVE Seen'
  OBVIOUS
<1>0. Seen /\ Course /\ Enums
  BY Types DEF IInv
<1>e. Enums'
  BY EnumsStep
<1>l. \A i \in Intents :
        /\ order[i] # "none" => order'[i] # "none"
        /\ order[i] \in AckedOrders => order'[i] \in AckedOrders
        /\ order[i] \in Terminal => order'[i] = order[i]
  BY Lasting
<1> DEFINE Idle == pc' = "idle" /\ view' = NoView /\ cur' = 0 /\ closed' = closed
           Keeps == UNCHANGED <<pc, cur, view, closed>>
<1>1. ASSUME Idle PROVE Seen'
  BY <1>1 DEF Seen, NoView, Acked, Terminal
<1>2. ASSUME Keeps PROVE Seen'
  BY <1>0, <1>2, <1>l DEF Seen, Acked
<1>3. ASSUME Moved, pc \in Ongoing,
             closed' \subseteq closed \cup {cur}, view[cur] \in Terminal \/ closed' = closed
      PROVE Seen'
  <2>1. \A i \in Intents : view[i] # "unread"
    BY <1>0, <1>3 DEF Seen, Ongoing
  <2> QED
    BY <1>0, <1>3, <1>l, <2>1 DEF Seen, Acked, Moved
<1>4. ASSUME NEW s, GoOn(s), s \notin {"idle", "lookup"}, pc \notin {"idle", "lookup"},
             closed' \subseteq closed \cup {cur}, view[cur] \in Terminal \/ closed' = closed
      PROVE Seen'
  BY <1>0, <1>4, <1>l DEF Seen, Acked, GoOn
<1> HIDE DEF Idle, Keeps
<1>5. ASSUME NEW i \in Intents, Attempt(i) \/ Ack(i) \/ Decide(i) PROVE Seen'
  BY <1>2, <1>5 DEF Attempt, Ack, Decide, Moves, Keeps, cycleVars
<1>6. CASE BeginCycle
  <2>1. Begun
    BY <1>6, Begins DEF IInv
  <2>2. \A i \in Intents : view'[i] # "unknown" /\ view'[i] # "failed" /\ view'[i] \notin Terminal
    BY <2>1 DEF Begun, Terminal
  <2>3. closed' = closed /\ order' = order
    BY <2>1 DEF Begun, journalVars
  <2>4. Acked(view') = {i \in Intents : view'[i] = "unread"}
    BY <2>1 DEF Begun, Acked
  <2> QED
    BY <1>0, <2>1, <2>2, <2>3, <2>4 DEF Begun, Seen, Unacked
<1>7. CASE GetOrder
  <2>1. pc = "lookup" /\ cur \in Acked(view)
    BY <1>0, <1>7 DEF GetOrder, Seen, Enums
  <2>2. PICK answer \in {order[cur], "failed"} : Looked(answer)
    BY <1>7, <2>1, LooksUp
  <2>3. order[cur] \in AckedOrders /\ cur \in Intents
    BY <1>0, <2>1 DEF Seen, Acked
  <2>4. view'[cur] = answer /\ \A i \in Intents : i # cur => view'[i] = view[i]
    BY <1>0, <2>2, <2>3 DEF Looked, Enums
  <2>5. Acked(view') = Acked(view)
    BY <2>1, <2>2, <2>3, <2>4 DEF Acked, AckedOrders, Terminal
  <2>6. closed' = closed /\ order' = order
    BY <2>2 DEF Looked, journalVars
  <2>7. cur \notin closed
    <3>1. view[cur] = "unread"
      BY <1>0, <2>1, <2>3, ReconcilerAssumption DEF Seen, Intents
    <3> QED
      BY <3>1, <1>0, <2>3 DEF Seen, Terminal
  <2>8. answer \notin {"absent", "unread"} /\ (answer \in Terminal => order[cur] = answer)
    BY <2>2, <2>3 DEF AckedOrders, Terminal
  <2>9. pc' # "idle" /\ cur' \in Acked(view)
    BY <2>2 DEF Looked
  <2>10. \A i \in Intents : i # cur =>
           /\ view'[i] # "absent" => order'[i] # "none"
           /\ i \in Acked(view') => order'[i] \in AckedOrders
           /\ view'[i] \in Terminal => order'[i] = view'[i]
           /\ i \in closed' => view'[i] \in {"absent"} \cup Terminal
    BY <1>0, <2>4, <2>5, <2>6 DEF Seen
  <2>11. /\ view'[cur] # "absent" /\ order'[cur] # "none" /\ cur \notin closed'
         /\ view'[cur] \in Terminal => order'[cur] = view'[cur]
         /\ order'[cur] \in AckedOrders
    BY <2>3, <2>4, <2>6, <2>7, <2>8 DEF AckedOrders, Terminal
  <2>12. \A i \in Intents : view[i] = "unread" <=> i \in Acked(view) /\ i >= cur
    BY <1>0, <2>1 DEF Seen
  <2>13. \A i \in Intents : i \in Nat
    BY ReconcilerAssumption DEF Intents
  <2>14. \A i \in Intents :
           /\ view'[i] = "unread" => pc' = "lookup"
           /\ pc' = "lookup" => (view'[i] = "unread" <=> i \in Acked(view') /\ i >= cur')
    <3> TAKE i \in Intents
    <3>1. view'[i] = "unread" <=> i # cur /\ i \in Acked(view) /\ i >= cur
      BY <2>4, <2>8, <2>12
    <3>2. cur \in Nat /\ cur' \in Nat /\ i \in Nat
      BY <2>1, <2>9, <2>13 DEF Acked
    <3>3. CASE pc' = "lookup"
      <4>1. cur' > cur /\ \A j \in Acked(view) : j > cur => j >= cur'
        BY <2>2, <3>3 DEF Looked
      <4>2. i \in Acked(view) => (i > cur <=> i >= cur')
        BY <3>2, <4>1
      <4> QED
        BY <2>5, <3>1, <3>2, <3>3, <4>2
    <3>4. CASE pc' # "lookup"
      <4>1. \A j \in Acked(view) : j <= cur
        BY <2>2, <3>4 DEF Looked
      <4> QED
        BY <3>1, <3>2, <3>4, <4>1
    <3> QED
      BY <3>3, <3>4
  <2> QED
    BY <2>5, <2>9, <2>10, <2>11, <2>14 DEF Seen
<1>8. CASE KeepBlock \/ BlockUnknown \/ ResetStreak \/ KeepStreak
  <2>1. Advance /\ closed' = closed /\ pc \in Ongoing /\ cur \in Intents
    BY <1>0, <1>8, ReconcilerAssumption
       DEF KeepBlock, BlockUnknown, ResetStreak, KeepStreak, Verdict, journalVars, Ongoing, Enums, Intents
  <2> QED
    BY <1>3, <2>1, AdvanceMoves
<1>9. CASE RecordFill \/ CountRejected \/ Resolve
  <2>1. pc \in Ongoing /\ cur \in Intents
    BY <1>0, <1>9, ReconcilerAssumption
       DEF RecordFill, CountRejected, Resolve, Verdict, Ongoing, Enums, Intents
  <2>2. closed' \subseteq closed \cup {cur} /\ (view[cur] \in Terminal \/ closed' = closed)
    BY <1>0, <1>9 DEF RecordFill, CountRejected, Resolve, journalVars, Course, Terminal
  <2>3. Advance \/ GoOn("resolve") \/ GoOn("reset")
    BY <1>9 DEF RecordFill, CountRejected, Resolve
  <2> QED
    BY <1>3, <1>4, <2>1, <2>2, <2>3, AdvanceMoves DEF Ongoing
<1>10. CASE reconcileSymbolBlocks \/ NotifyScanComplete
  <2>1. (GoOn("audit") \/ GoOn("gate")) /\ closed' = closed /\ pc \in {"clear", "gate"}
    BY <1>10 DEF reconcileSymbolBlocks, NotifyScanComplete, journalVars
  <2> QED
    BY <1>4, <2>1
<1>11. CASE ReemitAudit \/ LoadFails \/ Panic \/ Crash
  BY <1>1, <1>11 DEF ReemitAudit, LoadFails, Panic, CycleFails, Crash, Idle, journalVars
<1>12. CASE Tick \/ ClearHalt \/ UNCHANGED vars
  BY <1>2, <1>12 DEF Tick, ClearHalt, vars, Keeps, journalVars, cycleVars
<1> QED
  BY <1>5, <1>6, <1>7, <1>8, <1>9, <1>10, <1>11, <1>12 DEF Next, Cycle

LEMMA CourseStep == IInv /\ [Next]_vars => Course'
<1> SUFFICES ASSUME IInv, [Next]_vars PROVE Course'
  OBVIOUS
<1>0. Course /\ Enums /\ now # NoTime
  BY Types DEF IInv, Enums, NoTime
<1> USE <1>0 DEF Course, memory, cycleVars, journalVars, world
<1>1. ASSUME NEW i \in Intents, Attempt(i) \/ Ack(i) \/ Decide(i) PROVE Course'
  BY <1>1 DEF Attempt, Ack, Decide, Moves
<1>2. CASE BeginCycle
  <2>1. Begun
    BY <1>2, Begins DEF IInv
  <2> QED
    BY <2>1 DEF Begun
<1>3. CASE GetOrder
  <2>1. pc = "lookup" /\ pc' \in {"lookup", "verdict"} /\ watermark' = watermark
    BY <1>3 DEF GetOrder
  <2> QED
    BY <2>1
<1>4. CASE KeepBlock \/ BlockUnknown \/ ResetStreak \/ KeepStreak
  <2>1. pc \in Ongoing /\ pc' \in {"verdict", "clear"} /\ watermark' = watermark
    BY <1>4 DEF KeepBlock, BlockUnknown, ResetStreak, KeepStreak, Verdict, Ongoing, Advance
  <2> QED
    BY <2>1 DEF Ongoing
<1>5. CASE RecordFill
  <2>1. pc = "verdict" /\ watermark' = watermark
    BY <1>5 DEF RecordFill
  <2>2. \/ Advance
        \/ GoOn("resolve") /\ view[cur] \in {"filled", "canceled"}
    BY <1>5 DEF RecordFill
  <2> QED
    BY <2>1, <2>2 DEF Advance, GoOn
<1>6. CASE CountRejected
  <2>1. pc = "verdict" /\ watermark' = watermark /\ view[cur] = "rejected"
    BY <1>6 DEF CountRejected, Verdict
  <2>2. Advance \/ (GoOn("resolve") /\ streak' = streak \cup {cur})
    BY <1>6 DEF CountRejected
  <2> QED
    BY <2>1, <2>2 DEF Advance, GoOn
<1>7. CASE Resolve
  <2>1. pc = "resolve" /\ watermark' = watermark
    BY <1>7 DEF Resolve
  <2>2. Advance \/ (GoOn("reset") /\ closed' = closed \cup {cur} /\ view[cur] = "filled")
    BY <1>7 DEF Resolve
  <2> QED
    BY <2>1, <2>2 DEF Advance, GoOn
<1>8. CASE reconcileSymbolBlocks \/ NotifyScanComplete
  BY <1>8 DEF reconcileSymbolBlocks, NotifyScanComplete, GoOn
<1>9. CASE ReemitAudit \/ LoadFails \/ Panic \/ Crash
  BY <1>9 DEF ReemitAudit, LoadFails, Panic, CycleFails, Crash
<1>10. CASE Tick \/ ClearHalt \/ UNCHANGED vars
  BY <1>10 DEF Tick, ClearHalt, vars
<1> QED
  BY <1>1, <1>2, <1>3, <1>4, <1>5, <1>6, <1>7, <1>8, <1>9, <1>10 DEF Next, Cycle

LEMMA KnownStep == IInv /\ [Next]_vars => Known'
<1> SUFFICES ASSUME IInv, [Next]_vars, NEW i \in Intents, i \in streak'
             PROVE  order'[i] # "none"
                    /\ (watermark' # NoTime => at'[i] <= watermark' \/ at'[i] <= newest')
  BY EnumsStep DEF Known, Enums
<1>0. /\ i \in streak => order[i] # "none" /\ (watermark # NoTime => at[i] <= watermark \/ at[i] <= newest)
      /\ at[i] \in Nat /\ at[i] <= now /\ now \in Nat /\ watermark \in Nat /\ newest \in Nat
  BY ReconcilerAssumption DEF IInv, Known, TypeOK, Timed
<1>1. CASE CountRejected
  <2>1. pc = "verdict" /\ cur \in Intents /\ view[cur] = "rejected"
    BY <1>1, ReconcilerAssumption DEF CountRejected, Verdict, IInv, TypeOK, Intents
  <2>2. order[cur] = "rejected" /\ at[cur] \in Nat
    BY <2>1, ReconcilerAssumption DEF IInv, Seen, TypeOK, Terminal
  <2>3. order' = order /\ at' = at /\ watermark' = watermark
    BY <1>1 DEF CountRejected, journalVars
  <2>4. \/ streak' = streak \cup {cur} /\ newest' = Later(newest, at[cur])
        \/ streak' = streak /\ newest' = newest
    BY <1>1 DEF CountRejected
  <2>5. newest <= newest' /\ (i \notin streak => i = cur /\ at[cur] <= newest') /\ newest' \in Nat
    BY <1>0, <2>2, <2>4 DEF Later
  <2> QED
    BY <1>0, <2>2, <2>3, <2>5
<1>2. CASE ~CountRejected
  <2>1. i \in streak
    BY <1>2 DEF Next, Cycle, Attempt, Ack, Decide, Moves, BeginCycle, GetOrder, KeepBlock, BlockUnknown,
       RecordFill, Resolve, ResetStreak, KeepStreak, reconcileSymbolBlocks, NotifyScanComplete,
       ReemitAudit, LoadFails, Panic, CycleFails, Tick, ClearHalt, Crash, vars
  <2>2. order[i] # "none" /\ order'[i] # "none" /\ at'[i] = at[i]
    BY <1>0, <2>1, Lasting
  <2>3. CASE BeginCycle
    <3>1. newest' = newest /\ watermark' = IF watermark = NoTime THEN now ELSE watermark
      BY <2>3 DEF BeginCycle, MarkWatermark
    <3> QED
      BY <1>0, <2>1, <2>2, <3>1
  <2>4. CASE Crash
    BY <2>2, <2>4 DEF Crash
  <2>5. CASE ~BeginCycle /\ ~Crash
    <3>1. newest' = newest /\ watermark' = watermark
      BY <1>2, <2>5 DEF Next, Cycle, Attempt, Ack, Decide, Moves, GetOrder, KeepBlock, BlockUnknown,
         RecordFill, Resolve, ResetStreak, KeepStreak, reconcileSymbolBlocks, NotifyScanComplete,
         ReemitAudit, LoadFails, Panic, CycleFails, Tick, ClearHalt, vars, memory
    <3> QED
      BY <1>0, <2>1, <2>2, <3>1
  <2> QED
    BY <2>3, <2>4, <2>5
<1> QED
  BY <1>1, <1>2

LEMMA ErasedStep == IInv /\ [Next]_vars => NoFailureErased'
<1> SUFFICES ASSUME IInv, [Next]_vars, NEW i \in closed', order'[i] = "rejected"
             PROVE  i \in streak' \/ \E f \in closed' : order'[f] = "filled" /\ at'[f] > at'[i]
  BY DEF NoFailureErased
<1>1. closed' \subseteq Intents /\ closed \subseteq Intents /\ cur \in 0 .. N
  BY EnumsStep, Types DEF Enums, IInv
<1>2. closed \subseteq closed'
  BY DEF Next, Cycle, Attempt, Ack, Decide, Moves, BeginCycle, GetOrder, KeepBlock, BlockUnknown,
     RecordFill, CountRejected, Resolve, ResetStreak, KeepStreak, reconcileSymbolBlocks,
     NotifyScanComplete, ReemitAudit, LoadFails, Panic, CycleFails, Tick, ClearHalt, Crash, vars,
     journalVars
<1>3. \A j \in closed : order[j] \in Terminal /\ order'[j] = order[j] /\ at'[j] = at[j] /\ at[j] \in Nat
  <2> TAKE j \in closed
  <2>1. order[j] \in Terminal /\ at[j] \in Nat
    BY <1>1, ReconcilerAssumption DEF IInv, TypeOK
  <2> QED
    BY <1>1, <2>1, Lasting DEF Terminal
<1>4. CASE i \notin closed
  <2>1. Resolve /\ i = cur
    BY <1>4 DEF Next, Cycle, Attempt, Ack, Decide, Moves, BeginCycle, GetOrder, KeepBlock,
       BlockUnknown, RecordFill, CountRejected, Resolve, ResetStreak, KeepStreak,
       reconcileSymbolBlocks, NotifyScanComplete, ReemitAudit, LoadFails, Panic, CycleFails, Tick,
       ClearHalt, Crash, vars, journalVars
  <2>2. order' = order /\ streak' = streak /\ pc = "resolve"
    BY <2>1 DEF Resolve
  <2>3. view[cur] = order[cur]
    BY <1>1, <2>1, <2>2 DEF IInv, Course, Seen, Terminal
  <2> QED
    BY <2>1, <2>2, <2>3 DEF IInv, Course
<1>5. CASE i \in closed /\ ResetStreak
  <2>1. pc = "reset" /\ ResetDue /\ UNCHANGED <<order, at, closed>>
    BY <1>5 DEF ResetStreak, journalVars
  <2>2. order[cur] = "filled" /\ cur \in closed
    BY <1>1, <2>1 DEF IInv, Course, Seen, Terminal
  <2>3. at[cur] > watermark /\ ~(newest # NoTime /\ newest >= at[cur]) /\ watermark # NoTime
    BY <2>1 DEF ResetDue, newerFailureCounted, IInv, Course
  <2>4. CASE i \in streak
    <3>1. at[i] <= watermark \/ at[i] <= newest
      BY <2>3, <2>4 DEF IInv, Known
    <3>2. at[i] \in Nat /\ at[i] # NoTime /\ at[cur] \in Nat /\ newest \in Nat /\ watermark \in Nat
      BY <1>1, <1>3, <1>5, <2>1, <2>2 DEF IInv, Timed, TypeOK
    <3>3. at[cur] > at[i]
      BY <2>3, <3>1, <3>2 DEF NoTime
    <3> QED
      BY <2>1, <2>2, <3>3
  <2>5. CASE i \notin streak
    BY <1>5, <2>1, <2>5 DEF IInv, NoFailureErased
  <2> QED
    BY <2>4, <2>5
<1>6. CASE i \in closed /\ ~ResetStreak
  <2>1. streak \subseteq streak'
    BY <1>6 DEF Next, Cycle, Attempt, Ack, Decide, Moves, BeginCycle, GetOrder, KeepBlock,
       BlockUnknown, RecordFill, CountRejected, Resolve, KeepStreak, reconcileSymbolBlocks,
       NotifyScanComplete, ReemitAudit, LoadFails, Panic, CycleFails, Tick, ClearHalt, Crash, vars
  <2>2. i \in streak \/ \E f \in closed : order[f] = "filled" /\ at[f] > at[i]
    BY <1>3, <1>6 DEF IInv, NoFailureErased
  <2> QED
    BY <1>2, <1>3, <1>6, <2>1, <2>2
<1> QED
  BY <1>4, <1>5, <1>6

LEMMA AgingStep == IInv /\ [Next]_vars => Aging'
<1> SUFFICES ASSUME IInv, [Next]_vars, NEW i \in Intents, i \in evidence'
             PROVE  order'[i] # "none" /\ (order'[i] \in Unacked => now' - at'[i] >= SettleWindow)
  BY EnumsStep DEF Aging, Enums
<1>1. at[i] \in Nat /\ now \in Nat /\ SettleWindow \in Nat
  BY ReconcilerAssumption DEF IInv, TypeOK
<1>2. CASE i \in evidence
  <2>1. order[i] # "none" /\ (order[i] \in Unacked => now - at[i] >= SettleWindow)
    BY <1>2 DEF IInv, Aging
  <2> QED
    BY <1>1, <2>1, Lasting
<1>3. CASE i \notin evidence
  <2>1. BeginCycle \/ (BlockUnknown /\ i = cur)
    BY <1>3 DEF Next, Cycle, Attempt, Ack, Decide, Moves, GetOrder, KeepBlock, BlockUnknown,
       RecordFill, CountRejected, Resolve, ResetStreak, KeepStreak, reconcileSymbolBlocks,
       NotifyScanComplete, ReemitAudit, LoadFails, Panic, CycleFails, Tick, ClearHalt, Crash, vars
  <2>2. CASE BeginCycle
    <3>1. Begun
      BY <2>2, Begins DEF IInv
    <3>2. view'[i] = "ambiguous" /\ order' = order /\ at' = at /\ now' = now
      BY <1>3, <3>1 DEF Begun, journalVars, world
    <3> QED
      BY <3>1, <3>2 DEF Begun, Unacked
  <2>3. CASE BlockUnknown /\ i = cur
    <3>1. view[i] = "unknown" /\ order' = order
      BY <2>3 DEF BlockUnknown, Verdict, journalVars
    <3>2. order[i] \in AckedOrders
      BY <3>1 DEF IInv, Seen, Acked
    <3> QED
      BY <3>1, <3>2 DEF AckedOrders, Unacked, Terminal
  <2> QED
    BY <2>1, <2>2, <2>3
<1> QED
  BY <1>2, <1>3

LEMMA HeldStep == IInv /\ [Next]_vars => Held' /\ EvidenceBlocks'
<1> SUFFICES ASSUME IInv, [Next]_vars PROVE Held' /\ EvidenceBlocks'
  OBVIOUS
<1>0. Held /\ EvidenceBlocks /\ Enums /\ evidence \subseteq Intents /\ crashes \in Nat
  BY Types, ReconcilerAssumption DEF IInv, Counts, Enums
<1>r. \A i \in evidence : Relevant(i)' => Relevant(i)
  <2> TAKE i \in evidence
  <2>1. order[i] # "none" /\ (order'[i] \in Unacked => order[i] \in Unacked \cup {"none"})
    BY <1>0, Lasting DEF IInv, Aging
  <2>2. crashes' = 0 => crashes = 0
    BY <1>0 DEF Next, Cycle, Attempt, Ack, Decide, Moves, BeginCycle, GetOrder, KeepBlock,
       BlockUnknown, RecordFill, CountRejected, Resolve, ResetStreak, KeepStreak,
       reconcileSymbolBlocks, NotifyScanComplete, ReemitAudit, LoadFails, Panic, CycleFails, Tick,
       ClearHalt, Crash, vars, world
  <2> QED
    BY <2>1, <2>2 DEF Relevant
<1>a. \A i \in Intents : view[i] \in {"failed", "unknown"} => order[i] \in AckedOrders /\ i \in Acked(view)
  BY DEF IInv, Seen, Acked
<1>b. \A i \in Intents : i \in Nat
  BY ReconcilerAssumption DEF Intents
<1>1. ASSUME UNCHANGED <<closed, blocked, gate, crashes, pc, cur, view, needBlock, evidence>>,
             gate \/ order' = order \/ crashes # 0
      PROVE  Held' /\ EvidenceBlocks'
  BY <1>0, <1>1, <1>r DEF Held, EvidenceBlocks, Relevant, Judged
<1>2. ASSUME pc' = "idle", UNCHANGED <<order, closed, blocked, gate, crashes, evidence>>
      PROVE  Held' /\ EvidenceBlocks'
  BY <1>0, <1>2 DEF Held, EvidenceBlocks, Relevant, Judged
<1>3. ASSUME NEW i \in Intents, Attempt(i) \/ Ack(i) \/ Decide(i)
      PROVE  Held' /\ EvidenceBlocks'
  <2>1. UNCHANGED <<closed, blocked, gate, crashes, pc, cur, view, needBlock, evidence>>
    BY <1>3 DEF Attempt, Ack, Decide, Moves, memory, cycleVars, world
  <2>2. gate \/ order' = order \/ crashes # 0
    BY <1>0, <1>3 DEF Attempt, Ack, Decide, Held
  <2> QED
    BY <1>1, <2>1, <2>2
<1>4. CASE BeginCycle
  <2>1. Begun
    BY <1>4, Begins DEF IInv
  <2>2. \A i \in evidence : view'[i] \in {"ambiguous", "unread"}
    <3> TAKE i \in evidence
    <3>1. /\ i \notin closed /\ order[i] # "none" /\ order[i] \in Orders
          /\ order[i] \in Unacked => now - at[i] >= SettleWindow
      BY <1>0 DEF IInv, Aging, Held, Enums
    <3>2. view'[i] = "unread" \/ view'[i] = "ambiguous"
      BY <1>0, <2>1, <3>1 DEF Begun, Orders
    <3> QED
      BY <3>2
  <2>3. UNCHANGED <<order, closed, gate, crashes>>
    BY <2>1 DEF Begun, journalVars, world
  <2>4. /\ evidence' = evidence \cup {i \in Intents : view'[i] = "ambiguous"}
        /\ blocked' = blocked \cup needBlock'
        /\ \A i \in Intents : view'[i] = "ambiguous" => SymbolOf[i] \in needBlock' /\ i \notin closed
        /\ \A i \in Intents : view'[i] \notin {"failed", "unknown"}
    BY <2>1 DEF Begun
  <2>5. Held'
    BY <1>0, <2>2, <2>3, <2>4 DEF Held
  <2>6. EvidenceBlocks'
    BY <1>0, <2>3, <2>4 DEF EvidenceBlocks
  <2> QED
    BY <2>5, <2>6
<1>5. CASE GetOrder
  <2>1. pc = "lookup" /\ cur \in Acked(view) /\ cur \in Intents
    BY <1>0, <1>5 DEF GetOrder, IInv, Seen, Enums, Acked
  <2>2. PICK answer \in {order[cur], "failed"} : Looked(answer)
    BY <1>5, <2>1, LooksUp
  <2>3. view'[cur] = answer /\ \A i \in Intents : i # cur => view'[i] = view[i]
    BY <1>0, <2>1, <2>2 DEF Looked, Enums
  <2>4. UNCHANGED <<order, closed, blocked, gate, crashes, needBlock>>
    BY <2>2 DEF Looked, journalVars, memory, world
  <2>5. /\ evidence' \subseteq evidence /\ (cur \in evidence' => answer \in {"failed", "unknown"})
        /\ pc' \in {"lookup", "verdict"} /\ (pc' = "verdict" => \A i \in Acked(view) : i >= cur')
        /\ cur' \in Intents
    BY <2>2 DEF Looked, Acked
  <2>6. answer # "ambiguous"
    <3>1. order[cur] \in AckedOrders
      BY <2>1 DEF IInv, Seen
    <3> QED
      BY <2>2, <3>1 DEF AckedOrders, Terminal
  <2>7. \A i \in evidence' : view'[i] \in {"ambiguous", "unread", "failed", "unknown"}
    BY <1>0, <2>1, <2>3, <2>5 DEF Held
  <2>8. \A i \in evidence' : view'[i] \in {"failed", "unknown"} => ~Judged(i)'
    <3> SUFFICES ASSUME NEW i \in evidence', view'[i] \in {"failed", "unknown"}, Judged(i)'
                 PROVE  FALSE
      OBVIOUS
    <3>1. i \in Acked(view)
      BY <1>0, <1>a, <2>1, <2>3, <2>5
    <3>2. pc' = "verdict" /\ i < cur' /\ i \in Nat /\ cur' \in Nat
      BY <1>0, <1>b, <2>5 DEF Judged, Ongoing
    <3> QED
      BY <2>5, <3>1, <3>2
  <2>9. \A i \in Intents : view'[i] = "ambiguous" => SymbolOf[i] \in needBlock \cap blocked
    BY <1>0, <2>1, <2>3, <2>6 DEF Held
  <2>10. Held'
    BY <1>0, <2>4, <2>5, <2>7, <2>8, <2>9 DEF Held
  <2>11. EvidenceBlocks'
    BY <1>0, <2>4, <2>5 DEF EvidenceBlocks
  <2> QED
    BY <2>10, <2>11
<1>6. ASSUME pc \in Ongoing, UNCHANGED <<order, gate, crashes>>,
             Moved \/ (view' = view /\ cur' = cur /\ pc' \in Ongoing),
             blocked \subseteq blocked', needBlock \subseteq needBlock',
             evidence \subseteq evidence', evidence' \subseteq evidence \cup {cur},
             closed' \subseteq closed \cup {cur},
             cur \in closed' => cur \in closed \/ view[cur] \in Terminal,
             cur \in evidence' =>
               /\ view[cur] \in {"failed", "unknown"}
               /\ SymbolOf[cur] \in blocked' \/ cur \in evidence
               /\ cur \notin closed'
               /\ Relevant(cur) => SymbolOf[cur] \in needBlock'
      PROVE  Held' /\ EvidenceBlocks'
  <2>1. pc # "idle" /\ pc' # "idle" /\ view' = view /\ cur \in Nat
    BY <1>0, <1>6 DEF Moved, Ongoing, Enums
  <2>2. \A i \in evidence' : view'[i] \in {"ambiguous", "unread", "failed", "unknown"}
    BY <1>0, <1>6, <2>1 DEF Held
  <2>3. \A i \in Intents : view'[i] = "ambiguous" => SymbolOf[i] \in needBlock' \cap blocked'
    BY <1>0, <1>6, <2>1 DEF Held
  <2>4. \A i \in evidence' : Relevant(i)' <=> Relevant(i)
    BY <1>6 DEF Relevant
  <2>5. ASSUME NEW i \in evidence', Relevant(i), view[i] \in {"failed", "unknown"}, Judged(i)'
        PROVE  SymbolOf[i] \in needBlock'
    <3>1. CASE i = cur
      BY <1>6, <2>5, <3>1
    <3>2. CASE i # cur
      <4>1. i \in evidence /\ i \in Nat /\ i \in Acked(view)
        BY <1>0, <1>6, <1>a, <1>b, <2>5, <3>2
      <4>2. i < cur
        <5>1. CASE Moved
          <6>1. CASE pc' = "verdict" /\ cur' \in Acked(view) /\ \A k \in Acked(view) : k > cur => k >= cur'
            <7>1. i < cur' /\ cur' \in Nat
              BY <1>b, <2>5, <6>1 DEF Judged, Ongoing, Acked
            <7>2. ~(i > cur)
              BY <4>1, <6>1, <7>1
            <7> QED
              BY <2>1, <3>2, <4>1, <7>2
          <6>2. CASE \A k \in Acked(view) : k <= cur
            <7>1. i <= cur
              BY <4>1, <6>2
            <7> QED
              BY <2>1, <3>2, <4>1, <7>1
          <6> QED
            BY <5>1, <6>1, <6>2 DEF Moved
        <5>2. CASE view' = view /\ cur' = cur /\ pc' \in Ongoing
          BY <2>5, <5>2 DEF Judged, Ongoing
        <5> QED
          BY <1>6, <5>1, <5>2
      <4> QED
        BY <1>0, <1>6, <2>1, <2>5, <4>1, <4>2 DEF Held, Judged
    <3> QED
      BY <3>1, <3>2
  <2>6. evidence' \cap closed' = {}
    BY <1>0, <1>6, <2>1 DEF Held, Terminal
  <2>7. Held'
    BY <1>0, <1>6, <2>1, <2>2, <2>3, <2>4, <2>5, <2>6 DEF Held
  <2>8. EvidenceBlocks'
    BY <1>0, <1>6 DEF EvidenceBlocks
  <2> QED
    BY <2>7, <2>8
<1>m. pc \in Ongoing /\ Advance => Moved /\ cur \in Intents
  BY <1>0, AdvanceMoves, ReconcilerAssumption DEF Enums, Ongoing, Intents
<1>7. CASE KeepBlock
  <2>1. /\ pc \in Ongoing /\ Moved /\ cur \in Intents /\ view[cur] = "failed"
        /\ UNCHANGED <<order, closed, gate, crashes, blocked, evidence>>
        /\ needBlock' = needBlock \cup ({SymbolOf[cur]} \cap blocked)
    BY <1>7, <1>m DEF KeepBlock, Verdict, Ongoing, journalVars, memory, world
  <2>2. cur \in evidence /\ Relevant(cur) => SymbolOf[cur] \in blocked
    <3> SUFFICES ASSUME cur \in evidence, Relevant(cur) PROVE SymbolOf[cur] \in blocked
      OBVIOUS
    <3>1. order[cur] \in AckedOrders /\ order[cur] \notin Unacked /\ order[cur] # "none"
      BY <1>a, <2>1 DEF AckedOrders, Unacked, Terminal
    <3>2. crashes = 0 /\ gate
      BY <1>0, <2>1, <3>1 DEF Relevant, Held
    <3> QED
      BY <1>0, <3>2 DEF EvidenceBlocks
  <2>3. cur \in evidence => cur \notin closed
    BY <1>0 DEF Held
  <2> QED
    BY <1>6, <2>1, <2>2, <2>3
<1>8. CASE BlockUnknown
  <2>1. /\ pc \in Ongoing /\ Moved /\ cur \in Intents /\ view[cur] = "unknown"
        /\ UNCHANGED <<order, closed, gate, crashes>>
        /\ evidence' = evidence \cup {cur} /\ blocked' = blocked \cup {SymbolOf[cur]}
        /\ needBlock' = needBlock \cup {SymbolOf[cur]}
    BY <1>8, <1>m DEF BlockUnknown, Verdict, Ongoing, journalVars, world, TripSymbols
  <2>2. cur \notin closed
    BY <2>1 DEF IInv, Seen, Terminal
  <2> QED
    BY <1>6, <2>1, <2>2
<1>9. CASE RecordFill \/ CountRejected \/ Resolve \/ ResetStreak \/ KeepStreak
  <2>1. /\ pc \in Ongoing
        /\ UNCHANGED <<order, gate, crashes, blocked, evidence, needBlock>>
        /\ Advance \/ GoOn("resolve") \/ GoOn("reset")
    BY <1>9 DEF RecordFill, CountRejected, Resolve, ResetStreak, KeepStreak, Verdict, Ongoing,
       journalVars, memory, world
  <2>2. view[cur] \in {"open", "filled", "canceled", "rejected"}
    BY <1>9 DEF RecordFill, CountRejected, Resolve, ResetStreak, KeepStreak, Verdict, IInv, Course
  <2>3. /\ closed' \subseteq closed \cup {cur}
        /\ cur \in closed' => cur \in closed \/ view[cur] \in Terminal
    BY <1>9 DEF RecordFill, CountRejected, Resolve, ResetStreak, KeepStreak, IInv, Course, Terminal,
       journalVars
  <2>4. cur \notin evidence
    BY <1>0, <2>1, <2>2 DEF Held, Ongoing
  <2>5. Moved \/ (view' = view /\ cur' = cur /\ pc' \in Ongoing)
    BY <1>m, <2>1 DEF GoOn, Ongoing
  <2> QED
    BY <1>6, <2>1, <2>3, <2>4, <2>5
<1>10. CASE reconcileSymbolBlocks
  <2>1. /\ pc = "clear" /\ pc' \in {"audit", "gate"} /\ blocked' = blocked \cap needBlock
        /\ UNCHANGED <<order, closed, gate, crashes, cur, view, needBlock, evidence>>
    BY <1>10 DEF reconcileSymbolBlocks, GoOn, journalVars, world
  <2>2. \A i \in Intents : Judged(i) /\ Judged(i)'
    BY <2>1 DEF Judged
  <2>3. \A i \in evidence : Relevant(i) => SymbolOf[i] \in needBlock
    <3> SUFFICES ASSUME NEW i \in evidence, Relevant(i) PROVE SymbolOf[i] \in needBlock
      OBVIOUS
    <3>1. view[i] # "unread"
      BY <1>0, <2>1 DEF IInv, Seen
    <3> QED
      BY <1>0, <2>1, <2>2, <3>1 DEF Held
  <2>4. Held'
    BY <1>0, <2>1, <2>2, <2>3 DEF Held, Relevant
  <2>5. EvidenceBlocks'
    BY <1>0, <2>1, <2>3 DEF EvidenceBlocks, Relevant
  <2> QED
    BY <2>4, <2>5
<1>11. CASE NotifyScanComplete
  <2>1. /\ pc = "gate" /\ pc' = "audit" /\ gate'
        /\ UNCHANGED <<order, closed, blocked, crashes, cur, view, needBlock, evidence>>
    BY <1>11 DEF NotifyScanComplete, GoOn, journalVars, world
  <2>2. \A i \in Intents : Judged(i)
    BY <2>1 DEF Judged
  <2>3. Held'
    BY <1>0, <2>1, <2>2 DEF Held, Relevant
  <2>4. \A i \in evidence : Relevant(i) => SymbolOf[i] \in blocked
    <3> SUFFICES ASSUME NEW i \in evidence, Relevant(i), ~gate PROVE SymbolOf[i] \in blocked
      BY <1>0 DEF EvidenceBlocks, Relevant
    <3>1. order[i] # "none"
      BY DEF IInv, Aging
    <3>2. order[i] \in Unacked
      BY <1>0, <3>1 DEF Held, Relevant
    <3>3. view[i] \notin {"failed", "unknown"}
      BY <1>0, <1>a, <3>2 DEF AckedOrders, Unacked, Terminal
    <3>4. view[i] # "unread"
      BY <1>0, <2>1 DEF IInv, Seen
    <3>5. view[i] = "ambiguous"
      BY <1>0, <2>1, <3>3, <3>4 DEF Held
    <3> QED
      BY <1>0, <2>1, <3>5 DEF Held
  <2>5. EvidenceBlocks'
    BY <2>1, <2>4 DEF EvidenceBlocks, Relevant
  <2> QED
    BY <2>3, <2>5
<1>12. CASE ReemitAudit \/ LoadFails \/ Panic
  BY <1>2, <1>12 DEF ReemitAudit, LoadFails, Panic, CycleFails, journalVars, world
<1>13. CASE Crash
  <2>1. pc' = "idle" /\ ~gate' /\ crashes' # 0 /\ closed' = closed /\ evidence' = evidence
    BY <1>0, <1>13 DEF Crash
  <2> QED
    BY <1>0, <2>1 DEF Held, EvidenceBlocks
<1>14. CASE Tick \/ ClearHalt \/ UNCHANGED vars
  BY <1>1, <1>14 DEF Tick, ClearHalt, vars, journalVars, memory, cycleVars, world
<1> QED
  BY <1>3, <1>4, <1>5, <1>7, <1>8, <1>9, <1>10, <1>11, <1>12, <1>13, <1>14 DEF Next, Cycle

LEMMA LaterStep ==
  ASSUME IInv, [Next]_vars, NEW i \in Intents, NEW j \in Intents,
         view'[i] = "absent", i \notin closed', order'[i] # "none", view'[j] # "absent"
  PROVE  at'[j] <= at'[i]
<1>0. Enums /\ Waited /\ Timed
  BY Types DEF IInv
<1>1. i \notin closed
  BY DEF Next, Cycle, Attempt, Ack, Decide, Moves, BeginCycle, GetOrder, KeepBlock, BlockUnknown,
     RecordFill, CountRejected, Resolve, ResetStreak, KeepStreak, reconcileSymbolBlocks,
     NotifyScanComplete, ReemitAudit, LoadFails, Panic, CycleFails, Tick, ClearHalt, Crash, vars,
     journalVars
<1>2. CASE BeginCycle
  <2>1. Begun
    BY <1>2, Begins DEF IInv
  <2>2. order'[i] = order[i]
    BY <2>1 DEF Begun, journalVars
  <2> QED
    BY <1>1, <2>1, <2>2 DEF Begun
<1>3. CASE ReemitAudit \/ LoadFails \/ Panic \/ Crash
  <2>1. view' = NoView
    BY <1>3 DEF ReemitAudit, LoadFails, Panic, CycleFails, Crash
  <2> QED
    BY <2>1 DEF NoView
<1>4. ASSUME view[i] = "absent", view[j] # "absent" PROVE at'[j] <= at'[i]
  <2>1. order[j] # "none" /\ at'[j] = at[j] /\ at[j] <= now
    BY <1>0, <1>4, Lasting DEF IInv, Seen, Timed
  <2>2. CASE order[i] # "none"
    <3>1. at'[i] = at[i] /\ at[j] <= at[i]
      BY <1>0, <1>1, <1>4, <2>2, Lasting DEF Waited
    <3> QED
      BY <2>1, <3>1
  <2>3. CASE order[i] = "none"
    <3>1. at'[i] = now
      BY <2>3, Lasting
    <3> QED
      BY <2>1, <3>1
  <2> QED
    BY <2>2, <2>3
<1>5. CASE GetOrder
  <2>1. cur \in Acked(view) /\ cur \in Intents
    BY <1>0, <1>5 DEF GetOrder, IInv, Seen, Enums, Acked
  <2>2. PICK answer \in {order[cur], "failed"} : Looked(answer)
    BY <1>5, <2>1, LooksUp
  <2>3. \A k \in Intents : k # cur => view'[k] = view[k]
    BY <1>0, <2>1, <2>2 DEF Looked, Enums
  <2>4. view'[cur] = answer /\ answer # "absent" /\ view[cur] # "absent"
    <3>1. order[cur] \in AckedOrders
      BY <2>1 DEF IInv, Seen
    <3>2. answer # "absent"
      BY <2>2, <3>1 DEF AckedOrders, Terminal
    <3> QED
      BY <1>0, <2>1, <2>2, <3>2 DEF Looked, Enums, Acked
  <2> QED
    BY <1>4, <2>3, <2>4
<1>6. CASE ~(BeginCycle \/ GetOrder \/ ReemitAudit \/ LoadFails \/ Panic \/ Crash)
  <2>1. view' = view
    BY <1>6 DEF Next, Cycle, Attempt, Ack, Decide, Moves, KeepBlock, BlockUnknown,
       RecordFill, CountRejected, Resolve, ResetStreak, KeepStreak, reconcileSymbolBlocks,
       NotifyScanComplete, Tick, ClearHalt, vars, cycleVars, Advance, GoOn
  <2> QED
    BY <1>4, <2>1
<1> QED
  BY <1>2, <1>3, <1>5, <1>6

LEMMA DoubtStep ==
  IInv /\ [Next]_vars =>
    (pc \in {"resolve", "reset"} /\ view[cur] = "filled" => ~earlierInDoubt(at[cur]))'
<1> SUFFICES ASSUME IInv, [Next]_vars, pc' \in {"resolve", "reset"}, view'[cur'] = "filled"
             PROVE  \A i \in Intents : view'[i] \in {"failed", "unknown", "settling"} => ~(at'[i] <= at'[cur'])
  BY DEF earlierInDoubt, InDoubt
<1>0. Enums /\ Waited
  BY Types DEF IInv
<1>1. pc \in Ongoing /\ view' = view /\ cur' = cur
  BY DEF Next, Cycle, Attempt, Ack, Decide, Moves, BeginCycle, GetOrder, KeepBlock, BlockUnknown,
     RecordFill, CountRejected, Resolve, ResetStreak, KeepStreak, reconcileSymbolBlocks,
     NotifyScanComplete, ReemitAudit, LoadFails, Panic, CycleFails, Tick, ClearHalt, Crash, vars,
     cycleVars, Advance, GoOn, Verdict, Ongoing
<1>2. cur \in Intents
  BY <1>0, <1>1, ReconcilerAssumption DEF Enums, Ongoing, Intents
<1>3. \A i \in Intents : view[i] # "absent" => at'[i] = at[i]
  BY Lasting DEF IInv, Seen
<1>4. ~earlierInDoubt(at[cur])
  <2>1. CASE pc \in {"resolve", "reset"}
    BY <1>0, <1>1, <2>1 DEF Waited
  <2>2. CASE pc = "verdict"
    <3>1. RecordFill \/ CountRejected
      BY <2>2 DEF Next, Cycle, Attempt, Ack, Decide, Moves, BeginCycle, GetOrder, KeepBlock,
         BlockUnknown, RecordFill, CountRejected, Resolve, ResetStreak, KeepStreak,
         reconcileSymbolBlocks, NotifyScanComplete, ReemitAudit, LoadFails, Panic, CycleFails, Tick,
         ClearHalt, Crash, vars, cycleVars, Advance, GoOn
    <3>2. ~CountRejected
      BY <1>1 DEF CountRejected, Verdict
    <3> QED
      BY <1>1, <3>1, <3>2 DEF RecordFill, Advance
  <2> QED
    BY <1>1, <2>1, <2>2 DEF Ongoing
<1> QED
  BY <1>1, <1>2, <1>3, <1>4 DEF earlierInDoubt, InDoubt

LEMMA ClosedStep ==
  ASSUME IInv, [Next]_vars, faults' = 0, pc' \in Ongoing,
         NEW i \in Intents, i < cur', view'[i] = "rejected"
  PROVE  i \in closed'
<1>0. Enums /\ Waited /\ i \in Nat /\ faults \in Nat
  BY Types, ReconcilerAssumption DEF IInv, Intents, Counts
<1>1. faults = 0 /\ ~LoadFails /\ ~Panic
  BY <1>0 DEF Next, Cycle, Attempt, Ack, Decide, Moves, BeginCycle, GetOrder, KeepBlock, BlockUnknown,
     RecordFill, CountRejected, Resolve, ResetStreak, KeepStreak, reconcileSymbolBlocks,
     NotifyScanComplete, ReemitAudit, LoadFails, Panic, CycleFails, Tick, ClearHalt, Crash, vars,
     Emitted, EmitFails, Fault
<1>2. closed \subseteq closed'
  BY DEF Next, Cycle, Attempt, Ack, Decide, Moves, BeginCycle, GetOrder, KeepBlock, BlockUnknown,
     RecordFill, CountRejected, Resolve, ResetStreak, KeepStreak, reconcileSymbolBlocks,
     NotifyScanComplete, ReemitAudit, LoadFails, Panic, CycleFails, Tick, ClearHalt, Crash, vars,
     journalVars
<1>3. CASE BeginCycle \/ reconcileSymbolBlocks \/ NotifyScanComplete \/ ReemitAudit \/ Crash
  BY <1>3 DEF BeginCycle, reconcileSymbolBlocks, NotifyScanComplete, ReemitAudit, Crash, Ongoing, GoOn
<1>4. CASE GetOrder
  <2>1. cur \in Acked(view) /\ cur \in Intents
    BY <1>0, <1>4 DEF GetOrder, IInv, Seen, Enums, Acked
  <2>2. PICK answer \in {order[cur], "failed"} : Looked(answer)
    BY <1>4, <2>1, LooksUp
  <2>3. i \in Acked(view)
    BY <1>0, <2>1, <2>2 DEF Looked, Enums, Acked
  <2>4. cur' \in Nat /\ i >= cur'
    BY <2>2, <2>3, ReconcilerAssumption DEF Looked, Ongoing, Acked, Intents
  <2> QED
    BY <1>0, <2>4
<1>5. ASSUME pc \in Ongoing, Moved, view[cur] # "rejected" \/ cur \in closed'
      PROVE  i \in closed'
  <2>1. pc' = "verdict" /\ view' = view /\ cur' \in Nat /\ cur \in Nat
        /\ \A k \in Acked(view) : k > cur => k >= cur'
    BY <1>0, <1>5, ReconcilerAssumption DEF Moved, Ongoing, Enums, Acked, Intents
  <2>2. i \in Acked(view)
    BY <2>1 DEF Acked
  <2>3. ~(i > cur)
    BY <1>0, <2>1, <2>2
  <2>4. i < cur \/ i = cur
    BY <1>0, <2>1, <2>3
  <2> QED
    BY <1>0, <1>1, <1>2, <1>5, <2>1, <2>4 DEF Waited
<1>6. ASSUME pc \in Ongoing, cur' = cur, view' = view PROVE i \in closed'
  BY <1>0, <1>1, <1>2, <1>6 DEF Waited
<1>m. pc \in Ongoing /\ Advance => Moved
  BY <1>0, AdvanceMoves, ReconcilerAssumption DEF Enums, Ongoing, Intents
<1>7. CASE KeepBlock \/ BlockUnknown \/ RecordFill \/ CountRejected \/ Resolve \/ ResetStreak \/ KeepStreak
  <2>1. pc \in Ongoing /\ (Advance \/ GoOn("resolve") \/ GoOn("reset"))
    BY <1>7 DEF KeepBlock, BlockUnknown, RecordFill, CountRejected, Resolve, ResetStreak, KeepStreak,
       Verdict, Ongoing
  <2>2. CASE Advance /\ ~GoOn("resolve") /\ ~GoOn("reset")
    <3>1. view[cur] # "rejected" \/ Resolve \/ CountRejected
      BY <1>7 DEF KeepBlock, BlockUnknown, RecordFill, ResetStreak, KeepStreak, Verdict, IInv, Course
    <3>2. ~CountRejected
      BY <1>0, <1>1, <2>2 DEF CountRejected, Fault
    <3>3. Resolve => cur \in closed'
      BY <1>0, <1>1 DEF Resolve, Fault
    <3> QED
      BY <1>5, <1>m, <2>1, <2>2, <3>1, <3>2, <3>3
  <2>3. CASE GoOn("resolve") \/ GoOn("reset")
    BY <1>6, <2>1, <2>3 DEF GoOn
  <2> QED
    BY <2>1, <2>2, <2>3
<1>8. CASE \E k \in Intents : Attempt(k) \/ Ack(k) \/ Decide(k)
  BY <1>6, <1>8 DEF Attempt, Ack, Decide, Moves, cycleVars
<1>9. CASE Tick \/ ClearHalt \/ UNCHANGED vars
  BY <1>6, <1>9 DEF Tick, ClearHalt, vars, cycleVars
<1> QED
  BY <1>1, <1>3, <1>4, <1>7, <1>8, <1>9 DEF Next, Cycle

LEMMA WaitedStep == IInv /\ [Next]_vars => Waited'
<1> SUFFICES ASSUME IInv, [Next]_vars PROVE Waited'
  OBVIOUS
<1>1. (\A i, j \in Intents :
        view[i] = "absent" /\ i \notin closed /\ order[i] # "none" /\ view[j] # "absent" => at[j] <= at[i])'
  BY LaterStep
<1>2. (faults = 0 /\ pc \in Ongoing =>
        \A i \in Intents : i < cur /\ view[i] = "rejected" => i \in closed)'
  BY ClosedStep
<1> QED
  BY <1>1, <1>2, DoubtStep DEF Waited

LEMMA StepIInv == IInv /\ [Next]_vars => IInv'
<1> SUFFICES ASSUME IInv, [Next]_vars PROVE IInv'
  OBVIOUS
<1>1. TypeOK'
  <2>1. Enums' /\ Counts'
    BY EnumsStep, CountsStep
  <2> QED
    BY <2>1 DEF TypeOK, Enums, Counts
<1> QED
  BY <1>1, TimedStep, SeenStep, CourseStep, KnownStep, AgingStep, HeldStep, WaitedStep, ErasedStep DEF IInv

\* The inductive invariant: what holds of every state of the reconciler.
THEOREM Invariance == Spec => []IInv
  BY InitIInv, StepIInv, PTL DEF Spec

\* Every reachable state is well typed, and no more is in the streak than was counted.
THEOREM TypeCorrect == Spec => []TypeOK
<1>1. IInv => TypeOK
  BY DEF IInv
<1> QED
  BY <1>1, Invariance, PTL

\* Whatever fails, crashes or is answered late, a rejection that left the unresolved set is
\* in the streak or older than a fill that left it too.
THEOREM FailureErasedNever == Spec => []NoFailureErased
<1>1. IInv => NoFailureErased
  BY DEF IInv
<1> QED
  BY <1>1, Invariance, PTL

\* While orders may be submitted, what the evidence is about stays blocked.
THEOREM EvidenceHolds == Spec => []EvidenceBlocks
<1>1. IInv => EvidenceBlocks
  BY DEF IInv
<1> QED
  BY <1>1, Invariance, PTL

\* A reset passes over no rejection the cycle could have counted first.
THEOREM ResetsInOrder == Spec => OrderedResets
<1>1. ASSUME IInv, ResetStreak, faults = 0, InSubmitOrder, NEW i \in Intents, OlderRejection(i)
      PROVE  FALSE
  <2>0. Enums /\ pc = "reset" /\ cur \in Intents /\ i \in Nat /\ cur \in Nat
    <3>1. Enums /\ pc = "reset"
      BY <1>1, Types DEF IInv, ResetStreak
    <3>2. cur \in Intents
      BY <3>1, ReconcilerAssumption DEF Enums, Intents
    <3> QED
      BY <3>1, <3>2, ReconcilerAssumption DEF Intents
  <2>1. /\ i \notin closed /\ order[i] = "rejected" /\ at[i] < at[cur]
        /\ view[i] \notin {"open", "ambiguous"}
        /\ at[i] \in Nat /\ at[cur] \in Nat
    BY <1>1, <2>0, ReconcilerAssumption DEF OlderRejection, Enums
  <2>2. view[cur] = "filled"
    BY <1>1, <2>0 DEF IInv, Course
  <2>3. i < cur
    <3>1. at[i] # NoTime
      BY <1>1, <2>1 DEF IInv, Timed
    <3>2. ~(cur < i)
      BY <1>1, <2>0, <2>1, <3>1 DEF InSubmitOrder
    <3>3. i # cur
      BY <2>1
    <3> QED
      BY <2>0, <3>2, <3>3
  <2>4. view[i] # "absent"
    BY <1>1, <2>0, <2>1, <2>2 DEF IInv, Waited
  <2>5. view[i] \notin {"failed", "unknown", "settling"}
    <3>1. ~earlierInDoubt(at[cur])
      BY <1>1, <2>0, <2>2 DEF IInv, Waited
    <3> QED
      BY <2>1, <3>1 DEF earlierInDoubt, InDoubt
  <2>6. view[i] \notin {"unread", "filled", "canceled"}
    BY <1>1, <2>0, <2>1 DEF IInv, Seen, Terminal
  <2>7. view[i] # "rejected"
    BY <1>1, <2>0, <2>1, <2>3 DEF IInv, Waited, Ongoing
  <2> QED
    BY <2>0, <2>1, <2>4, <2>5, <2>6, <2>7 DEF Enums, Views, AckedOrders, Terminal
<1>2. IInv => [ResetStreak /\ faults = 0 /\ InSubmitOrder
                 => \A i \in Intents : OlderRejection(i) => i \in streak]_vars
  BY <1>1
<1> QED
  BY <1>2, Invariance, PTL DEF OrderedResets
=============================================================================
