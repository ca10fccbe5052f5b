--------------------------- MODULE VerdictGateProofs ---------------------------
(***************************************************************************)
(* That neither the gate's overall cap nor its records are overtaken, for   *)
(* any pull requests, contents, answers, rules and limits.  An escalation   *)
(* holds because a leg that reads it has no outcome (HaltedIsMute); a       *)
(* record sticks because a leg that finds one repeats it or has a review    *)
(* (RepeatsRecord); and the runs that may still publish a refusal, with the *)
(* refusals published, are no more than the cap and one run for each pull   *)
(* request (VotersBounded), since the set of them only grows below the cap. *)
(* And that a green check was earned: a leg's approval that counts cites    *)
(* what the commit brings, and a commit has an approval, or is about to     *)
(* have one, only of legs that vouched for it (GreenInv).  And that a pull  *)
(* request's own cap holds as long as no forced push gives it back a commit *)
(* that an earlier one took: a record is made only where there is room for  *)
(* one more before it (StreakInv), in every prefix of the branch, so that a *)
(* forced push that drops commits leads to no branch that is over it.       *)
(***************************************************************************)
EXTENDS VerdictGate, FiniteSetTheorems, TLAPS

\* What a run that was requested under an escalation has reached.
HaltedIsMute ==
  \A p \in halted :
    /\ Escalated /\ run[p].at \in {"queued", "legs"}
    /\ run[p].at = "legs" => \A l \in DOMAIN run[p].legs : run[p].legs[l] \in {"pending", "skipped"}

\* A record that is not judged anew.
Settled(record) ==
  record.outcome # "none" /\ (record.outcome # "indeterminate" \/ ~record.reviewed)

\* What the legs, and then the run, make of a commit that has such a record.
RepeatsRecord ==
  \A p \in PRs :
    LET record == commit[p][run[p].sha]
    IN Settled(record) =>
         /\ run[p].at = "legs" => \A l \in DOMAIN run[p].legs :
                                    run[p].legs[l] \in {"pending", "skipped", record.outcome}
         /\ run[p].at = "publish" => run[p].outcome \in {record.outcome, "indeterminate"}

\* The runs that no clear has come after and that may yet publish.
Voters ==
  {p \in PRs : /\ ~run[p].stale
               /\ \/ run[p].at = "publish"
                  \/ /\ run[p].at = "legs"
                     /\ \E l \in DOMAIN run[p].legs : run[p].legs[l] \in Outcomes}

VotersBounded ==
  /\ refused <= count
  /\ refused + Cardinality(Voters) <= GlobalNonApproveLimit + Cardinality(PRs)

IInv == TypeOK /\ HaltedIsMute /\ RepeatsRecord /\ VotersBounded

-----------------------------------------------------------------------------
\* Whatever a leg is asked and answers, its judgement is an outcome.
LEMMA JudgementType ==
  ASSUME NEW v, NEW content PROVE Judgement(v, content) \in Outcomes
BY DEF Judgement, Valid, Outcomes

\* What a leg outputs: an outcome or nothing, nothing under the cap, and the recorded
\* outcome or nothing unless an indeterminate one was reviewed.
LEMMA LegOutcomeFacts ==
  ASSUME NEW h, NEW lim, NEW j \in Outcomes,
         h.shaOutcomeRecorded => h.existingSHAOutcome \in Outcomes
  PROVE  /\ LegOutcome(h, lim, j) \in Outcomes \cup {"skipped"}
         /\ h.globalNonApproveCount > lim.globalNonApprove /\ ~h.globalIntervention
              => LegOutcome(h, lim, j) = "skipped"
         /\ h.shaOutcomeRecorded /\ (h.existingSHAOutcome # "indeterminate" \/ ~h.prIntervention)
              => LegOutcome(h, lim, j) \in {h.existingSHAOutcome, "skipped"}
BY DEF LegOutcome, ShouldProduceVerdict

\* What the legs' outcomes add up to.
LEMMA CombineFacts ==
  ASSUME NEW S \in SUBSET (Outcomes \cup {"skipped"})
  PROVE  /\ Combine(S) \in Outcomes \cup {"skipped"}
         /\ S \subseteq {"skipped"} <=> Combine(S) = "skipped"
         /\ \A o \in Outcomes : S \subseteq {o, "skipped"} => Combine(S) \in {o, "skipped", "indeterminate"}
BY DEF Combine, CombineLegOutcomes, Outcomes
-----------------------------------------------------------------------------
LegStates == UNION {[L -> Outcomes \cup {"pending", "skipped"}] : L \in SUBSET Legs}

LEMMA IdleFacts == Idle \in Runs /\ Idle.at = "idle" /\ ~Idle.stale /\ NoLegs \in LegStates
<1>1. NoLegs \in [{} -> Outcomes \cup {"pending", "skipped"}]
  BY DEF NoLegs
<1>2. NoLegs \in LegStates
  BY <1>1 DEF LegStates
<1>3. Runs = [at : {"idle", "queued", "legs", "publish", "merge"}, sha : Nat,
              legs : LegStates, outcome : Outcomes \cup {"none"}, stale : BOOLEAN]
  BY DEF Runs, LegStates
<1> QED
  BY <1>2, <1>3 DEF Idle

LEMMA InitIInv == Init => IInv
<1> SUFFICES ASSUME Init PROVE IInv
  OBVIOUS
<1>1. Idle \in Runs
  BY IdleFacts
<1>2. \A p \in PRs : commit[p] \in Seq(Commits) /\ Len(commit[p]) = 1
  BY DEF Init, Fresh, Commits
<1>3. TypeOK
  <2>1. commit \in [PRs -> Seq(Commits)]
    BY <1>2 DEF Init
  <2>2. vouched \in [PRs -> Seq(SUBSET Legs)] /\ branch \in [PRs -> Seq(Nat)]
    BY DEF Init
  <2>3. run \in [PRs -> Runs]
    BY <1>1 DEF Init
  <2>4. \A p \in PRs : run[p].at = "idle"
    BY DEF Init, Idle
  <2>5. Lines
    <3>1. line = [p \in PRs |-> << <<1>> >>] /\ restored = {}
      BY DEF Init
    <3>2. << <<1>> >> \in Seq(Seq(Nat)) /\ Len(<< <<1>> >>) = 1
      OBVIOUS
    <3>3. \A p \in PRs : /\ Len(line[p]) = 1
                          /\ \A c \in DOMAIN line[p] : line[p][c] = <<1>>
      BY <3>1
    <3>4. \A p \in PRs : 1 \in DOMAIN commit[p]
      BY <1>2
    <3>5. <<1>> # <<>> /\ \A i \in DOMAIN <<1>> : <<1>>[i] = 1
      OBVIOUS
    <3> QED
      BY <1>2, <3>1, <3>2, <3>3, <3>4, <3>5 DEF Lines
  <2> QED
    BY <1>2, <2>1, <2>2, <2>3, <2>4, <2>5 DEF Init, TypeOK, Shape, Linked
<1>4. HaltedIsMute
  BY DEF Init, HaltedIsMute
<1>5. RepeatsRecord
  <2>1. \A p \in PRs : run[p].at = "idle"
    BY DEF Init, Idle
  <2> QED
    BY <2>1 DEF RepeatsRecord
<1>6. VotersBounded
  <2>1. Voters = {}
    BY DEF Init, Idle, Voters
  <2>2. Cardinality(Voters) = 0 /\ Cardinality(PRs) \in Nat
    BY <2>1, VerdictGateAssumption, FS_EmptySet, FS_CardinalityType
  <2> QED
    BY <2>2, VerdictGateAssumption DEF Init, VotersBounded
<1> QED
  BY <1>3, <1>4, <1>5, <1>6 DEF IInv

\* An ended run is idle, and its failure counts unless a clear came after it.
LEMMA EndsFacts ==
  ASSUME TypeOK, NEW p \in PRs, NEW conclusion, Ends(p, conclusion)
  PROVE  /\ run' \in [PRs -> Runs] /\ run'[p].at = "idle" /\ ~run'[p].stale
         /\ \A q \in PRs \ {p} : run'[q] = run[q]
         /\ count' \in Nat /\ count' >= count /\ halted' = halted \ {p}
         /\ conclusion = "failure" /\ ~run[p].stale => count' = count + 1
<1>1. Idle \in Runs /\ Idle.at = "idle" /\ ~Idle.stale
  BY IdleFacts
<1> QED
  BY <1>1 DEF Ends, TypeOK, Shape, Linked

\* What a run resolves to is a run with pending legs.
LEMMA ResolveFacts ==
  ASSUME TypeOK, NEW p \in PRs, Resolve(p)
  PROVE  \/ \E conclusion : Ends(p, conclusion)
         \/ /\ run' = [run EXCEPT ![p] = run'[p]] /\ run'[p] \in Runs
            /\ run'[p].at = "legs" /\ run'[p].sha = HeadOf(p) /\ run'[p].stale = run[p].stale
            /\ \A l \in DOMAIN run'[p].legs : run'[p].legs[l] = "pending"
            /\ UNCHANGED <<count, halted>>
<1>1. CASE ~Eligible(meta[p])
  BY <1>1 DEF Resolve
<1>2. CASE Eligible(meta[p])
  <2> DEFINE L == Needed(commit[p][HeadOf(p)].content)
             legs == [l \in L |-> "pending"]
  <2>1. L \in SUBSET Legs
    BY DEF Needed, Legs
  <2>2. legs \in UNION {[K -> Outcomes \cup {"pending", "skipped"}] : K \in SUBSET Legs}
    BY <2>1
  <2>3. HeadOf(p) \in Nat
    BY DEF HeadOf, TypeOK, Shape, Linked
  <2>4. run' = [run EXCEPT ![p] = [@ EXCEPT !.at = "legs", !.sha = HeadOf(p), !.legs = legs]]
    BY <1>2 DEF Resolve, TypeOK, Shape, Linked
  <2> HIDE DEF L
  <2>5. \A l \in DOMAIN legs : legs[l] = "pending"
    OBVIOUS
  <2> HIDE DEF legs
  <2>6. run'[p] = [run[p] EXCEPT !.at = "legs", !.sha = HeadOf(p), !.legs = legs]
    BY <2>4 DEF TypeOK, Shape, Linked
  <2>7. run[p] \in Runs
    BY DEF TypeOK, Shape, Linked
  <2>8. /\ run'[p] \in Runs /\ run'[p].at = "legs" /\ run'[p].sha = HeadOf(p)
        /\ run'[p].stale = run[p].stale /\ run'[p].legs = legs
    BY <2>2, <2>3, <2>6, <2>7 DEF Runs
  <2>9. run' = [run EXCEPT ![p] = run'[p]]
    BY <2>4, <2>6 DEF TypeOK, Shape, Linked
  <2> QED
    BY <1>2, <2>5, <2>8, <2>9 DEF Resolve
<1> QED
  BY <1>1, <1>2

\* What a leg's outcome is, and that nothing else of the run changes.
LEMMA LegFacts ==
  ASSUME TypeOK, NEW p \in PRs, NEW l \in Legs, Leg(p, l)
  PROVE  LET record == commit[p][run[p].sha]
         IN /\ run[p].at = "legs" /\ l \in DOMAIN run[p].legs
            /\ run' = [run EXCEPT ![p] = run'[p]] /\ run'[p] \in Runs
            /\ run'[p].at = "legs" /\ run'[p].sha = run[p].sha /\ run'[p].stale = run[p].stale
            /\ run'[p].outcome = run[p].outcome /\ DOMAIN run'[p].legs = DOMAIN run[p].legs
            /\ \E o \in Outcomes \cup {"skipped"} :
                 /\ \A k \in DOMAIN run[p].legs :
                      run'[p].legs[k] = IF k = l THEN o ELSE run[p].legs[k]
                 /\ Escalated => o = "skipped"
                 /\ Settled(record) => o \in {record.outcome, "skipped"}
            /\ vouched' \in [PRs -> Seq(SUBSET Legs)]
            /\ \A q \in PRs : Len(vouched'[q]) = Len(vouched[q])
<1> DEFINE c == run[p].sha
           record == commit[p][c]
           h == History(p, c)
<1>1. run[p].at = "legs" /\ l \in DOMAIN run[p].legs /\ c \in DOMAIN commit[p]
  BY DEF Leg, TypeOK, Shape, Linked
<1>2. record \in Commits
  BY <1>1 DEF TypeOK, Shape, Linked
<1>3. /\ h.shaOutcomeRecorded = (record.outcome # "none")
      /\ h.existingSHAOutcome = record.outcome
      /\ h.shaOutcomeRecorded => h.prIntervention = record.reviewed
      /\ h.globalNonApproveCount = count /\ h.globalIntervention = FALSE
  BY DEF History
<1>4. h.shaOutcomeRecorded => h.existingSHAOutcome \in Outcomes
  BY <1>2, <1>3 DEF Commits
<1>5. PICK v \in Verdicts :
        /\ run' = [run EXCEPT ![p].legs[l] = LegOutcome(h, limits, Judgement(v, record.content))]
        /\ vouched' = IF ShouldProduceVerdict(h, limits).produce /\ Sound(v, record.content)
                      THEN [vouched EXCEPT ![p][c] = @ \cup {l}] ELSE vouched
  BY DEF Leg
<1> DEFINE o == LegOutcome(h, limits, Judgement(v, record.content))
<1>6. limits.globalNonApprove = GlobalNonApproveLimit
  BY DEF limits
<1> HIDE DEF h
<1>7. Judgement(v, record.content) \in Outcomes
  BY JudgementType
<1>8. /\ o \in Outcomes \cup {"skipped"}
      /\ Escalated => o = "skipped"
      /\ h.shaOutcomeRecorded /\ (h.existingSHAOutcome # "indeterminate" \/ ~h.prIntervention)
           => o \in {h.existingSHAOutcome, "skipped"}
  BY <1>3, <1>4, <1>6, <1>7, LegOutcomeFacts DEF Escalated
<1>9. Settled(record) => o \in {record.outcome, "skipped"}
  BY <1>3, <1>8 DEF Settled
<1>10. run' = [run EXCEPT ![p] = [run[p] EXCEPT !.legs = [run[p].legs EXCEPT ![l] = o]]]
  <2>1. run' = [run EXCEPT ![p].legs[l] = o]
    BY <1>5
  <2> HIDE DEF o
  <2> QED
    BY <2>1, Zenon
<1>11. run[p] \in Runs
  BY DEF TypeOK, Shape
<1> HIDE DEF o
<1>12. run'[p] = [run[p] EXCEPT !.legs = [run[p].legs EXCEPT ![l] = o]]
  BY <1>10 DEF TypeOK, Shape
<1>13. /\ run'[p] \in Runs /\ run'[p].at = run[p].at /\ run'[p].sha = run[p].sha
       /\ run'[p].stale = run[p].stale /\ run'[p].outcome = run[p].outcome
       /\ DOMAIN run'[p].legs = DOMAIN run[p].legs
       /\ \A k \in DOMAIN run[p].legs : run'[p].legs[k] = IF k = l THEN o ELSE run[p].legs[k]
  <2> DEFINE r == run[p]
             legs == [r.legs EXCEPT ![l] = o]
  <2>1. o \in Outcomes \cup {"skipped"}
    BY <1>8
  <2>2. PICK L \in SUBSET Legs : r.legs \in [L -> Outcomes \cup {"pending", "skipped"}]
    BY <1>11 DEF Runs
  <2>3. legs \in [L -> Outcomes \cup {"pending", "skipped"}]
    BY <2>1, <2>2
  <2>4. legs \in LegStates
    BY <2>3 DEF LegStates
  <2>5. /\ DOMAIN legs = DOMAIN r.legs
        /\ \A k \in DOMAIN r.legs : legs[k] = IF k = l THEN o ELSE r.legs[k]
    OBVIOUS
  <2>6. run'[p] = [r EXCEPT !.legs = legs]
    BY <1>12
  <2>7. Runs = [at : {"idle", "queued", "legs", "publish", "merge"}, sha : Nat,
                legs : LegStates, outcome : Outcomes \cup {"none"}, stale : BOOLEAN]
    BY DEF Runs, LegStates
  <2> HIDE DEF legs
  <2>8. /\ run'[p] \in Runs /\ run'[p].at = r.at /\ run'[p].sha = r.sha
        /\ run'[p].stale = r.stale /\ run'[p].outcome = r.outcome /\ run'[p].legs = legs
    BY <1>11, <2>4, <2>6, <2>7
  <2> QED
    BY <2>5, <2>8
<1>14. run' = [run EXCEPT ![p] = run'[p]]
  BY <1>10, <1>12, Zenon
<1>15. vouched' \in [PRs -> Seq(SUBSET Legs)] /\ \A q \in PRs : Len(vouched'[q]) = Len(vouched[q])
  <2>1. CASE vouched' = vouched
    BY <2>1 DEF TypeOK, Shape
  <2>2. CASE vouched' = [vouched EXCEPT ![p][c] = @ \cup {l}]
    <3> DEFINE seq == [vouched[p] EXCEPT ![c] = vouched[p][c] \cup {l}]
    <3>1. vouched \in [PRs -> Seq(SUBSET Legs)] /\ c \in DOMAIN vouched[p]
      BY <1>1 DEF TypeOK, Shape, Linked
    <3>2. vouched[p] \in Seq(SUBSET Legs) /\ vouched[p][c] \cup {l} \in SUBSET Legs
      BY <3>1
    <3>3. seq \in Seq(SUBSET Legs) /\ Len(seq) = Len(vouched[p])
      BY <3>1, <3>2
    <3>4. vouched' = [vouched EXCEPT ![p] = seq]
      BY <2>2
    <3> HIDE DEF seq
    <3> QED
      BY <3>1, <3>3, <3>4
  <2> QED
    BY <1>5, <2>1, <2>2
<1> QED
  BY <1>1, <1>8, <1>9, <1>13, <1>14, <1>15

\* finalize ends the run or has it publish an outcome for its head.
LEMMA FinalizeFacts ==
  ASSUME TypeOK, NEW p \in PRs, Finalize(p)
  PROVE  LET S == {run[p].legs[l] : l \in DOMAIN run[p].legs}
         IN /\ run[p].at = "legs" /\ S \in SUBSET (Outcomes \cup {"skipped"})
            /\ \/ \E conclusion : Ends(p, conclusion)
               \/ /\ Combine(S) \in Outcomes
                  /\ run' = [run EXCEPT ![p] = run'[p]] /\ run'[p] \in Runs
                  /\ run'[p].at = "publish" /\ run'[p].sha = run[p].sha
                  /\ run'[p].stale = run[p].stale /\ run'[p].outcome = Combine(S)
                  /\ UNCHANGED <<count, halted>>
<1> DEFINE S == {run[p].legs[l] : l \in DOMAIN run[p].legs}
<1>1. run[p].at = "legs" /\ \A l \in DOMAIN run[p].legs : run[p].legs[l] # "pending"
  BY Zenon DEF Finalize
<1>2. run[p] \in Runs
  BY DEF TypeOK, Shape, Linked
<1>3. PICK L \in SUBSET Legs : run[p].legs \in [L -> Outcomes \cup {"pending", "skipped"}]
  BY <1>2 DEF Runs
<1>4. S \in SUBSET (Outcomes \cup {"skipped"})
  BY <1>1, <1>3
<1>5. Combine(S) \in Outcomes \cup {"skipped"}
  BY <1>4, CombineFacts
<1>6. CASE Combine(S) = "skipped" \/ run[p].sha # HeadOf(p)
  <2>1. Ends(p, "success") \/ Ends(p, "failure")
    BY <1>6, Zenon DEF Finalize
  <2> HIDE DEF S
  <2> QED
    BY <1>1, <1>4, <2>1 DEF S
<1>7. CASE Combine(S) # "skipped" /\ run[p].sha = HeadOf(p)
  <2>1. /\ run' = [run EXCEPT ![p] = [@ EXCEPT !.at = "publish", !.outcome = Combine(S), !.legs = NoLegs]]
        /\ UNCHANGED <<count, halted>>
    <3>1. /\ run' = [run EXCEPT ![p].at = "publish", ![p].outcome = Combine(S), ![p].legs = NoLegs]
          /\ UNCHANGED <<count, halted>>
      BY <1>7, Zenon DEF Finalize
    <3> HIDE DEF S
    <3> QED
      BY <3>1 DEF TypeOK, Shape
  <2> HIDE DEF S
  <2>2. run'[p] = [run[p] EXCEPT !.at = "publish", !.outcome = Combine(S), !.legs = NoLegs]
    BY <2>1 DEF TypeOK, Shape, Linked
  <2>3. Combine(S) \in Outcomes
    BY <1>5, <1>7
  <2>4. Runs = [at : {"idle", "queued", "legs", "publish", "merge"}, sha : Nat,
                legs : LegStates, outcome : Outcomes \cup {"none"}, stale : BOOLEAN]
    BY DEF Runs, LegStates
  <2>5. /\ run'[p] \in Runs /\ run'[p].at = "publish" /\ run'[p].sha = run[p].sha
        /\ run'[p].stale = run[p].stale /\ run'[p].outcome = Combine(S)
    BY <1>2, <2>2, <2>3, <2>4, IdleFacts
  <2>6. run' = [run EXCEPT ![p] = run'[p]]
    BY <2>1, <2>2 DEF TypeOK, Shape, Linked
  <2> QED
    BY <1>1, <1>4, <2>1, <2>3, <2>5, <2>6 DEF S
<1> QED
  BY <1>6, <1>7

\* Publishing makes a record of the run's outcome, and keeps every other commit.
LEMMA PublishFacts ==
  ASSUME TypeOK, NEW p \in PRs, Publish(p)
  PROVE  LET c == run[p].sha
         IN /\ run[p].at = "publish" /\ c \in DOMAIN commit[p]
            /\ commit' \in [PRs -> Seq(Commits)]
            /\ \A q \in PRs : Len(commit'[q]) = Len(commit[q])
            /\ commit'[p][c].outcome = run[p].outcome /\ ~commit'[p][c].reviewed
            /\ \A q \in PRs : \A d \in DOMAIN commit[q] :
                 q # p \/ d # c => commit'[q][d] = commit[q][d]
            /\ \/ /\ run' = [run EXCEPT ![p] = run'[p]] /\ run'[p] \in Runs
                  /\ run'[p].at = "merge" /\ run'[p].sha = c /\ run'[p].stale = run[p].stale
                  /\ UNCHANGED <<count, refused, halted>>
               \/ /\ Ends(p, "failure")
                  /\ refused' = IF run[p].stale THEN refused ELSE refused + 1
<1> DEFINE c == run[p].sha
           record == commit[p][c]
           new == [record EXCEPT !.outcome = run[p].outcome, !.reviewed = FALSE,
                                 !.required = Checked(run[p].outcome, record.required)]
<1>1. run[p].at = "publish" /\ c \in DOMAIN commit[p] /\ run[p].outcome \in Outcomes
  BY DEF Publish, TypeOK, Shape, Linked
<1>2. record \in Commits
  BY <1>1 DEF TypeOK, Shape, Linked
<1>3. Checked(run[p].outcome, record.required) \in {"unset", "success", "failure"}
  BY <1>2 DEF Checked, Commits
<1>4. new \in Commits /\ new.outcome = run[p].outcome /\ ~new.reviewed
  BY <1>1, <1>2, <1>3 DEF Commits
<1>5. commit' = [commit EXCEPT ![p] = [commit[p] EXCEPT ![c] = new]]
  BY DEF Publish
<1> HIDE DEF new
<1>6. /\ [commit[p] EXCEPT ![c] = new] \in Seq(Commits)
      /\ Len([commit[p] EXCEPT ![c] = new]) = Len(commit[p])
  BY <1>1, <1>4 DEF TypeOK, Shape, Linked
<1>7. commit' \in [PRs -> Seq(Commits)] /\ \A q \in PRs : Len(commit'[q]) = Len(commit[q])
  BY <1>5, <1>6 DEF TypeOK, Shape, Linked
<1>8. commit'[p] = [commit[p] EXCEPT ![c] = new] /\ \A q \in PRs \ {p} : commit'[q] = commit[q]
  BY <1>5 DEF TypeOK, Shape, Linked
<1>9. commit'[p][c] = new /\ \A d \in DOMAIN commit[p] \ {c} : commit'[p][d] = commit[p][d]
  BY <1>1, <1>8 DEF TypeOK, Shape, Linked
<1>10. CASE run[p].outcome = "approve"
  <2>1. run' = [run EXCEPT ![p] = [run[p] EXCEPT !.at = "merge", !.outcome = "none"]]
    BY <1>10 DEF Publish, TypeOK, Shape, Linked
  <2>2. run'[p] = [run[p] EXCEPT !.at = "merge", !.outcome = "none"] /\ run[p] \in Runs
    BY <2>1 DEF TypeOK, Shape, Linked
  <2>3. /\ run'[p] \in Runs /\ run'[p].at = "merge" /\ run'[p].sha = c
        /\ run'[p].stale = run[p].stale
    BY <2>2 DEF Runs
  <2>4. run' = [run EXCEPT ![p] = run'[p]] /\ UNCHANGED <<count, refused, halted>>
    BY <1>10, <2>1, <2>2 DEF Publish, TypeOK, Shape, Linked
  <2> QED
    BY <1>1, <1>4, <1>7, <1>8, <1>9, <2>3, <2>4
<1>11. CASE run[p].outcome # "approve"
  <2>1. Ends(p, "failure") /\ refused' = IF run[p].stale THEN refused ELSE refused + 1
    BY <1>11 DEF Publish
  <2> QED
    BY <1>1, <1>4, <1>7, <1>8, <1>9, <2>1
<1> QED
  BY <1>10, <1>11

\* A clear leaves every run where it is and overtakes those under way.
LEMMA ClearFacts ==
  ASSUME TypeOK, Clear
  PROVE  /\ run' \in [PRs -> Runs] /\ count' = 0 /\ refused' = 0 /\ halted' = {}
         /\ \A p \in PRs :
              /\ run'[p].at = run[p].at /\ run'[p].sha = run[p].sha
              /\ run'[p].legs = run[p].legs /\ run'[p].outcome = run[p].outcome
              /\ run[p].at # "idle" => run'[p].stale
<1> DEFINE new(p) == [run[p] EXCEPT !.stale = TRUE]
<1>1. \A p \in PRs : run[p] \in Runs
  BY DEF TypeOK, Shape, Linked
<1>2. \A p \in PRs : /\ new(p) \in Runs /\ new(p).at = run[p].at /\ new(p).sha = run[p].sha
                     /\ new(p).legs = run[p].legs /\ new(p).outcome = run[p].outcome
                     /\ new(p).stale
  BY <1>1 DEF Runs
<1>3. run' = [p \in PRs |-> IF run[p].at = "idle" THEN run[p] ELSE new(p)]
  BY DEF Clear
<1>4. count' = 0 /\ refused' = 0 /\ halted' = {}
  BY DEF Clear
<1> HIDE DEF new
<1>5. run' \in [PRs -> Runs]
  BY <1>1, <1>2, <1>3
<1>6. \A p \in PRs : run'[p] = IF run[p].at = "idle" THEN run[p] ELSE new(p)
  BY <1>3
<1> QED
  BY <1>2, <1>4, <1>5, <1>6

\* A request queues an idle run.
LEMMA RequestFacts ==
  ASSUME TypeOK, NEW p \in PRs, Request(p)
  PROVE  /\ run[p].at = "idle" /\ run' = [run EXCEPT ![p] = run'[p]] /\ run'[p] \in Runs
         /\ run'[p].at = "queued"
         /\ halted' = IF Escalated THEN halted \cup {p} ELSE halted
<1>1. run[p] \in Runs
  BY DEF TypeOK, Shape, Linked
<1>2. run' = [run EXCEPT ![p] = [run[p] EXCEPT !.at = "queued"]]
  BY DEF Request, TypeOK, Shape, Linked
<1>3. run'[p] = [run[p] EXCEPT !.at = "queued"]
  BY <1>2 DEF TypeOK, Shape, Linked
<1> QED
  BY <1>1, <1>2, <1>3 DEF Runs, Request

\* The first commits of a branch.
LEMMA Prefix ==
  ASSUME NEW shas \in Seq(Nat), NEW n \in 0 .. Len(shas)
  PROVE  /\ SubSeq(shas, 1, n) \in Seq(Nat) /\ Len(SubSeq(shas, 1, n)) = n
         /\ \A i \in 1 .. n : i \in DOMAIN shas /\ SubSeq(shas, 1, n)[i] = shas[i]
OBVIOUS

\* A push adds a commit, and a review touches no outcome.
LEMMA PushFacts ==
  ASSUME TypeOK, NEW p \in PRs, Push(p)
  PROVE  /\ commit' \in [PRs -> Seq(Commits)] /\ vouched' \in [PRs -> Seq(SUBSET Legs)]
         /\ branch' \in [PRs -> Seq(Nat)]
         /\ \A q \in PRs :
              /\ DOMAIN commit[q] \subseteq DOMAIN commit'[q]
              /\ \A d \in DOMAIN commit[q] : commit'[q][d] = commit[q][d]
              /\ Len(vouched'[q]) = Len(commit'[q]) /\ branch'[q] # <<>>
              /\ \A i \in DOMAIN branch'[q] : branch'[q][i] \in DOMAIN commit'[q]
<1>1. PICK c \in Contents[p], n \in 0 .. Len(branch[p]) :
        /\ commit' = [commit EXCEPT ![p] = Append(@, Fresh(c))]
        /\ branch' = [branch EXCEPT ![p] = Append(SubSeq(@, 1, n), Len(commit[p]) + 1)]
  BY DEF Push
<1> DEFINE kept == SubSeq(branch[p], 1, n)
<1>0. /\ kept \in Seq(Nat) /\ Len(kept) = n
      /\ \A i \in 1 .. n : i \in DOMAIN branch[p] /\ kept[i] = branch[p][i]
  <2>1. branch[p] \in Seq(Nat)
    BY DEF TypeOK, Shape
  <2> QED
    BY <2>1, Prefix
<1>12. branch' = [branch EXCEPT ![p] = Append(kept, Len(commit[p]) + 1)]
  BY <1>1
<1> HIDE DEF kept
<1>2. Fresh(c) \in Commits
  BY DEF Fresh, Commits
<1>3. vouched' = [vouched EXCEPT ![p] = Append(@, {})]
  BY DEF Push
<1>4. commit' \in [PRs -> Seq(Commits)] /\ vouched' \in [PRs -> Seq(SUBSET Legs)]
  BY <1>1, <1>2, <1>3 DEF TypeOK, Shape, Linked
<1>5. branch' \in [PRs -> Seq(Nat)]
  BY <1>0, <1>12 DEF TypeOK, Shape, Linked
<1>6. \A q \in PRs \ {p} :
        commit'[q] = commit[q] /\ vouched'[q] = vouched[q] /\ branch'[q] = branch[q]
  BY <1>1, <1>3 DEF TypeOK, Shape, Linked
<1>7. /\ commit'[p] = Append(commit[p], Fresh(c)) /\ vouched'[p] = Append(vouched[p], {})
      /\ branch'[p] = Append(kept, Len(commit[p]) + 1)
  BY <1>1, <1>3, <1>12 DEF TypeOK, Shape, Linked
<1> HIDE DEF Fresh
<1>8. /\ Len(commit'[p]) = Len(commit[p]) + 1 /\ Len(vouched'[p]) = Len(vouched[p]) + 1
      /\ \A d \in DOMAIN commit[p] : commit'[p][d] = commit[p][d]
      /\ DOMAIN commit'[p] = 1 .. Len(commit[p]) + 1 /\ DOMAIN commit[p] = 1 .. Len(commit[p])
  BY <1>2, <1>7 DEF TypeOK, Shape, Linked
<1>9. branch'[p] # <<>> /\ \A i \in DOMAIN branch'[p] : branch'[p][i] \in DOMAIN commit'[p]
  <2>1. branch[p] \in Seq(Nat) /\ \A i \in DOMAIN branch[p] : branch[p][i] \in DOMAIN commit[p]
    BY DEF TypeOK, Shape, Linked
  <2>2. /\ DOMAIN branch'[p] = 1 .. n + 1
        /\ \A i \in 1 .. n : branch'[p][i] = kept[i]
        /\ branch'[p][n + 1] = Len(commit[p]) + 1
    BY <1>0, <1>7
  <2>3. commit[p] \in Seq(Commits)
    BY DEF TypeOK, Shape
  <2>4. n \in Nat /\ Len(commit[p]) \in Nat
    BY <2>1, <2>3
  <2>5. ASSUME NEW i \in DOMAIN branch'[p] PROVE branch'[p][i] \in DOMAIN commit'[p]
    <3>1. i \in 1 .. n \/ i = n + 1
      BY <2>2, <2>4, <2>5
    <3>2. CASE i \in 1 .. n
      <4>1. i \in DOMAIN branch[p] /\ branch'[p][i] = branch[p][i]
        BY <1>0, <2>2, <3>2
      <4>2. branch[p][i] \in 1 .. Len(commit[p])
        BY <1>8, <2>1, <4>1
      <4> QED
        BY <1>8, <2>4, <4>1, <4>2
    <3>3. CASE i = n + 1
      BY <1>8, <2>2, <2>4, <3>3
    <3> QED
      BY <3>1, <3>2, <3>3
  <2>6. 1 \in DOMAIN branch'[p]
    BY <2>2, <2>4
  <2> QED
    BY <2>5, <2>6
<1>10. \A q \in PRs : Linked(commit[q], vouched[q], branch[q], run[q])
  BY DEF TypeOK
<1>11. ASSUME NEW q \in PRs
       PROVE  /\ DOMAIN commit[q] \subseteq DOMAIN commit'[q]
              /\ \A d \in DOMAIN commit[q] : commit'[q][d] = commit[q][d]
              /\ Len(vouched'[q]) = Len(commit'[q]) /\ branch'[q] # <<>>
              /\ \A i \in DOMAIN branch'[q] : branch'[q][i] \in DOMAIN commit'[q]
  <2>1. CASE q = p
    <3>1. Len(vouched'[p]) = Len(commit'[p])
      BY <1>8, <1>10 DEF Linked
    <3>2. Len(commit[p]) \in Nat
      BY DEF TypeOK, Shape
    <3> QED
      BY <1>8, <1>9, <2>1, <3>1, <3>2
  <2>2. CASE q # p
    BY <1>6, <1>10, <2>2 DEF Linked
  <2> QED
    BY <2>1, <2>2
<1> QED
  BY <1>4, <1>5, <1>11

LEMMA ReviewFacts ==
  ASSUME TypeOK, NEW p \in PRs, Review(p)
  PROVE  /\ commit' \in [PRs -> Seq(Commits)]
         /\ \A q \in PRs :
              /\ Len(commit'[q]) = Len(commit[q])
              /\ \A d \in DOMAIN commit[q] :
                   /\ commit'[q][d].outcome = commit[q][d].outcome
                   /\ commit'[q][d].required = commit[q][d].required
                   /\ ~commit'[q][d].reviewed => ~commit[q][d].reviewed \/ commit[q][d].outcome = "none"
<1> DEFINE new(i) == [commit[p][i] EXCEPT !.reviewed = (commit[p][i].outcome # "none")]
           seq == [i \in DOMAIN commit[p] |-> new(i)]
<1>1. \A i \in DOMAIN commit[p] : commit[p][i] \in Commits
  BY DEF TypeOK, Shape, Linked
<1>2. \A i \in DOMAIN commit[p] :
        /\ new(i) \in Commits /\ new(i).outcome = commit[p][i].outcome
        /\ new(i).required = commit[p][i].required
        /\ ~new(i).reviewed => commit[p][i].outcome = "none"
  BY <1>1 DEF Commits
<1>3. commit' = [commit EXCEPT ![p] = seq]
  BY DEF Review
<1> HIDE DEF new
<1>4. seq \in Seq(Commits) /\ Len(seq) = Len(commit[p])
  <2>1. commit[p] \in Seq(Commits)
    BY DEF TypeOK, Shape
  <2>2. Len(commit[p]) \in Nat /\ DOMAIN commit[p] = 1 .. Len(commit[p])
    BY <2>1
  <2>3. seq \in [1 .. Len(commit[p]) -> Commits]
    BY <1>2, <2>2
  <2> HIDE DEF seq
  <2> QED
    BY <2>2, <2>3
<1>5. commit' \in [PRs -> Seq(Commits)] /\ commit'[p] = seq
      /\ \A q \in PRs \ {p} : commit'[q] = commit[q]
  BY <1>3, <1>4 DEF TypeOK, Shape, Linked
<1> QED
  BY <1>2, <1>4, <1>5

\* The part of the type that is not of the lines.
Typed == Shape /\ \A p \in PRs : Linked(commit[p], vouched[p], branch[p], run[p])

\* Every commit's line is a branch.
LEMMA LineFacts ==
  ASSUME TypeOK, NEW p \in PRs, NEW c \in DOMAIN commit[p]
  PROVE  /\ line[p][c] \in Seq(Nat) /\ line[p][c] # <<>>
         /\ \A i \in DOMAIN line[p][c] : line[p][c][i] \in DOMAIN commit[p]
<1>1. /\ commit[p] \in Seq(Commits) /\ line[p] \in Seq(Seq(Nat))
      /\ Len(line[p]) = Len(commit[p])
  BY DEF TypeOK, Shape, Lines
<1>2. c \in DOMAIN line[p]
  BY <1>1
<1>3. line[p][c] \in Seq(Nat)
  BY <1>1, <1>2
<1> QED
  BY <1>2, <1>3 DEF TypeOK, Lines

\* What is linked depends on the one pull request alone.
LEMMA LinkedFrame ==
  ASSUME TypeOK, NEW p \in PRs, Shape',
         \A q \in PRs \ {p} : commit'[q] = commit[q] /\ vouched'[q] = vouched[q]
                              /\ branch'[q] = branch[q] /\ run'[q] = run[q],
         Linked(commit'[p], vouched'[p], branch'[p], run'[p])
  PROVE  Typed'
<1>1. \A q \in PRs : Linked(commit[q], vouched[q], branch[q], run[q])
  BY DEF TypeOK
<1>2. ASSUME NEW q \in PRs PROVE Linked(commit'[q], vouched'[q], branch'[q], run'[q])
  <2>1. CASE q = p
    BY <2>1
  <2>2. CASE q # p
    BY <1>1, <2>2
  <2> QED
    BY <2>1, <2>2
<1> QED
  BY <1>2 DEF Typed

LEMMA StepTyped == TypeOK /\ Next => Typed'
<1> SUFFICES ASSUME TypeOK, Next PROVE Typed'
  OBVIOUS
<1>0. Shape /\ \A p \in PRs : Linked(commit[p], vouched[p], branch[p], run[p])
  BY DEF TypeOK
<1>1. CASE Clear
  <2>1. UNCHANGED <<meta, commit, branch, auto, vouched>>
    BY <1>1 DEF Clear
  <2>2. used' \in [runs : Nat, reviews : Nat, clears : Nat]
    <3>1. used' = [used EXCEPT !.clears = @ + 1] /\ used \in [runs : Nat, reviews : Nat, clears : Nat]
      BY <1>0, <1>1 DEF Clear, Shape
    <3> QED
      BY <3>1
  <2>3. Shape'
    BY <1>0, <1>1, <2>1, <2>2, ClearFacts DEF Shape
  <2>4. ASSUME NEW p \in PRs PROVE Linked(commit[p], vouched[p], branch[p], run'[p])
    <3>1. run'[p].at = run[p].at /\ run'[p].sha = run[p].sha /\ run'[p].outcome = run[p].outcome
      BY <1>1, ClearFacts
    <3> QED
      BY <1>0, <3>1 DEF Linked
  <2> QED
    BY <2>1, <2>3, <2>4 DEF Typed
<1>2. ASSUME NEW p \in PRs, Push(p) PROVE Typed'
  <2>1. UNCHANGED <<meta, run, count, auto, used, refused, halted>>
    BY <1>2 DEF Push
  <2>2. Shape'
    BY <1>0, <1>2, <2>1, PushFacts DEF Shape
  <2>3. ASSUME NEW q \in PRs PROVE Linked(commit'[q], vouched'[q], branch'[q], run[q])
    BY <1>0, <1>2, PushFacts DEF Linked
  <2> QED
    BY <2>1, <2>2, <2>3 DEF Typed
<1>3. ASSUME NEW p \in PRs, Reset(p) PROVE Typed'
  <2>1. UNCHANGED <<meta, commit, run, count, auto, used, vouched, refused, halted>>
    BY <1>3 DEF Reset
  <2>2. PICK c \in DOMAIN commit[p] : branch' = [branch EXCEPT ![p] = line[p][c]]
    BY <1>3 DEF Reset
  <2> DEFINE tips == line[p][c]
  <2>3. /\ tips \in Seq(Nat) /\ tips # <<>>
        /\ \A i \in DOMAIN tips : tips[i] \in DOMAIN commit[p]
    BY LineFacts
  <2> HIDE DEF tips
  <2>4. branch' \in [PRs -> Seq(Nat)] /\ branch'[p] = tips
        /\ \A q \in PRs \ {p} : branch'[q] = branch[q]
    BY <1>0, <2>2, <2>3 DEF Shape, tips
  <2>5. Shape'
    BY <1>0, <2>1, <2>4 DEF Shape
  <2>6. Linked(commit[p], vouched[p], tips, run[p])
    BY <1>0, <2>3 DEF Linked
  <2> QED
    BY <2>1, <2>4, <2>5, <2>6, LinkedFrame
<1>4. ASSUME NEW p \in PRs, Review(p) PROVE Typed'
  <2>1. UNCHANGED <<meta, branch, run, count, auto, vouched, refused, halted>>
    BY <1>4 DEF Review
  <2>2. used' \in [runs : Nat, reviews : Nat, clears : Nat]
    <3>1. used' = [used EXCEPT !.reviews = @ + 1] /\ used \in [runs : Nat, reviews : Nat, clears : Nat]
      BY <1>0, <1>4 DEF Review, Shape
    <3> QED
      BY <3>1
  <2>3. commit' \in [PRs -> Seq(Commits)] /\ \A q \in PRs : Len(commit'[q]) = Len(commit[q])
    BY <1>4, ReviewFacts
  <2>4. \A q \in PRs : DOMAIN commit'[q] = DOMAIN commit[q]
    BY <1>0, <2>3 DEF Shape
  <2>5. Shape'
    BY <1>0, <2>1, <2>2, <2>3 DEF Shape
  <2>6. ASSUME NEW q \in PRs PROVE Linked(commit'[q], vouched[q], branch[q], run[q])
    BY <1>0, <2>3, <2>4 DEF Linked
  <2> QED
    BY <2>1, <2>5, <2>6 DEF Typed
<1>5. ASSUME NEW p \in PRs, Request(p) PROVE Typed'
  <2>1. UNCHANGED <<meta, commit, branch, count, auto, vouched, refused>>
    BY <1>5 DEF Request
  <2>2. used' \in [runs : Nat, reviews : Nat, clears : Nat]
    <3>1. used' = [used EXCEPT !.runs = @ + 1] /\ used \in [runs : Nat, reviews : Nat, clears : Nat]
      BY <1>0, <1>5 DEF Request, Shape
    <3> QED
      BY <3>1
  <2>3. /\ run' = [run EXCEPT ![p] = run'[p]] /\ run'[p] \in Runs /\ run'[p].at = "queued"
        /\ halted' = IF Escalated THEN halted \cup {p} ELSE halted
    BY <1>5, RequestFacts
  <2>4. run' \in [PRs -> Runs] /\ \A q \in PRs \ {p} : run'[q] = run[q]
    BY <1>0, <2>3 DEF Shape
  <2>5. Shape'
    BY <1>0, <2>1, <2>2, <2>3, <2>4 DEF Shape
  <2>6. Linked(commit[p], vouched[p], branch[p], run'[p])
    BY <1>0, <2>3 DEF Linked
  <2> QED
    BY <2>1, <2>4, <2>5, <2>6, LinkedFrame
<1>6. ASSUME NEW p \in PRs, NEW conclusion, Ends(p, conclusion),
             UNCHANGED <<meta, branch, used, vouched>>,
             auto' \in [PRs -> {"off", "on", "merged"}], refused' \in Nat,
             commit' \in [PRs -> Seq(Commits)],
             \A q \in PRs : DOMAIN commit'[q] = DOMAIN commit[q] /\ Len(commit'[q]) = Len(commit[q])
      PROVE  Typed'
  <2>1. /\ run' \in [PRs -> Runs] /\ run'[p].at = "idle"
        /\ \A q \in PRs \ {p} : run'[q] = run[q]
        /\ count' \in Nat /\ halted' = halted \ {p}
    BY <1>6, EndsFacts
  <2>2. Shape'
    BY <1>0, <1>6, <2>1 DEF Shape
  <2>3. ASSUME NEW q \in PRs PROVE Linked(commit'[q], vouched[q], branch[q], run'[q])
    <3>1. CASE q = p
      BY <1>0, <1>6, <2>1, <3>1 DEF Linked
    <3>2. CASE q # p
      BY <1>0, <1>6, <2>1, <3>2 DEF Linked
    <3> QED
      BY <3>1, <3>2
  <2> QED
    BY <1>6, <2>2, <2>3 DEF Typed
<1>7. ASSUME NEW p \in PRs, Resolve(p) PROVE Typed'
  <2>1. UNCHANGED <<meta, commit, line, branch, auto, used, vouched, refused, restored>>
    BY <1>7 DEF Resolve
  <2>2. CASE \E conclusion : Ends(p, conclusion)
    BY <1>0, <1>6, <2>1, <2>2 DEF Shape
  <2>3. CASE ~\E conclusion : Ends(p, conclusion)
    <3>1. /\ run' = [run EXCEPT ![p] = run'[p]] /\ run'[p] \in Runs
          /\ run'[p].at = "legs" /\ run'[p].sha = HeadOf(p) /\ UNCHANGED <<count, halted>>
      BY <1>7, <2>3, ResolveFacts
    <3>2. HeadOf(p) \in DOMAIN commit[p]
      BY <1>0 DEF HeadOf, Shape, Linked
    <3>3. run' \in [PRs -> Runs] /\ \A q \in PRs \ {p} : run'[q] = run[q]
      BY <1>0, <3>1 DEF Shape
    <3>4. Shape'
      BY <1>0, <2>1, <3>1, <3>3 DEF Shape
    <3>5. Linked(commit[p], vouched[p], branch[p], run'[p])
      BY <1>0, <3>1, <3>2 DEF Linked
    <3> QED
      BY <2>1, <3>3, <3>4, <3>5, LinkedFrame
  <2> QED
    BY <2>2, <2>3
<1>8. ASSUME NEW p \in PRs, NEW l \in Legs, Leg(p, l) PROVE Typed'
  <2>1. UNCHANGED <<meta, commit, branch, count, auto, used, refused, halted>>
    BY <1>8 DEF Leg
  <2>2. /\ run' = [run EXCEPT ![p] = run'[p]] /\ run'[p] \in Runs
        /\ run'[p].at = run[p].at /\ run'[p].sha = run[p].sha
        /\ run'[p].outcome = run[p].outcome
    BY <1>8, LegFacts
  <2>5. run' \in [PRs -> Runs] /\ \A q \in PRs \ {p} : run'[q] = run[q]
    BY <1>0, <2>2 DEF Shape
  <2>6. /\ vouched' \in [PRs -> Seq(SUBSET Legs)]
        /\ \A q \in PRs : Len(vouched'[q]) = Len(vouched[q])
    BY <1>8, LegFacts
  <2>7. Shape'
    BY <1>0, <2>1, <2>5, <2>6 DEF Shape
  <2>8. ASSUME NEW q \in PRs PROVE Linked(commit[q], vouched'[q], branch[q], run'[q])
    <3>1. CASE q = p
      BY <1>0, <2>2, <2>6, <3>1 DEF Linked
    <3>2. CASE q # p
      BY <1>0, <2>5, <2>6, <3>2 DEF Linked
    <3> QED
      BY <3>1, <3>2
  <2> QED
    BY <2>1, <2>7, <2>8 DEF Typed
<1>9. ASSUME NEW p \in PRs, Finalize(p) PROVE Typed'
  <2>1. UNCHANGED <<meta, commit, line, branch, auto, used, vouched, refused, restored>>
    BY <1>9, Zenon DEF Finalize
  <2>2. CASE \E conclusion : Ends(p, conclusion)
    BY <1>0, <1>6, <2>1, <2>2 DEF Shape
  <2>3. CASE ~\E conclusion : Ends(p, conclusion)
    <3>1. /\ run' = [run EXCEPT ![p] = run'[p]] /\ run'[p] \in Runs /\ run[p].at = "legs"
          /\ run'[p].at = "publish" /\ run'[p].sha = run[p].sha /\ UNCHANGED <<count, halted>>
          /\ run'[p].outcome \in Outcomes
      BY <1>9, <2>3, FinalizeFacts
    <3>2. run' \in [PRs -> Runs] /\ \A q \in PRs \ {p} : run'[q] = run[q]
      BY <1>0, <3>1 DEF Shape
    <3>3. Shape'
      BY <1>0, <2>1, <3>1, <3>2 DEF Shape
    <3>4. Linked(commit[p], vouched[p], branch[p], run'[p])
      BY <1>0, <3>1 DEF Linked
    <3> QED
      BY <2>1, <3>2, <3>3, <3>4, LinkedFrame
  <2> QED
    BY <2>2, <2>3
<1>10. ASSUME NEW p \in PRs, Publish(p) PROVE Typed'
  <2>1. UNCHANGED <<meta, branch, auto, used, vouched>>
    BY <1>10 DEF Publish
  <2>2. /\ commit' \in [PRs -> Seq(Commits)] /\ run[p].at = "publish"
        /\ \A q \in PRs : Len(commit'[q]) = Len(commit[q])
    BY <1>10, PublishFacts
  <2>3. \A q \in PRs : DOMAIN commit'[q] = DOMAIN commit[q]
    BY <1>0, <2>2 DEF Shape
  <2>4. CASE Ends(p, "failure") /\ refused' = IF run[p].stale THEN refused ELSE refused + 1
    <3>1. refused' \in Nat /\ auto' \in [PRs -> {"off", "on", "merged"}]
      BY <1>0, <2>1, <2>4 DEF Shape
    <3> QED
      BY <1>6, <2>1, <2>2, <2>3, <2>4, <3>1
  <2>5. CASE ~(Ends(p, "failure") /\ refused' = IF run[p].stale THEN refused ELSE refused + 1)
    <3>1. /\ run' = [run EXCEPT ![p] = run'[p]] /\ run'[p] \in Runs
          /\ run'[p].at = "merge" /\ run'[p].sha = run[p].sha
          /\ UNCHANGED <<count, refused, halted>>
      BY <1>10, <2>5, PublishFacts
    <3>2. run' \in [PRs -> Runs] /\ \A q \in PRs \ {p} : run'[q] = run[q]
      BY <1>0, <3>1 DEF Shape
    <3>3. Shape'
      BY <1>0, <2>1, <2>2, <3>1, <3>2 DEF Shape
    <3>4. ASSUME NEW q \in PRs PROVE Linked(commit'[q], vouched[q], branch[q], run'[q])
      <4>1. CASE q = p
        BY <1>0, <2>2, <2>3, <3>1, <4>1 DEF Linked
      <4>2. CASE q # p
        BY <1>0, <2>2, <2>3, <3>2, <4>2 DEF Linked
      <4> QED
        BY <4>1, <4>2
    <3> QED
      BY <2>1, <3>3, <3>4 DEF Typed
  <2> QED
    BY <2>4, <2>5
<1>11. ASSUME NEW p \in PRs, Merge(p) PROVE Typed'
  <2>1. UNCHANGED <<meta, commit, branch, used, vouched, refused>>
    BY <1>11 DEF Merge
  <2>2. auto' \in [PRs -> {"off", "on", "merged"}] /\ \E conclusion : Ends(p, conclusion)
    BY <1>0, <1>11 DEF Merge, Shape
  <2> QED
    BY <1>0, <1>6, <2>1, <2>2 DEF Shape
<1>12. ASSUME NEW p \in PRs, Fail(p) PROVE Typed'
  BY <1>0, <1>6, <1>12 DEF Fail, Shape
<1>13. ASSUME NEW p \in PRs, AutoMerge(p) PROVE Typed'
  <2>1. UNCHANGED <<meta, commit, branch, run, count, used, vouched, refused, halted>>
    BY <1>13 DEF AutoMerge
  <2>2. auto' \in [PRs -> {"off", "on", "merged"}]
    BY <1>0, <1>13 DEF AutoMerge, Shape
  <2>3. Shape'
    BY <1>0, <2>1, <2>2 DEF Shape
  <2> QED
    BY <1>0, <2>1, <2>3 DEF Typed
<1> QED
  BY <1>1, <1>2, <1>3, <1>4, <1>5, <1>7, <1>8, <1>9, <1>10, <1>11, <1>12, <1>13 DEF Next

\* A step that makes no commit leaves the lines as they are.
LEMMA LinesKept ==
  ASSUME TypeOK, line' = line, restored' \in SUBSET PRs,
         \A p \in PRs : DOMAIN commit'[p] = DOMAIN commit[p] /\ Len(commit'[p]) = Len(commit[p])
  PROVE  Lines'
BY DEF TypeOK, Lines

LEMMA StepLines == TypeOK /\ Next => Lines'
<1> SUFFICES ASSUME TypeOK, Next PROVE Lines'
  OBVIOUS
<1>0. commit \in [PRs -> Seq(Commits)] /\ restored \in SUBSET PRs
  BY DEF TypeOK, Shape, Lines
<1>1. ASSUME NEW p \in PRs, Push(p) PROVE Lines'
  <2>1. /\ line' = [line EXCEPT ![p] = Append(@, branch'[p])] /\ restored' = restored
        /\ \E c : commit' = [commit EXCEPT ![p] = Append(@, Fresh(c))]
    BY <1>1 DEF Push
  <2>2. /\ line \in [PRs -> Seq(Seq(Nat))] /\ line[p] \in Seq(Seq(Nat))
        /\ \A q \in PRs : Len(line[q]) = Len(commit[q])
        /\ \A q \in PRs : \A d \in DOMAIN line[q] :
             line[q][d] # <<>> /\ \A i \in DOMAIN line[q][d] : line[q][d][i] \in DOMAIN commit[q]
    BY DEF TypeOK, Lines
  <2>3. PICK tips \in Seq(Nat) : tips = branch'[p]
    BY <1>1, PushFacts
  <2>4. tips # <<>> /\ \A i \in DOMAIN tips : tips[i] \in DOMAIN commit'[p]
    BY <1>1, <2>3, PushFacts
  <2>5. /\ line' = [line EXCEPT ![p] = Append(line[p], tips)]
        /\ line' \in [PRs -> Seq(Seq(Nat))] /\ line'[p] = Append(line[p], tips)
        /\ \A q \in PRs \ {p} : line'[q] = line[q]
    BY <2>1, <2>2, <2>3
  <2>6. \A q \in PRs : DOMAIN commit[q] \subseteq DOMAIN commit'[q]
    BY <1>1, PushFacts
  <2>7. /\ \A q \in PRs \ {p} : commit'[q] = commit[q]
        /\ Len(commit'[p]) = Len(commit[p]) + 1
    <3>1. PICK c : commit' = [commit EXCEPT ![p] = Append(@, Fresh(c))]
      BY <2>1
    <3> HIDE DEF Fresh
    <3> QED
      BY <1>0, <3>1
  <2>8. /\ Len(line'[p]) = Len(line[p]) + 1
        /\ \A d \in DOMAIN line'[p] : \/ d \in DOMAIN line[p] /\ line'[p][d] = line[p][d]
                                     \/ line'[p][d] = tips
    BY <2>2, <2>3, <2>5
  <2>9. ASSUME NEW d \in DOMAIN line'[p]
        PROVE  line'[p][d] # <<>> /\ \A i \in DOMAIN line'[p][d] : line'[p][d][i] \in DOMAIN commit'[p]
    <3>1. CASE d \in DOMAIN line[p] /\ line'[p][d] = line[p][d]
      BY <2>2, <2>6, <3>1
    <3>2. CASE line'[p][d] = tips
      BY <2>4, <3>2
    <3> QED
      BY <2>8, <3>1, <3>2
  <2>10. ASSUME NEW q \in PRs
         PROVE  /\ Len(line'[q]) = Len(commit'[q])
                /\ \A d \in DOMAIN line'[q] :
                     line'[q][d] # <<>> /\ \A i \in DOMAIN line'[q][d] : line'[q][d][i] \in DOMAIN commit'[q]
    <3>1. CASE q = p
      BY <2>2, <2>7, <2>8, <2>9, <3>1
    <3>2. CASE q # p
      BY <2>2, <2>5, <2>7, <3>2
    <3> QED
      BY <3>1, <3>2
  <2> QED
    BY <1>0, <2>1, <2>5, <2>10 DEF Lines
<1>2. CASE UNCHANGED <<commit, line>> /\ restored' \in SUBSET PRs
  BY <1>2, LinesKept
<1>3. ASSUME NEW p \in PRs, Review(p) PROVE Lines'
  <2>1. line' = line /\ restored' = restored
    BY <1>3 DEF Review
  <2>2. commit' \in [PRs -> Seq(Commits)] /\ \A q \in PRs : Len(commit'[q]) = Len(commit[q])
    BY <1>3, ReviewFacts
  <2> QED
    BY <1>0, <2>1, <2>2, LinesKept
<1>4. ASSUME NEW p \in PRs, Publish(p) PROVE Lines'
  <2>1. line' = line /\ restored' = restored
    BY <1>4 DEF Publish
  <2>2. commit' \in [PRs -> Seq(Commits)] /\ \A q \in PRs : Len(commit'[q]) = Len(commit[q])
    BY <1>4, PublishFacts
  <2> QED
    BY <1>0, <2>1, <2>2, LinesKept
<1>5. ASSUME NEW p \in PRs, Reset(p) PROVE Lines'
  <2>1. commit' = commit /\ line' = line /\ restored' \in {restored, restored \cup {p}}
    BY <1>5 DEF Reset
  <2> QED
    BY <1>0, <1>2, <2>1
<1>6. ASSUME NEW p \in PRs, Resolve(p) \/ Finalize(p) \/ Fail(p) PROVE Lines'
  <2>1. UNCHANGED <<meta, commit, line, branch, auto, used, vouched, refused, restored>>
    BY <1>6, Zenon DEF Resolve, Finalize, Fail
  <2> QED
    BY <1>0, <1>2, <2>1
<1>7. ASSUME NEW p \in PRs, NEW l \in Legs, Leg(p, l) PROVE Lines'
  <2>1. UNCHANGED <<commit, line, restored>>
    BY <1>7 DEF Leg
  <2> QED
    BY <1>0, <1>2, <2>1
<1>8. ASSUME NEW p \in PRs, Request(p) \/ Merge(p) \/ AutoMerge(p) PROVE Lines'
  <2>1. UNCHANGED <<commit, line, restored>>
    BY <1>8 DEF Request, Merge, AutoMerge
  <2> QED
    BY <1>0, <1>2, <2>1
<1>9. CASE Clear
  BY <1>0, <1>2, <1>9 DEF Clear
<1> QED
  BY <1>1, <1>3, <1>4, <1>5, <1>6, <1>7, <1>8, <1>9 DEF Next

LEMMA StepTypeOK == TypeOK /\ Next => TypeOK'
BY StepTyped, StepLines DEF Typed, TypeOK
-----------------------------------------------------------------------------
\* A run that begins, fails or is overtaken leaves the other pull requests as they were.
LEMMA HaltedFrame ==
  ASSUME HaltedIsMute, NEW p \in PRs, TypeOK, count' \in Nat, count' >= count,
         \A q \in PRs \ {p} : run'[q] = run[q],
         halted' \subseteq halted \cup {p},
         p \in halted' =>
           /\ Escalated' /\ run'[p].at \in {"queued", "legs"}
           /\ run'[p].at = "legs" =>
                \A l \in DOMAIN run'[p].legs : run'[p].legs[l] \in {"pending", "skipped"}
  PROVE  HaltedIsMute'
<1>1. count \in Nat /\ halted \in SUBSET PRs
  BY DEF TypeOK, Shape
<1>2. ASSUME NEW q \in halted'
      PROVE  /\ Escalated' /\ run'[q].at \in {"queued", "legs"}
             /\ run'[q].at = "legs" =>
                  \A l \in DOMAIN run'[q].legs : run'[q].legs[l] \in {"pending", "skipped"}
  <2>1. CASE q = p
    BY <1>2, <2>1
  <2>2. CASE q # p
    <3>1. q \in halted /\ run'[q] = run[q]
      BY <1>1, <1>2, <2>2
    <3>2. Escalated'
      BY <1>1, <3>1, VerdictGateAssumption DEF HaltedIsMute, Escalated
    <3> QED
      BY <3>1, <3>2 DEF HaltedIsMute
  <2> QED
    BY <2>1, <2>2
<1> QED
  BY <1>2 DEF HaltedIsMute

LEMMA StepHaltedIsMute == IInv /\ Next => HaltedIsMute'
<1> SUFFICES ASSUME TypeOK, HaltedIsMute, Next PROVE HaltedIsMute'
  BY DEF IInv
<1>0. count \in Nat /\ run \in [PRs -> Runs] /\ halted \in SUBSET PRs
  BY DEF TypeOK, Shape
<1>1. CASE Clear
  BY <1>1, ClearFacts DEF HaltedIsMute
<1>2. CASE UNCHANGED <<run, count, halted>>
  BY <1>2 DEF HaltedIsMute, Escalated
<1>3. ASSUME NEW p \in PRs, Request(p) PROVE HaltedIsMute'
  <2>1. /\ run' = [run EXCEPT ![p] = run'[p]] /\ run'[p].at = "queued"
        /\ halted' = (IF Escalated THEN halted \cup {p} ELSE halted) /\ count' = count
        /\ run[p].at = "idle"
    BY <1>3, RequestFacts DEF Request
  <2>2. p \notin halted
    BY <2>1 DEF HaltedIsMute
  <2>3. \A q \in PRs \ {p} : run'[q] = run[q]
    BY <1>0, <2>1
  <2>4. p \in halted' => Escalated'
    BY <2>1, <2>2 DEF Escalated
  <2> QED
    BY <1>0, <2>1, <2>3, <2>4, HaltedFrame
<1>4. ASSUME NEW p \in PRs, NEW conclusion, Ends(p, conclusion) PROVE HaltedIsMute'
  BY <1>4, EndsFacts, HaltedFrame
<1>5. ASSUME NEW p \in PRs, Resolve(p) PROVE HaltedIsMute'
  <2>1. CASE \E conclusion : Ends(p, conclusion)
    BY <1>4, <2>1
  <2>2. CASE ~\E conclusion : Ends(p, conclusion)
    <3>1. /\ run' = [run EXCEPT ![p] = run'[p]] /\ run'[p].at = "legs"
          /\ \A l \in DOMAIN run'[p].legs : run'[p].legs[l] = "pending"
          /\ UNCHANGED <<count, halted>>
      BY <1>5, <2>2, ResolveFacts
    <3>2. \A q \in PRs \ {p} : run'[q] = run[q]
      BY <1>0, <3>1
    <3>3. p \in halted' => Escalated'
      BY <3>1 DEF Escalated, HaltedIsMute
    <3> QED
      BY <1>0, <3>1, <3>2, <3>3, HaltedFrame
  <2> QED
    BY <2>1, <2>2
<1>6. ASSUME NEW p \in PRs, NEW l \in Legs, Leg(p, l) PROVE HaltedIsMute'
  <2>1. /\ run[p].at = "legs" /\ run' = [run EXCEPT ![p] = run'[p]] /\ run'[p].at = "legs"
        /\ DOMAIN run'[p].legs = DOMAIN run[p].legs
        /\ \E o \in Outcomes \cup {"skipped"} :
             /\ \A k \in DOMAIN run[p].legs :
                  run'[p].legs[k] = IF k = l THEN o ELSE run[p].legs[k]
             /\ Escalated => o = "skipped"
    BY <1>6, LegFacts
  <2>2. UNCHANGED <<count, halted>>
    BY <1>6 DEF Leg
  <2>3. \A q \in PRs \ {p} : run'[q] = run[q]
    BY <1>0, <2>1
  <2>4. ASSUME p \in halted
        PROVE  /\ Escalated'
               /\ \A k \in DOMAIN run'[p].legs : run'[p].legs[k] \in {"pending", "skipped"}
    <3>1. Escalated /\ \A k \in DOMAIN run[p].legs : run[p].legs[k] \in {"pending", "skipped"}
      BY <2>1, <2>4 DEF HaltedIsMute
    <3> QED
      BY <2>1, <2>2, <3>1 DEF Escalated
  <2> QED
    BY <1>0, <2>1, <2>2, <2>3, <2>4, HaltedFrame
<1>7. ASSUME NEW p \in PRs, Finalize(p) PROVE HaltedIsMute'
  <2> DEFINE S == {run[p].legs[l] : l \in DOMAIN run[p].legs}
  <2>1. CASE \E conclusion : Ends(p, conclusion)
    BY <1>4, <2>1
  <2>2. CASE ~\E conclusion : Ends(p, conclusion)
    <3>1. /\ run[p].at = "legs" /\ S \in SUBSET (Outcomes \cup {"skipped"})
          /\ Combine(S) \in Outcomes /\ run' = [run EXCEPT ![p] = run'[p]]
          /\ UNCHANGED <<count, halted>>
      BY <1>7, <2>2, FinalizeFacts
    <3>2. ~(S \subseteq {"skipped"})
      <4>1. Combine(S) # "skipped"
        BY <3>1 DEF Outcomes
      <4> HIDE DEF S
      <4> QED
        BY <3>1, <4>1, CombineFacts
    <3>3. p \notin halted
      <4> SUFFICES ASSUME p \in halted PROVE FALSE
        OBVIOUS
      <4>1. S \subseteq {"pending", "skipped"}
        BY <3>1 DEF HaltedIsMute
      <4>2. "pending" \notin Outcomes
        BY DEF Outcomes
      <4> HIDE DEF S
      <4> QED
        BY <3>1, <3>2, <4>1, <4>2
    <3>4. \A q \in PRs \ {p} : run'[q] = run[q]
      BY <1>0, <3>1
    <3> QED
      BY <1>0, <3>1, <3>3, <3>4, HaltedFrame
  <2> QED
    BY <2>1, <2>2
<1>8. ASSUME NEW p \in PRs, Publish(p) PROVE HaltedIsMute'
  <2>1. CASE \E conclusion : Ends(p, conclusion)
    BY <1>4, <2>1
  <2>2. CASE ~\E conclusion : Ends(p, conclusion)
    <3>1. /\ run[p].at = "publish" /\ run' = [run EXCEPT ![p] = run'[p]]
          /\ UNCHANGED <<count, halted>>
      BY <1>8, <2>2, PublishFacts
    <3>2. p \notin halted
      BY <3>1 DEF HaltedIsMute
    <3>3. \A q \in PRs \ {p} : run'[q] = run[q]
      BY <1>0, <3>1
    <3> QED
      BY <1>0, <3>1, <3>2, <3>3, HaltedFrame
  <2> QED
    BY <2>1, <2>2
<1>9. ASSUME NEW p \in PRs, Merge(p) PROVE HaltedIsMute'
  BY <1>4, <1>9 DEF Merge
<1>10. ASSUME NEW p \in PRs, Fail(p) PROVE HaltedIsMute'
  BY <1>4, <1>10 DEF Fail
<1> QED
  BY <1>1, <1>2, <1>3, <1>5, <1>6, <1>7, <1>8, <1>9, <1>10
     DEF Next, Push, Reset, Review, AutoMerge
-----------------------------------------------------------------------------
\* A step of one pull request leaves what the others' runs make of their records.
LEMMA RepeatsFrame ==
  ASSUME RepeatsRecord, NEW p \in PRs,
         \A q \in PRs \ {p} : run'[q] = run[q] /\
           (run[q].at \in {"legs", "publish"} =>
              LET record == commit[q][run[q].sha]
                  new == commit'[q][run[q].sha]
              IN new.outcome = record.outcome /\ (~new.reviewed => ~record.reviewed \/ record.outcome = "none")),
         LET record == commit'[p][run'[p].sha]
         IN Settled(record) =>
              /\ run'[p].at = "legs" => \A l \in DOMAIN run'[p].legs :
                                          run'[p].legs[l] \in {"pending", "skipped", record.outcome}
              /\ run'[p].at = "publish" => run'[p].outcome \in {record.outcome, "indeterminate"}
  PROVE  RepeatsRecord'
<1>1. ASSUME NEW q \in PRs, Settled(commit'[q][run'[q].sha])
      PROVE  /\ run'[q].at = "legs" =>
                  \A l \in DOMAIN run'[q].legs :
                    run'[q].legs[l] \in {"pending", "skipped", commit'[q][run'[q].sha].outcome}
             /\ run'[q].at = "publish" =>
                  run'[q].outcome \in {commit'[q][run'[q].sha].outcome, "indeterminate"}
  <2>1. CASE q = p
    BY <1>1, <2>1
  <2>2. CASE q # p
    <3>1. run'[q] = run[q]
      BY <2>2
    <3>2. CASE run[q].at \in {"legs", "publish"}
      <4> DEFINE record == commit[q][run[q].sha]
                 new == commit'[q][run[q].sha]
      <4>1. /\ new.outcome = record.outcome
            /\ ~new.reviewed => ~record.reviewed \/ record.outcome = "none"
        BY <2>2, <3>2
      <4>2. Settled(record)
        BY <1>1, <3>1, <4>1 DEF Settled
      <4>3. /\ run[q].at = "legs" => \A l \in DOMAIN run[q].legs :
                                       run[q].legs[l] \in {"pending", "skipped", record.outcome}
            /\ run[q].at = "publish" => run[q].outcome \in {record.outcome, "indeterminate"}
        BY <4>2 DEF RepeatsRecord
      <4> HIDE DEF record, new
      <4>4. /\ run[q].at = "legs" => \A l \in DOMAIN run[q].legs :
                                       run[q].legs[l] \in {"pending", "skipped", new.outcome}
            /\ run[q].at = "publish" => run[q].outcome \in {new.outcome, "indeterminate"}
        BY <4>1, <4>3
      <4> QED
        BY <3>1, <4>4 DEF new
    <3>3. CASE run[q].at \notin {"legs", "publish"}
      BY <3>1, <3>3
    <3> QED
      BY <3>2, <3>3
  <2> QED
    BY <2>1, <2>2
<1> QED
  BY <1>1 DEF RepeatsRecord

LEMMA StepRepeatsRecord == IInv /\ Next => RepeatsRecord'
<1> SUFFICES ASSUME TypeOK, RepeatsRecord, Next PROVE RepeatsRecord'
  BY DEF IInv
<1>0. /\ run \in [PRs -> Runs] /\ commit \in [PRs -> Seq(Commits)]
      /\ \A p \in PRs : Linked(commit[p], vouched[p], branch[p], run[p])
  BY DEF TypeOK, Shape
<1>1. CASE Clear
  <2>1. commit' = commit
    BY <1>1 DEF Clear
  <2>2. \A p \in PRs : /\ run'[p].at = run[p].at /\ run'[p].sha = run[p].sha
                       /\ run'[p].legs = run[p].legs /\ run'[p].outcome = run[p].outcome
    BY <1>1, ClearFacts
  <2> QED
    BY <2>1, <2>2 DEF RepeatsRecord
<1>2. CASE UNCHANGED <<run, commit>>
  BY <1>2 DEF RepeatsRecord
<1>3. ASSUME NEW p \in PRs, run' = run,
             \A q \in PRs : \A d \in DOMAIN commit[q] :
               /\ commit'[q][d].outcome = commit[q][d].outcome
               /\ ~commit'[q][d].reviewed => ~commit[q][d].reviewed \/ commit[q][d].outcome = "none"
      PROVE  RepeatsRecord'
  <2>1. ASSUME NEW q \in PRs, run[q].at \in {"legs", "publish"},
               Settled(commit'[q][run[q].sha])
        PROVE  /\ commit[q][run[q].sha].outcome = commit'[q][run[q].sha].outcome
               /\ Settled(commit[q][run[q].sha])
    <3>1. run[q].sha \in DOMAIN commit[q]
      BY <1>0, <2>1 DEF Linked
    <3> QED
      BY <1>3, <2>1, <3>1 DEF Settled
  <2> QED
    BY <1>3, <2>1 DEF RepeatsRecord
<1>4. ASSUME NEW p \in PRs, Push(p) PROVE RepeatsRecord'
  <2>1. run' = run
    BY <1>4 DEF Push
  <2>2. \A q \in PRs : \A d \in DOMAIN commit[q] : commit'[q][d] = commit[q][d]
    BY <1>4, PushFacts
  <2> QED
    BY <1>3, <2>1, <2>2
<1>5. ASSUME NEW p \in PRs, Review(p) PROVE RepeatsRecord'
  <2>1. run' = run
    BY <1>5 DEF Review
  <2> QED
    BY <1>3, <1>5, <2>1, ReviewFacts
<1>6. ASSUME NEW p \in PRs, commit' = commit, \A q \in PRs \ {p} : run'[q] = run[q],
             run'[p].at \notin {"legs", "publish"}
      PROVE  RepeatsRecord'
  BY <1>6, RepeatsFrame
<1>7. ASSUME NEW p \in PRs, NEW conclusion, Ends(p, conclusion), commit' = commit
      PROVE  RepeatsRecord'
  BY <1>6, <1>7, EndsFacts
<1>8. ASSUME NEW p \in PRs, Request(p) PROVE RepeatsRecord'
  <2>1. run' = [run EXCEPT ![p] = run'[p]] /\ run'[p].at = "queued" /\ commit' = commit
    BY <1>8, RequestFacts DEF Request
  <2>2. \A q \in PRs \ {p} : run'[q] = run[q]
    BY <1>0, <2>1
  <2> QED
    BY <1>6, <2>1, <2>2
<1>9. ASSUME NEW p \in PRs, Resolve(p) PROVE RepeatsRecord'
  <2>0. commit' = commit
    BY <1>9 DEF Resolve
  <2>1. CASE \E conclusion : Ends(p, conclusion)
    BY <1>7, <2>0, <2>1
  <2>2. CASE ~\E conclusion : Ends(p, conclusion)
    <3>1. /\ run' = [run EXCEPT ![p] = run'[p]] /\ run'[p].at = "legs"
          /\ \A l \in DOMAIN run'[p].legs : run'[p].legs[l] = "pending"
      BY <1>9, <2>2, ResolveFacts
    <3>2. \A q \in PRs \ {p} : run'[q] = run[q]
      BY <1>0, <3>1
    <3> QED
      BY <2>0, <3>1, <3>2, RepeatsFrame
  <2> QED
    BY <2>1, <2>2
<1>10. ASSUME NEW p \in PRs, NEW l \in Legs, Leg(p, l) PROVE RepeatsRecord'
  <2>1. commit' = commit
    BY <1>10 DEF Leg
  <2> DEFINE record == commit[p][run[p].sha]
  <2>2. /\ run[p].at = "legs" /\ run' = [run EXCEPT ![p] = run'[p]] /\ run'[p].at = "legs"
        /\ run'[p].sha = run[p].sha /\ DOMAIN run'[p].legs = DOMAIN run[p].legs
    BY <1>10, LegFacts
  <2>3. PICK o \in Outcomes \cup {"skipped"} :
          /\ \A k \in DOMAIN run[p].legs :
               run'[p].legs[k] = IF k = l THEN o ELSE run[p].legs[k]
          /\ Settled(record) => o \in {record.outcome, "skipped"}
    BY <1>10, LegFacts
  <2>4. \A q \in PRs \ {p} : run'[q] = run[q]
    BY <1>0, <2>2
  <2>5. Settled(record) =>
          \A k \in DOMAIN run'[p].legs :
            run'[p].legs[k] \in {"pending", "skipped", record.outcome}
    BY <2>2, <2>3 DEF RepeatsRecord
  <2> QED
    BY <2>1, <2>2, <2>4, <2>5, RepeatsFrame
<1>11. ASSUME NEW p \in PRs, Finalize(p) PROVE RepeatsRecord'
  <2> DEFINE S == {run[p].legs[l] : l \in DOMAIN run[p].legs}
             record == commit[p][run[p].sha]
  <2>0. commit' = commit
    <3>1. UNCHANGED <<meta, commit, line, branch, auto, used, vouched, refused, restored>>
      BY <1>11, Zenon DEF Finalize
    <3> QED
      BY <3>1
  <2>1. CASE \E conclusion : Ends(p, conclusion)
    BY <1>7, <2>0, <2>1
  <2>2. CASE ~\E conclusion : Ends(p, conclusion)
    <3>1. /\ run[p].at = "legs" /\ S \in SUBSET (Outcomes \cup {"skipped"})
          /\ Combine(S) \in Outcomes /\ run' = [run EXCEPT ![p] = run'[p]]
          /\ run'[p].at = "publish" /\ run'[p].sha = run[p].sha
          /\ run'[p].outcome = Combine(S)
      BY <1>11, <2>2, FinalizeFacts
    <3>2. \A q \in PRs \ {p} : run'[q] = run[q]
      BY <1>0, <3>1
    <3>3. ASSUME Settled(record)
          PROVE  Combine(S) \in {record.outcome, "indeterminate"}
      <4>1. record.outcome \in Outcomes
        <5>1. run[p].sha \in DOMAIN commit[p]
          BY <1>0, <3>1 DEF Linked
        <5>2. record \in Commits
          BY <1>0, <5>1
        <5> QED
          BY <3>3, <5>2 DEF Commits, Settled
      <4>2. "skipped" \notin Outcomes
        BY DEF Outcomes
      <4>3. S \subseteq {"pending", "skipped", record.outcome}
        BY <3>1, <3>3 DEF RepeatsRecord
      <4>4. "pending" \notin Outcomes
        BY DEF Outcomes
      <4> HIDE DEF S, record
      <4>5. S \subseteq {record.outcome, "skipped"}
        BY <3>1, <4>3, <4>4
      <4>6. Combine(S) \in {record.outcome, "skipped", "indeterminate"}
        BY <3>1, <4>1, <4>5, CombineFacts
      <4> QED
        BY <3>1, <4>2, <4>6
    <3>4. Settled(record) =>
            run'[p].outcome \in {record.outcome, "indeterminate"}
      BY <3>1, <3>3
    <3>5. run'[p].at = "publish" /\ run'[p].sha = run[p].sha
      BY <3>1
    <3> HIDE DEF S
    <3> QED
      BY <2>0, <3>2, <3>4, <3>5, RepeatsFrame
  <2> QED
    BY <2>1, <2>2
<1>12. ASSUME NEW p \in PRs, Publish(p) PROVE RepeatsRecord'
  <2>1. \A q \in PRs \ {p} : \A d \in DOMAIN commit[q] : commit'[q][d] = commit[q][d]
    BY <1>12, PublishFacts
  <2>2. /\ run'[p].at \in {"idle", "merge"} /\ \A q \in PRs \ {p} : run'[q] = run[q]
    <3>1. CASE Ends(p, "failure")
      BY <3>1, EndsFacts
    <3>2. CASE ~Ends(p, "failure")
      <4>1. run' = [run EXCEPT ![p] = run'[p]] /\ run'[p].at = "merge"
        BY <1>12, <3>2, PublishFacts
      <4> QED
        BY <1>0, <4>1
    <3> QED
      BY <3>1, <3>2
  <2>3. \A q \in PRs \ {p} : run[q].at \in {"legs", "publish"} => run[q].sha \in DOMAIN commit[q]
    BY <1>0 DEF Linked
  <2> QED
    BY <2>1, <2>2, <2>3, RepeatsFrame
<1>13. ASSUME NEW p \in PRs, Merge(p) PROVE RepeatsRecord'
  BY <1>7, <1>13 DEF Merge
<1>14. ASSUME NEW p \in PRs, Fail(p) PROVE RepeatsRecord'
  BY <1>7, <1>14 DEF Fail
<1> QED
  BY <1>1, <1>2, <1>4, <1>5, <1>8, <1>9, <1>10, <1>11, <1>12, <1>13, <1>14
     DEF Next, Reset, AutoMerge
-----------------------------------------------------------------------------
\* The voters are pull requests, so there are no more of them than of those.
LEMMA VotersFinite ==
  /\ IsFiniteSet(Voters) /\ Cardinality(Voters) \in Nat /\ Cardinality(PRs) \in Nat
  /\ \A V \in SUBSET PRs : IsFiniteSet(V) /\ Cardinality(V) \in Nat
                           /\ Cardinality(V) <= Cardinality(PRs)
<1>1. \A V \in SUBSET PRs : IsFiniteSet(V) /\ Cardinality(V) <= Cardinality(PRs)
  BY VerdictGateAssumption, FS_Subset
<1>2. Voters \in SUBSET PRs
  BY DEF Voters
<1> QED
  BY <1>1, <1>2, VerdictGateAssumption, FS_CardinalityType

\* Without a new voter or a new refusal, the bound stays.
LEMMA VotersShrink ==
  ASSUME TypeOK, VotersBounded, NEW V \in SUBSET PRs, V \subseteq Voters
  PROVE  refused + Cardinality(V) <= GlobalNonApproveLimit + Cardinality(PRs)
<1>1. Cardinality(V) <= Cardinality(Voters)
  BY VotersFinite, FS_Subset
<1>2. Cardinality(V) \in Nat /\ Cardinality(Voters) \in Nat /\ Cardinality(PRs) \in Nat
  BY VotersFinite
<1> QED
  BY <1>1, <1>2, VerdictGateAssumption DEF VotersBounded, TypeOK, Shape

LEMMA VotersFrame ==
  ASSUME TypeOK, VotersBounded, NEW p \in PRs, TypeOK', count' >= count, refused' = refused,
         \A q \in PRs \ {p} : run'[q] = run[q], p \in Voters' => p \in Voters
  PROVE  VotersBounded'
<1>1. Voters' \in SUBSET PRs /\ Voters' \subseteq Voters
  BY DEF Voters
<1>2. refused + Cardinality(Voters') <= GlobalNonApproveLimit + Cardinality(PRs)
  BY <1>1, VotersShrink
<1>3. refused <= count'
  BY DEF TypeOK, Shape, VotersBounded
<1> QED
  BY <1>2, <1>3 DEF VotersBounded

\* Below the cap anybody may become a voter.
LEMMA VotersBelowCap ==
  ASSUME TypeOK, VotersBounded, ~Escalated, UNCHANGED <<count, refused>>
  PROVE  VotersBounded'
<1>1. Voters' \in SUBSET PRs
  BY DEF Voters
<1>2. Cardinality(Voters') \in Nat /\ Cardinality(Voters') <= Cardinality(PRs)
  BY <1>1, VotersFinite
<1>3. refused <= GlobalNonApproveLimit /\ refused \in Nat /\ count \in Nat
  BY VerdictGateAssumption DEF TypeOK, Shape, VotersBounded, Escalated
<1>4. refused + Cardinality(Voters') <= GlobalNonApproveLimit + Cardinality(PRs)
  BY <1>2, <1>3, VotersFinite, VerdictGateAssumption
<1> QED
  BY <1>3, <1>4 DEF VotersBounded

\* A published refusal is one voter less.
LEMMA VoterSpent ==
  ASSUME TypeOK, VotersBounded, NEW p \in Voters, count' = count + 1, refused' = refused + 1,
         Voters' \subseteq Voters \ {p}
  PROVE  VotersBounded'
<1>1. IsFiniteSet(Voters) /\ Cardinality(Voters) \in Nat /\ Cardinality(PRs) \in Nat
  BY VotersFinite
<1>2. IsFiniteSet(Voters \ {p}) /\ Cardinality(Voters \ {p}) = Cardinality(Voters) - 1
  BY <1>1, FS_RemoveElement
<1>3. Cardinality(Voters') <= Cardinality(Voters \ {p}) /\ Cardinality(Voters') \in Nat
  BY <1>2, FS_Subset, FS_CardinalityType
<1>4. refused \in Nat /\ count \in Nat
  BY DEF TypeOK, Shape
<1>5. /\ refused <= count
      /\ refused + Cardinality(Voters) <= GlobalNonApproveLimit + Cardinality(PRs)
  BY DEF VotersBounded
<1>6. refused' <= count'
  BY <1>4, <1>5
<1>7. refused' + Cardinality(Voters') <= GlobalNonApproveLimit + Cardinality(PRs)
  BY <1>1, <1>2, <1>3, <1>4, <1>5, VerdictGateAssumption
<1> QED
  BY <1>6, <1>7 DEF VotersBounded

LEMMA StepVotersBounded == IInv /\ Next => VotersBounded'
<1> SUFFICES ASSUME TypeOK, VotersBounded, Next PROVE VotersBounded'
  BY DEF IInv
<1>0. /\ run \in [PRs -> Runs] /\ count \in Nat /\ refused \in Nat
      /\ \A p \in PRs : run[p].stale \in BOOLEAN
  BY DEF TypeOK, Shape, Runs
<1>a. TypeOK'
  BY StepTypeOK
<1>1. CASE Clear
  <2>1. count' = 0 /\ refused' = 0
    BY <1>1, ClearFacts
  <2>2. Voters' = {}
    <3>1. \A p \in PRs : run'[p].at = run[p].at /\ (run[p].at # "idle" => run'[p].stale)
      BY <1>1, ClearFacts
    <3> QED
      BY <3>1 DEF Voters
  <2>3. Cardinality(Voters') = 0 /\ Cardinality(PRs) \in Nat
    BY <2>2, VotersFinite, FS_EmptySet
  <2> QED
    BY <2>1, <2>3, VerdictGateAssumption DEF VotersBounded
<1>2. CASE UNCHANGED <<run, count, refused>>
  <2>1. Voters' = Voters
    BY <1>2 DEF Voters
  <2> QED
    BY <1>2, <2>1 DEF VotersBounded
<1>3. ASSUME NEW p \in PRs, \A q \in PRs \ {p} : run'[q] = run[q],
             run'[p].at \notin {"legs", "publish"}, refused' = refused, count' >= count
      PROVE  VotersBounded'
  <2>1. p \notin Voters'
    BY <1>3 DEF Voters
  <2> QED
    BY <1>a, <1>3, <2>1, VotersFrame
<1>4. ASSUME NEW p \in PRs, NEW conclusion, Ends(p, conclusion), refused' = refused
      PROVE  VotersBounded'
  BY <1>3, <1>4, EndsFacts
<1>5. ASSUME NEW p \in PRs, Request(p) PROVE VotersBounded'
  <2>1. run' = [run EXCEPT ![p] = run'[p]] /\ run'[p].at = "queued" /\ UNCHANGED <<count, refused>>
    BY <1>5, RequestFacts DEF Request
  <2>2. \A q \in PRs \ {p} : run'[q] = run[q]
    BY <1>0, <2>1
  <2> QED
    BY <1>0, <1>3, <2>1, <2>2
<1>6. ASSUME NEW p \in PRs, Resolve(p) PROVE VotersBounded'
  <2>0. refused' = refused
    <3>1. UNCHANGED <<meta, commit, line, branch, auto, used, vouched, refused, restored>>
      BY <1>6, Zenon DEF Resolve
    <3> QED
      BY <3>1
  <2>1. CASE \E conclusion : Ends(p, conclusion)
    BY <1>4, <2>0, <2>1
  <2>2. CASE ~\E conclusion : Ends(p, conclusion)
    <3>1. /\ run' = [run EXCEPT ![p] = run'[p]] /\ run'[p].at = "legs"
          /\ \A l \in DOMAIN run'[p].legs : run'[p].legs[l] = "pending"
          /\ UNCHANGED <<count, halted>>
      BY <1>6, <2>2, ResolveFacts
    <3>2. p \notin Voters'
      BY <3>1 DEF Voters, Outcomes
    <3>3. \A q \in PRs \ {p} : run'[q] = run[q]
      BY <1>0, <3>1
    <3> QED
      BY <1>0, <1>a, <2>0, <3>1, <3>2, <3>3, VotersFrame
  <2> QED
    BY <2>1, <2>2
<1>7. ASSUME NEW p \in PRs, NEW l \in Legs, Leg(p, l) PROVE VotersBounded'
  <2>0. UNCHANGED <<count, refused>>
    BY <1>7 DEF Leg
  <2>1. CASE ~Escalated
    BY <2>0, <2>1, VotersBelowCap
  <2>2. CASE Escalated
    <3>1. /\ run[p].at = "legs" /\ run' = [run EXCEPT ![p] = run'[p]] /\ run'[p].at = "legs"
          /\ run'[p].stale = run[p].stale /\ DOMAIN run'[p].legs = DOMAIN run[p].legs
      BY <1>7, LegFacts
    <3>6. PICK o \in Outcomes \cup {"skipped"} :
            /\ \A k \in DOMAIN run[p].legs :
                 run'[p].legs[k] = IF k = l THEN o ELSE run[p].legs[k]
            /\ Escalated => o = "skipped"
      BY <1>7, LegFacts
    <3>2. "skipped" \notin Outcomes
      BY DEF Outcomes
    <3>3. \A k \in DOMAIN run'[p].legs :
            run'[p].legs[k] \in Outcomes => k \in DOMAIN run[p].legs /\ run[p].legs[k] \in Outcomes
      BY <2>2, <3>1, <3>2, <3>6
    <3>4. p \in Voters' => p \in Voters
      BY <3>1, <3>3 DEF Voters
    <3>5. \A q \in PRs \ {p} : run'[q] = run[q]
      BY <1>0, <3>1
    <3> QED
      BY <1>0, <1>a, <2>0, <3>4, <3>5, VotersFrame
  <2> QED
    BY <2>1, <2>2
<1>8. ASSUME NEW p \in PRs, Finalize(p) PROVE VotersBounded'
  <2> DEFINE S == {run[p].legs[l] : l \in DOMAIN run[p].legs}
  <2>0. refused' = refused
    <3>1. UNCHANGED <<meta, commit, line, branch, auto, used, vouched, refused, restored>>
      BY <1>8, Zenon DEF Finalize
    <3> QED
      BY <3>1
  <2>1. CASE \E conclusion : Ends(p, conclusion)
    BY <1>4, <2>0, <2>1
  <2>2. CASE ~\E conclusion : Ends(p, conclusion)
    <3>1. /\ run[p].at = "legs" /\ S \in SUBSET (Outcomes \cup {"skipped"})
          /\ Combine(S) \in Outcomes /\ run' = [run EXCEPT ![p] = run'[p]]
          /\ run'[p].stale = run[p].stale /\ UNCHANGED <<count, halted>>
      BY <1>8, <2>2, FinalizeFacts
    <3>2. ~(S \subseteq {"skipped"})
      <4>1. Combine(S) # "skipped"
        BY <3>1 DEF Outcomes
      <4> HIDE DEF S
      <4> QED
        BY <3>1, <4>1, CombineFacts
    <3>3. \E l \in DOMAIN run[p].legs : run[p].legs[l] \in Outcomes
      BY <3>1, <3>2
    <3>4. p \in Voters' => p \in Voters
      BY <3>1, <3>3 DEF Voters
    <3>5. \A q \in PRs \ {p} : run'[q] = run[q]
      BY <1>0, <3>1
    <3>6. count' >= count
      BY <1>0, <3>1
    <3> HIDE DEF S
    <3> QED
      BY <1>a, <2>0, <3>4, <3>5, <3>6, VotersFrame
  <2> QED
    BY <2>1, <2>2
<1>9. ASSUME NEW p \in PRs, Publish(p) PROVE VotersBounded'
  <2>1. CASE Ends(p, "failure") /\ refused' = IF run[p].stale THEN refused ELSE refused + 1
    <3>1. CASE run[p].stale
      BY <1>4, <2>1, <3>1
    <3>2. CASE ~run[p].stale
      <4>1. /\ run'[p].at = "idle" /\ count' = count + 1
            /\ \A q \in PRs \ {p} : run'[q] = run[q]
        BY <2>1, <3>2, EndsFacts
      <4>2. p \in Voters
        <5>1. run[p].at = "publish"
          BY <1>9, PublishFacts
        <5> QED
          BY <3>2, <5>1 DEF Voters
      <4>3. Voters' \subseteq Voters \ {p}
        BY <4>1 DEF Voters
      <4> QED
        BY <2>1, <3>2, <4>1, <4>2, <4>3, VoterSpent
    <3> QED
      BY <3>1, <3>2
  <2>2. CASE ~(Ends(p, "failure") /\ refused' = IF run[p].stale THEN refused ELSE refused + 1)
    <3>1. run' = [run EXCEPT ![p] = run'[p]] /\ run'[p].at = "merge" /\ UNCHANGED <<count, refused>>
      BY <1>9, <2>2, PublishFacts
    <3>2. \A q \in PRs \ {p} : run'[q] = run[q]
      BY <1>0, <3>1
    <3> QED
      BY <1>0, <1>3, <3>1, <3>2
  <2> QED
    BY <2>1, <2>2
<1>10. ASSUME NEW p \in PRs, Merge(p) PROVE VotersBounded'
  BY <1>4, <1>10 DEF Merge
<1>11. ASSUME NEW p \in PRs, Fail(p) PROVE VotersBounded'
  BY <1>4, <1>11 DEF Fail
<1> QED
  BY <1>1, <1>2, <1>5, <1>6, <1>7, <1>8, <1>9, <1>10, <1>11
     DEF Next, Push, Reset, Review, AutoMerge
-----------------------------------------------------------------------------
(* Why a green check was earned *)

\* The commit is eligible, and each leg it needs approved it on evidence that is there.
Passed(p, c) == Eligible(meta[p]) /\ Needed(commit[p][c].content) \subseteq vouched[p][c]

\* What has an approval, or may still come to have one, of the legs that vouched for it.
GreenEarned(p) ==
  /\ \A c \in DOMAIN commit[p] :
       commit[p][c].required = "success" \/ commit[p][c].outcome = "approve" => Passed(p, c)
  /\ run[p].at = "legs" =>
       /\ Eligible(meta[p]) /\ DOMAIN run[p].legs = Needed(commit[p][run[p].sha].content)
       /\ \A l \in DOMAIN run[p].legs :
            run[p].legs[l] = "approve" => l \in vouched[p][run[p].sha]
  /\ run[p].at = "publish" /\ run[p].outcome = "approve" => Passed(p, run[p].sha)

GreenInv == \A p \in PRs : GreenEarned(p)

\* An approval that passes the validation and the sanity check is sound.
LEMMA ApprovalIsSound ==
  ASSUME NEW v \in Verdicts, NEW content, Judgement(v, content) = "approve"
  PROVE  Sound(v, content)
<1>1. /\ v.decision = "approve" /\ Valid(v)
      /\ SanityCheck(v, ParseUnifiedDiff(content.changes), content.injected)
  BY DEF Judgement
<1>2. ASSUME NEW e \in v.evidence
      PROVE  e \in {[file |-> c.filename, hunk |-> c.hunk] : c \in content.changes}
  <2>1. PICK f \in ParseUnifiedDiff(content.changes) :
          f.path = e.file /\ hunkReferenced(f.hunks, e.hunk)
    BY <1>1 DEF SanityCheck
  <2>2. PICK c \in content.changes : f = [path |-> c.filename, hunks |-> {c.hunk}]
    BY <2>1 DEF ParseUnifiedDiff
  <2>3. c.filename = e.file /\ c.hunk = e.hunk
    BY <2>1, <2>2 DEF hunkReferenced, Contains
  <2>4. e = [file |-> e.file, hunk |-> e.hunk]
    BY ContentAssumption
  <2> QED
    BY <2>3, <2>4
<1> QED
  BY <1>1, <1>2 DEF Sound, SanityCheck, Valid

\* Without an approval by each of the legs there is none.
LEMMA CombineApproves ==
  ASSUME NEW S \in SUBSET (Outcomes \cup {"skipped"}), Combine(S) = "approve"
  PROVE  \A o \in S : o = "approve"
BY DEF Combine, CombineLegOutcomes, Outcomes

\* A change that touches a guarded path, or moves one, needs both legs.
LEMMA GuardedNeedsBoth ==
  ASSUME NEW content, NEW f \in content.changes, {f.filename, f.previous} \cap Guarded # {}
  PROVE  Needed(content) = Legs
<1>1. PICK g \in Guarded : g \in {f.filename, f.previous}
  OBVIOUS
<1>2. g \in ChangedPaths(content.changes) /\ classifyPath(g, Rules) = "critical"
  BY <1>1, ContentAssumption DEF ChangedPaths
<1> QED
  BY <1>2 DEF Needed, ClassifyChangedPaths

\* What is earned stays so while commits keep their content and legs do not take back.
LEMMA PassedKept ==
  ASSUME NEW p \in PRs, NEW c, Passed(p, c), meta' = meta,
         commit'[p][c].content = commit[p][c].content, vouched[p][c] \subseteq vouched'[p][c]
  PROVE  Passed(p, c)'
BY DEF Passed

LEMMA EarnedFrame ==
  ASSUME TypeOK, NEW p \in PRs, GreenEarned(p), meta' = meta,
         run'[p].at = run[p].at, run'[p].sha = run[p].sha, run'[p].legs = run[p].legs,
         run'[p].outcome = run[p].outcome,
         \A c \in DOMAIN commit[p] :
           /\ commit'[p][c].content = commit[p][c].content
           /\ vouched[p][c] \subseteq vouched'[p][c],
         \A c \in DOMAIN commit'[p] :
           \/ commit'[p][c].required # "success" /\ commit'[p][c].outcome # "approve"
           \/ /\ c \in DOMAIN commit[p] /\ commit'[p][c].required = commit[p][c].required
              /\ commit'[p][c].outcome = commit[p][c].outcome
  PROVE  GreenEarned(p)'
<1>1. run[p].at \in {"legs", "publish"} => run[p].sha \in DOMAIN commit[p]
  BY DEF TypeOK, Linked
<1>2. \A c \in DOMAIN commit[p] : Passed(p, c) => Passed(p, c)'
  BY PassedKept
<1> QED
  BY <1>1, <1>2 DEF GreenEarned

\* A run that moves on over the same commits.
LEMMA RunMovesOn ==
  ASSUME GreenInv, UNCHANGED <<meta, commit, vouched>>, NEW p \in PRs,
         \A q \in PRs \ {p} : run'[q] = run[q],
         run'[p].at \in {"legs", "publish"} => GreenEarned(p)'
  PROVE  GreenInv'
BY DEF GreenInv, GreenEarned, Passed

LEMMA InitGreen == Init => GreenInv
<1> SUFFICES ASSUME Init, NEW p \in PRs PROVE GreenEarned(p)
  BY DEF GreenInv
<1>1. \A c \in DOMAIN commit[p] : commit[p][c].required = "unset" /\ commit[p][c].outcome = "none"
  BY DEF Init, Fresh
<1>2. run[p].at = "idle"
  BY DEF Init, Idle
<1> QED
  BY <1>1, <1>2 DEF GreenEarned

\* A leg approves what it judged soundly, or what it finds approved.
LEMMA LegVouches ==
  ASSUME TypeOK, NEW p \in PRs, GreenEarned(p), NEW l \in Legs, Leg(p, l)
  PROVE  /\ \A q \in PRs : \A c \in DOMAIN commit[q] : vouched[q][c] \subseteq vouched'[q][c]
         /\ run'[p].legs[l] = "approve" => l \in vouched'[p][run[p].sha]
<1> DEFINE c == run[p].sha
           record == commit[p][c]
           h == History(p, c)
<1>1. /\ run[p].at = "legs" /\ l \in DOMAIN run[p].legs /\ c \in DOMAIN commit[p]
      /\ Len(vouched[p]) = Len(commit[p]) /\ vouched \in [PRs -> Seq(SUBSET Legs)]
      /\ commit \in [PRs -> Seq(Commits)] /\ run \in [PRs -> Runs]
  BY DEF Leg, TypeOK, Shape, Linked
<1>2. PICK v \in Verdicts :
        /\ run' = [run EXCEPT ![p].legs[l] = LegOutcome(h, limits, Judgement(v, record.content))]
        /\ vouched' = IF ShouldProduceVerdict(h, limits).produce /\ Sound(v, record.content)
                      THEN [vouched EXCEPT ![p][c] = @ \cup {l}] ELSE vouched
  BY DEF Leg
<1>3. h.shaOutcomeRecorded = (record.outcome # "none") /\ h.existingSHAOutcome = record.outcome
  BY DEF History
<1> DEFINE o == LegOutcome(h, limits, Judgement(v, record.content))
<1> HIDE DEF h
<1>4. run'[p].legs[l] = o
  <2>1. run' = [run EXCEPT ![p] = [run[p] EXCEPT !.legs = [run[p].legs EXCEPT ![l] = o]]]
    <3>1. run' = [run EXCEPT ![p].legs[l] = o]
      BY <1>2
    <3> HIDE DEF o
    <3> QED
      BY <3>1, Zenon
  <2> HIDE DEF o
  <2>2. run'[p] = [run[p] EXCEPT !.legs = [run[p].legs EXCEPT ![l] = o]]
    BY <1>1, <2>1
  <2>3. run'[p].legs = [run[p].legs EXCEPT ![l] = o]
    BY <1>1, <2>2 DEF Runs
  <2> QED
    BY <1>1, <2>3
<1>5. c \in DOMAIN vouched[p] /\ \A q \in PRs : vouched[q] \in Seq(SUBSET Legs)
  BY <1>1
<1>6. CASE ShouldProduceVerdict(h, limits).produce /\ Sound(v, record.content)
  <2>1. vouched' = [vouched EXCEPT ![p] = [vouched[p] EXCEPT ![c] = vouched[p][c] \cup {l}]]
    BY <1>2, <1>6
  <2>2. vouched'[p] = [vouched[p] EXCEPT ![c] = vouched[p][c] \cup {l}]
        /\ \A q \in PRs \ {p} : vouched'[q] = vouched[q]
    BY <1>1, <2>1
  <2>3. l \in vouched'[p][c]
    BY <1>5, <2>2
  <2>4. \A q \in PRs : \A d \in DOMAIN commit[q] : vouched[q][d] \subseteq vouched'[q][d]
    <3>1. \A d \in DOMAIN vouched[p] : vouched[p][d] \subseteq vouched'[p][d]
      BY <2>2
    <3>2. DOMAIN commit[p] = DOMAIN vouched[p]
      BY <1>1, <1>5
    <3> QED
      BY <2>2, <3>1, <3>2
  <2> QED
    BY <2>3, <2>4
<1>7. CASE ~(ShouldProduceVerdict(h, limits).produce /\ Sound(v, record.content))
  <2>1. vouched' = vouched
    BY <1>2, <1>7
  <2>2. ASSUME o = "approve" PROVE l \in vouched[p][c]
    <3>1. ~ShouldProduceVerdict(h, limits).produce
      BY <1>7, <2>2, ApprovalIsSound DEF LegOutcome
    <3>2. record.outcome = "approve"
      BY <1>3, <2>2, <3>1 DEF LegOutcome
    <3>3. Passed(p, c) /\ DOMAIN run[p].legs = Needed(record.content)
      BY <1>1, <3>2 DEF GreenEarned
    <3> QED
      BY <1>1, <3>3 DEF Passed
  <2> QED
    BY <1>4, <2>1, <2>2
<1> QED
  BY <1>6, <1>7

\* The steps that change no commit and leave the legs' word alone.
LEMMA GreenRuns ==
  ASSUME TypeOK, GreenInv, NEW p \in PRs,
         (\E conclusion : Ends(p, conclusion)) \/ Request(p) \/ Resolve(p) \/ Finalize(p),
         UNCHANGED <<meta, commit, vouched>>
  PROVE  GreenInv'
<1>0. /\ run \in [PRs -> Runs] /\ GreenEarned(p)
      /\ \A q \in PRs : Linked(commit[q], vouched[q], branch[q], run[q])
  BY DEF TypeOK, Shape, GreenInv
<1>1. ASSUME \E conclusion : Ends(p, conclusion) PROVE GreenInv'
  BY <1>1, EndsFacts, RunMovesOn
<1>2. ASSUME run' = [run EXCEPT ![p] = run'[p]]
      PROVE  \A q \in PRs \ {p} : run'[q] = run[q]
  BY <1>0, <1>2
<1>3. CASE Request(p)
  BY <1>2, <1>3, RequestFacts, RunMovesOn
<1>4. CASE Resolve(p) /\ ~\E conclusion : Ends(p, conclusion)
  <2>1. Eligible(meta[p])
    BY <1>4 DEF Resolve
  <2>2. /\ run' = [run EXCEPT ![p] = run'[p]] /\ run'[p].at = "legs" /\ run'[p].sha = HeadOf(p)
        /\ \A l \in DOMAIN run'[p].legs : run'[p].legs[l] = "pending"
    BY <1>4, ResolveFacts
  <2>3. DOMAIN run'[p].legs = Needed(commit[p][HeadOf(p)].content)
    <3> DEFINE L == Needed(commit[p][HeadOf(p)].content)
    <3>1. run' = [run EXCEPT ![p].at = "legs", ![p].sha = HeadOf(p), ![p].legs = [l \in L |-> "pending"]]
      BY <1>4, <2>1 DEF Resolve
    <3> HIDE DEF L
    <3>2. run'[p].legs = [l \in L |-> "pending"]
      BY <1>0, <3>1 DEF Runs
    <3> QED
      BY <3>2 DEF L
  <2>4. GreenEarned(p)'
    <3>1. commit' = commit /\ meta' = meta /\ vouched' = vouched
      OBVIOUS
    <3>2. \A c : Passed(p, c) => Passed(p, c)'
      BY <3>1 DEF Passed
    <3> QED
      BY <1>0, <2>1, <2>2, <2>3, <3>1, <3>2 DEF GreenEarned
  <2> QED
    BY <1>2, <2>2, <2>4, RunMovesOn
<1>5. CASE Finalize(p) /\ ~\E conclusion : Ends(p, conclusion)
  <2> DEFINE S == {run[p].legs[l] : l \in DOMAIN run[p].legs}
  <2>1. /\ run[p].at = "legs" /\ S \in SUBSET (Outcomes \cup {"skipped"})
        /\ run' = [run EXCEPT ![p] = run'[p]] /\ run'[p].at = "publish"
        /\ run'[p].sha = run[p].sha /\ run'[p].outcome = Combine(S)
    BY <1>5, FinalizeFacts
  <2>2. ASSUME Combine(S) = "approve" PROVE Passed(p, run[p].sha)
    <3>1. \A o \in S : o = "approve"
      BY <2>1, <2>2, CombineApproves
    <3>2. \A l \in DOMAIN run[p].legs : l \in vouched[p][run[p].sha]
      BY <1>0, <2>1, <3>1 DEF GreenEarned
    <3>3. Eligible(meta[p]) /\ DOMAIN run[p].legs = Needed(commit[p][run[p].sha].content)
      BY <1>0, <2>1 DEF GreenEarned
    <3> QED
      BY <3>2, <3>3 DEF Passed
  <2> HIDE DEF S
  <2>3. GreenEarned(p)'
    <3>1. \A c : Passed(p, c) => Passed(p, c)'
      BY DEF Passed
    <3> QED
      BY <1>0, <2>1, <2>2, <3>1 DEF GreenEarned
  <2> QED
    BY <1>2, <2>1, <2>3, RunMovesOn
<1> QED
  BY <1>1, <1>3, <1>4, <1>5

LEMMA GreenPublish ==
  ASSUME TypeOK, GreenInv, NEW p \in PRs, Publish(p) PROVE GreenInv'
<1> DEFINE c == run[p].sha
           record == commit[p][c]
<1>1. /\ run[p].at = "publish" /\ c \in DOMAIN commit[p]
      /\ commit \in [PRs -> Seq(Commits)] /\ run \in [PRs -> Runs] /\ GreenEarned(p)
      /\ meta' = meta /\ vouched' = vouched
  <2>1. run[p].at = "publish" /\ c \in DOMAIN commit[p]
    BY PublishFacts
  <2>2. meta' = meta /\ vouched' = vouched
    BY DEF Publish
  <2> QED
    BY <2>1, <2>2 DEF TypeOK, Shape, GreenInv
<1>2. record \in Commits
  BY <1>1
<1>3. /\ commit'[p][c].outcome = run[p].outcome /\ commit'[p][c].content = record.content
      /\ commit'[p][c].required = Checked(run[p].outcome, record.required)
  <2> DEFINE new == [record EXCEPT !.outcome = run[p].outcome, !.reviewed = FALSE,
                                   !.required = Checked(run[p].outcome, record.required)]
  <2>1. commit' = [commit EXCEPT ![p] = [commit[p] EXCEPT ![c] = new]]
    BY DEF Publish
  <2>2. /\ new.outcome = run[p].outcome /\ new.content = record.content
        /\ new.required = Checked(run[p].outcome, record.required)
    BY <1>2 DEF Commits
  <2> HIDE DEF new
  <2>3. commit'[p] = [commit[p] EXCEPT ![c] = new]
    BY <1>1, <2>1
  <2>4. commit'[p][c] = new
    BY <1>1, <2>3
  <2> QED
    BY <2>2, <2>4
<1>4. \A q \in PRs : /\ Len(commit'[q]) = Len(commit[q])
                     /\ \A d \in DOMAIN commit[q] : q # p \/ d # c => commit'[q][d] = commit[q][d]
  BY PublishFacts
<1>5. commit' \in [PRs -> Seq(Commits)]
  BY PublishFacts
<1>6. \A q \in PRs : DOMAIN commit'[q] = DOMAIN commit[q]
  BY <1>1, <1>4, <1>5
<1>7. run'[p].at \in {"idle", "merge"} /\ \A q \in PRs \ {p} : run'[q] = run[q]
  <2>1. CASE Ends(p, "failure")
    BY <2>1, EndsFacts
  <2>2. CASE ~Ends(p, "failure")
    <3>1. run' = [run EXCEPT ![p] = run'[p]] /\ run'[p].at = "merge"
      BY <2>2, PublishFacts
    <3> QED
      BY <1>1, <3>1
  <2> QED
    BY <2>1, <2>2
<1>8. ASSUME NEW q \in PRs, q # p PROVE GreenEarned(q)'
  BY <1>1, <1>4, <1>6, <1>7, <1>8, EarnedFrame DEF GreenInv
<1>9. GreenEarned(p)'
  <2>1. \A d \in DOMAIN commit[p] : commit'[p][d].content = commit[p][d].content
    BY <1>3, <1>4
  <2>2. \A d \in DOMAIN commit[p] : Passed(p, d) => Passed(p, d)'
    BY <1>1, <2>1, PassedKept
  <2>3. ASSUME NEW d \in DOMAIN commit'[p],
               commit'[p][d].required = "success" \/ commit'[p][d].outcome = "approve"
        PROVE  Passed(p, d)
    <3>1. CASE d # c
      BY <1>1, <1>4, <1>6, <2>3, <3>1 DEF GreenEarned
    <3>2. CASE d = c /\ run[p].outcome = "approve"
      BY <1>1, <3>2 DEF GreenEarned
    <3>3. CASE d = c /\ run[p].outcome # "approve"
      <4>1. record.required = "success"
        BY <1>3, <2>3, <3>3 DEF Checked
      <4> QED
        BY <1>1, <3>3, <4>1 DEF GreenEarned
    <3> QED
      BY <3>1, <3>2, <3>3
  <2> QED
    BY <1>6, <1>7, <2>2, <2>3 DEF GreenEarned
<1> QED
  BY <1>8, <1>9 DEF GreenInv

LEMMA GreenLeg ==
  ASSUME TypeOK, GreenInv, NEW p \in PRs, NEW l \in Legs, Leg(p, l) PROVE GreenInv'
<1>1. /\ commit' = commit /\ meta' = meta /\ GreenEarned(p) /\ run \in [PRs -> Runs]
      /\ Linked(commit[p], vouched[p], branch[p], run[p])
  BY DEF Leg, GreenInv, TypeOK, Shape
<1>2. /\ run[p].at = "legs" /\ run' = [run EXCEPT ![p] = run'[p]] /\ run'[p].at = "legs"
      /\ run'[p].sha = run[p].sha /\ DOMAIN run'[p].legs = DOMAIN run[p].legs
      /\ \A k \in DOMAIN run[p].legs : k # l => run'[p].legs[k] = run[p].legs[k]
  BY LegFacts
<1>3. /\ \A q \in PRs : \A c \in DOMAIN commit[q] : vouched[q][c] \subseteq vouched'[q][c]
      /\ run'[p].legs[l] = "approve" => l \in vouched'[p][run[p].sha]
  BY <1>1, LegVouches
<1>4. run[p].sha \in DOMAIN commit[p]
  BY <1>1, <1>2 DEF Linked
<1>5. ASSUME NEW q \in PRs \ {p} PROVE GreenEarned(q)'
  <2>1. run'[q] = run[q]
    BY <1>1, <1>2
  <2> QED
    BY <1>1, <1>3, <2>1, EarnedFrame DEF GreenInv
<1>6. GreenEarned(p)'
  <2>1. \A c \in DOMAIN commit[p] : Passed(p, c) => Passed(p, c)'
    BY <1>1, <1>3, PassedKept
  <2>2. \A k \in DOMAIN run[p].legs :
          run'[p].legs[k] = "approve" => k \in vouched'[p][run[p].sha]
    BY <1>1, <1>2, <1>3, <1>4 DEF GreenEarned
  <2> QED
    BY <1>1, <1>2, <2>1, <2>2 DEF GreenEarned
<1> QED
  BY <1>5, <1>6 DEF GreenInv

LEMMA GreenStep == TypeOK /\ GreenInv /\ [Next]_vars => GreenInv'
<1> SUFFICES ASSUME TypeOK, GreenInv, [Next]_vars PROVE GreenInv'
  OBVIOUS
<1>1. CASE UNCHANGED <<meta, commit, vouched, run>>
  BY <1>1 DEF GreenInv, GreenEarned, Passed
<1>2. CASE Clear
  <2>1. UNCHANGED <<meta, commit, vouched>>
    BY <1>2 DEF Clear
  <2> QED
    BY <1>2, <2>1, ClearFacts, EarnedFrame DEF GreenInv
<1>3. ASSUME NEW p \in PRs, Push(p) PROVE GreenInv'
  <2>1. meta' = meta /\ run' = run
    BY <1>3 DEF Push
  <2>2. ASSUME NEW q \in PRs
        PROVE  /\ \A c \in DOMAIN commit[q] : vouched[q][c] \subseteq vouched'[q][c]
               /\ \A c \in DOMAIN commit'[q] \ DOMAIN commit[q] :
                    commit'[q][c].required = "unset" /\ commit'[q][c].outcome = "none"
    <3>1. PICK new \in Contents[p] :
            commit' = [commit EXCEPT ![p] = Append(@, Fresh(new))]
      BY <1>3 DEF Push
    <3>2. vouched' = [vouched EXCEPT ![p] = Append(@, {})]
      BY <1>3 DEF Push
    <3>3. /\ commit[q] \in Seq(Commits) /\ vouched[q] \in Seq(SUBSET Legs)
          /\ Len(vouched[q]) = Len(commit[q])
      BY DEF TypeOK, Shape, Linked
    <3>4. /\ commit'[q] \in {commit[q], Append(commit[q], Fresh(new))}
          /\ vouched'[q] \in {vouched[q], Append(vouched[q], {})}
      BY <3>1, <3>2 DEF TypeOK, Shape
    <3>5. /\ Fresh(new).required = "unset" /\ Fresh(new).outcome = "none"
          /\ Fresh(new) \in Commits
      BY DEF Fresh, Commits
    <3> DEFINE more == Append(commit[q], Fresh(new))
               vouches == Append(vouched[q], {})
    <3> HIDE DEF Fresh
    <3>6. /\ DOMAIN commit[q] = 1 .. Len(commit[q]) /\ DOMAIN more = 1 .. Len(commit[q]) + 1
          /\ more[Len(commit[q]) + 1] = Fresh(new) /\ Len(commit[q]) \in Nat
      BY <3>3, <3>5
    <3>7. \A c \in DOMAIN commit[q] : vouches[c] = vouched[q][c]
      BY <3>3
    <3>8. \A c \in DOMAIN more \ DOMAIN commit[q] : more[c] = Fresh(new)
      BY <3>6
    <3> HIDE DEF more, vouches
    <3>9. \A c \in DOMAIN commit[q] : vouched[q][c] \subseteq vouched'[q][c]
      BY <3>4, <3>7 DEF vouches
    <3>10. \A c \in DOMAIN commit'[q] \ DOMAIN commit[q] : commit'[q][c] = Fresh(new)
      BY <3>4, <3>8 DEF more
    <3> QED
      BY <3>5, <3>9, <3>10
  <2> QED
    BY <1>3, <2>1, <2>2, PushFacts, EarnedFrame DEF GreenInv
<1>4. ASSUME NEW p \in PRs, Review(p) PROVE GreenInv'
  <2>1. meta' = meta /\ run' = run /\ vouched' = vouched
    BY <1>4 DEF Review
  <2>2. ASSUME NEW q \in PRs, NEW c \in DOMAIN commit[q]
        PROVE  commit'[q][c].content = commit[q][c].content
    <3>1. commit[q][c] \in Commits
      BY DEF TypeOK, Shape
    <3>2. commit'[q][c] \in {commit[q][c],
                             [commit[q][c] EXCEPT !.reviewed = (commit[q][c].outcome # "none")]}
      BY <1>4 DEF Review, TypeOK, Shape
    <3> QED
      BY <3>1, <3>2 DEF Commits
  <2>3. \A q \in PRs : DOMAIN commit'[q] = DOMAIN commit[q]
    BY <1>4, ReviewFacts DEF TypeOK, Shape
  <2> QED
    BY <1>4, <2>1, <2>2, <2>3, ReviewFacts, EarnedFrame DEF GreenInv
<1>5. ASSUME NEW p \in PRs, Finalize(p) PROVE UNCHANGED <<meta, commit, vouched>>
  <2>1. UNCHANGED <<meta, commit, line, branch, auto, used, vouched, refused, restored>>
    BY <1>5, Zenon DEF Finalize
  <2> QED
    BY <2>1
<1>6. ASSUME NEW p \in PRs, Request(p) \/ Resolve(p) \/ Finalize(p) PROVE GreenInv'
  <2>1. UNCHANGED <<meta, commit, vouched>>
    BY <1>5, <1>6 DEF Request, Resolve
  <2> QED
    BY <1>6, <2>1, GreenRuns
<1>7. ASSUME NEW p \in PRs, Merge(p) \/ Fail(p) PROVE GreenInv'
  BY <1>7, GreenRuns DEF Merge, Fail
<1> QED
  BY <1>1, <1>2, <1>3, <1>4, <1>6, <1>7, GreenPublish, GreenLeg
     DEF Next, vars, Reset, AutoMerge
-----------------------------------------------------------------------------
\* That the streak is capped.  Only the records before a commit matter to the run that
\* judges it, for nothing after it in the branch has a record; and a run that is to publish
\* found room for one more record before the commit, or a review that left none to count.

\* A run that is to publish, or may come to.
Votes(r) ==
  r.at = "publish" \/ (r.at = "legs" /\ \E l \in DOMAIN r.legs : r.legs[l] \in Outcomes)

\* There is room for one more record where the i-th commit is.
Room(made, shas, i) == Cardinality(Unreviewed(made, shas, i - 1)) < PRNonApproveLimit

\* The branch is in the order in which its commits were made.
Ordered(shas) == \A i, j \in DOMAIN shas : i < j => shas[i] < shas[j]

\* What comes after the commit judged has no record.
Newest(made, shas, r) ==
  r.at \in {"legs", "publish"} =>
    \A i, j \in DOMAIN shas : shas[i] = r.sha /\ i < j => made[shas[j]].outcome = "none"

\* A review is of all the records before it.
ReviewsAll(made, shas) ==
  \A i, j \in DOMAIN shas :
    /\ i < j /\ made[shas[i]].outcome # "none"
    /\ made[shas[j]].outcome # "none" /\ made[shas[j]].reviewed
    => made[shas[i]].reviewed

\* Every record was made where there was room, so that it may turn indeterminate later.
RoomMade(made, shas) ==
  \A i \in DOMAIN shas :
    made[shas[i]].outcome # "none" /\ ~made[shas[i]].reviewed => Room(made, shas, i)

\* Wherever a forced push may lead back to, the streak is capped.
CappedBack(made, shas) ==
  \A n \in 0 .. Len(shas) : Cardinality(Unreviewed(made, shas, n)) <= PRNonApproveLimit

\* There is still room for what the run is to publish.
RoomKept(made, shas, r) ==
  Votes(r) => \A i \in DOMAIN shas : shas[i] = r.sha => Room(made, shas, i)

Capped(made, shas, r) ==
  /\ Ordered(shas) /\ Newest(made, shas, r) /\ ReviewsAll(made, shas)
  /\ RoomMade(made, shas) /\ CappedBack(made, shas) /\ RoomKept(made, shas, r)

StreakInv == \A p \in PRs \ restored : Capped(commit[p], branch[p], run[p])

\* There are no more of them than commits.
LEMMA UnreviewedFinite ==
  ASSUME NEW made, NEW shas, NEW n \in Int
  PROVE  /\ IsFiniteSet(Unreviewed(made, shas, n))
         /\ Cardinality(Unreviewed(made, shas, n)) \in Nat
<1>1. IsFiniteSet(1 .. n)
  BY FS_Interval
<1>2. Unreviewed(made, shas, n) \subseteq 1 .. n
  BY DEF Unreviewed
<1> QED
  BY <1>1, <1>2, FS_Subset, FS_CardinalityType

\* They are counted from the records of the first commits alone.
LEMMA UnreviewedFrame ==
  ASSUME NEW made, NEW shas, NEW later, NEW tips, NEW n \in Int,
         \A k \in 1 .. n : /\ later[tips[k]].outcome = made[shas[k]].outcome
                           /\ later[tips[k]].reviewed = made[shas[k]].reviewed
  PROVE  Unreviewed(later, tips, n) = Unreviewed(made, shas, n)
<1>1. ASSUME NEW i \in 1 .. n, NEW j \in i .. n PROVE j \in 1 .. n
  OBVIOUS
<1>2. ASSUME NEW i \in 1 .. n
      PROVE  (\A j \in i .. n : later[tips[j]].outcome # "approve")
               <=> (\A j \in i .. n : made[shas[j]].outcome # "approve")
  BY <1>1
<1> QED
  BY <1>2 DEF Unreviewed

\* A branch that has nothing to count has room.
LEMMA NoneIsRoom ==
  ASSUME NEW made, NEW shas, NEW n, Unreviewed(made, shas, n) = {}
  PROVE  Cardinality(Unreviewed(made, shas, n)) < PRNonApproveLimit
BY FS_EmptySet, VerdictGateAssumption

\* The streak is capped where there is one.
LEMMA CappedStreak ==
  ASSUME TypeOK, StreakInv PROVE StreakIsCapped
<1> SUFFICES ASSUME NEW p \in PRs \ restored
             PROVE  Cardinality(Unreviewed(commit[p], branch[p], Len(branch[p]))) <= PRNonApproveLimit
  BY DEF StreakIsCapped
<1>1. branch[p] \in Seq(Nat)
  BY DEF TypeOK, Shape
<1>2. Len(branch[p]) \in 0 .. Len(branch[p])
  BY <1>1
<1>3. CappedBack(commit[p], branch[p])
  BY DEF StreakInv, Capped
<1> QED
  BY <1>2, <1>3 DEF CappedBack

LEMMA InitStreak == Init => StreakInv
<1> SUFFICES ASSUME Init, NEW p \in PRs PROVE Capped(commit[p], branch[p], run[p])
  BY DEF StreakInv
<1>1. branch[p] = <<1>> /\ Len(branch[p]) = 1 /\ DOMAIN branch[p] = {1} /\ branch[p][1] = 1
  BY DEF Init
<1>2. commit[p][1].outcome = "none"
  BY DEF Init, Fresh
<1>3. run[p].at = "idle"
  BY DEF Init, Idle
<1>4. \A n \in 0 .. 1 : Unreviewed(commit[p], branch[p], n) = {}
  BY <1>1, <1>2 DEF Unreviewed
<1>5. CappedBack(commit[p], branch[p])
  <2>1. ASSUME NEW n \in 0 .. 1
        PROVE  Cardinality(Unreviewed(commit[p], branch[p], n)) <= PRNonApproveLimit
    <3>1. n \in Int
      OBVIOUS
    <3> QED
      BY <1>4, <3>1, NoneIsRoom, UnreviewedFinite, VerdictGateAssumption
  <2> QED
    BY <1>1, <2>1 DEF CappedBack
<1>6. Ordered(branch[p])
  BY <1>1 DEF Ordered
<1>7. Newest(commit[p], branch[p], run[p]) /\ RoomKept(commit[p], branch[p], run[p])
  BY <1>3 DEF Newest, RoomKept, Votes
<1>8. ReviewsAll(commit[p], branch[p]) /\ RoomMade(commit[p], branch[p])
  BY <1>1, <1>2 DEF ReviewsAll, RoomMade
<1> QED
  BY <1>5, <1>6, <1>7, <1>8 DEF Capped

\* A step of the run that leaves the records and the branch.
LEMMA StreakRunMoves ==
  ASSUME TypeOK, StreakInv, NEW p \in PRs, p \notin restored, restored' = restored,
         commit' = commit, branch' = branch, \A q \in PRs \ {p} : run'[q] = run[q],
         Newest(commit[p], branch[p], run'[p]), RoomKept(commit[p], branch[p], run'[p])
  PROVE  StreakInv'
<1>1. ASSUME NEW q \in PRs \ restored PROVE Capped(commit'[q], branch'[q], run'[q])
  <2>1. Capped(commit[q], branch[q], run[q])
    BY DEF StreakInv
  <2>2. CASE q = p
    BY <2>1, <2>2 DEF Capped
  <2>3. CASE q # p
    BY <2>1, <2>3
  <2> QED
    BY <2>2, <2>3
<1> QED
  BY <1>1 DEF StreakInv

\* Of a run that is over nothing is asked.
LEMMA StreakRunEnds ==
  ASSUME TypeOK, StreakInv, NEW p \in PRs, p \notin restored, restored' = restored,
         commit' = commit, branch' = branch, \A q \in PRs \ {p} : run'[q] = run[q],
         run'[p].at \notin {"legs", "publish"}
  PROVE  StreakInv'
<1>1. Newest(commit[p], branch[p], run'[p]) /\ RoomKept(commit[p], branch[p], run'[p])
  BY DEF Newest, RoomKept, Votes
<1> QED
  BY <1>1, StreakRunMoves

LEMMA StreakEnds ==
  ASSUME TypeOK, StreakInv, NEW p \in PRs, p \notin restored, restored' = restored,
         NEW conclusion, Ends(p, conclusion), commit' = commit, branch' = branch
  PROVE  StreakInv'
BY EndsFacts, StreakRunEnds

\* A leg is asked of a commit without a record only if the streak leaves room, or the owner
\* reviewed after the newest record of the others.
LEMMA LegAsks ==
  ASSUME TypeOK, NEW p \in PRs, NEW l \in Legs, Leg(p, l),
         commit[p][run[p].sha].outcome = "none", run'[p].legs[l] \in Outcomes
  PROVE  \/ Streak(p, run[p].sha) < PRNonApproveLimit
         \/ \E i \in Recorded(p, run[p].sha) :
              Record(p, i).reviewed /\ \A j \in Recorded(p, run[p].sha) : j <= i
<1> DEFINE c == run[p].sha
           record == commit[p][c]
           h == History(p, c)
<1>1. PICK v \in Verdicts :
        run' = [run EXCEPT ![p].legs[l] = LegOutcome(h, limits, Judgement(v, record.content))]
  BY DEF Leg
<1> DEFINE o == LegOutcome(h, limits, Judgement(v, record.content))
<1>2. run' = [run EXCEPT ![p] = [run[p] EXCEPT !.legs = [run[p].legs EXCEPT ![l] = o]]]
  <2>1. run' = [run EXCEPT ![p].legs[l] = o]
    BY <1>1
  <2> HIDE DEF o
  <2> QED
    BY <2>1, Zenon
<1>3. run[p] \in Runs /\ l \in DOMAIN run[p].legs
  BY DEF TypeOK, Shape, Leg
<1>4. run'[p].legs[l] = o
  <2> HIDE DEF o
  <2>1. run'[p] = [run[p] EXCEPT !.legs = [run[p].legs EXCEPT ![l] = o]]
    BY <1>2 DEF TypeOK, Shape
  <2>2. run'[p].legs = [run[p].legs EXCEPT ![l] = o]
    BY <1>3, <2>1 DEF Runs
  <2> QED
    BY <1>3, <2>2
<1>5. h.shaOutcomeRecorded = FALSE
  BY DEF History
<1>6. h.prNonApproveStreak = Streak(p, c)
  BY DEF History
<1>7. h.prIntervention = \E i \in Recorded(p, c) :
                           Record(p, i).reviewed /\ \A j \in Recorded(p, c) : j <= i
  BY DEF History
<1>8. limits.prNonApprove = PRNonApproveLimit
  BY DEF limits
<1> HIDE DEF h
<1>9. o \in Outcomes
  BY <1>4
<1>10. "skipped" \notin Outcomes
  BY DEF Outcomes
<1>11. ShouldProduceVerdict(h, limits).produce
  BY <1>5, <1>9, <1>10 DEF LegOutcome
<1>12. h.prNonApproveStreak < limits.prNonApprove \/ h.prIntervention
  BY <1>5, <1>11 DEF ShouldProduceVerdict
<1> QED
  BY <1>6, <1>7, <1>8, <1>12

\* What counts before the commit judged is part of the streak the gate reads.
LEMMA StreakCovers ==
  ASSUME TypeOK, NEW p \in PRs, NEW i \in DOMAIN branch[p],
         Ordered(branch[p]),
         \A j \in DOMAIN branch[p] : i < j => commit[p][branch[p][j]].outcome = "none"
  PROVE  /\ Unreviewed(commit[p], branch[p], i - 1) \subseteq Recorded(p, branch[p][i])
         /\ Cardinality(Unreviewed(commit[p], branch[p], i - 1)) <= Streak(p, branch[p][i])
         /\ Streak(p, branch[p][i]) \in Nat
<1> DEFINE c == branch[p][i]
           U == Unreviewed(commit[p], branch[p], i - 1)
           R == Recorded(p, c)
           S == {k \in R : \A j \in R : Record(p, j).outcome = "approve" => k > j}
<1>1. /\ branch[p] \in Seq(Nat) /\ Len(branch[p]) \in Nat
      /\ DOMAIN branch[p] = 1 .. Len(branch[p]) /\ i \in Nat /\ i <= Len(branch[p])
  BY DEF TypeOK, Shape
<1>2. \A k \in DOMAIN branch[p] : branch[p][k] \in Nat
  BY <1>1
<1>3. \A k \in 1 .. i - 1 : k \in DOMAIN branch[p] /\ k < i
  BY <1>1
<1>4. \A k \in 1 .. i - 1 : branch[p][k] < c
  BY <1>3 DEF Ordered
<1>5. \A k \in 1 .. i - 1 : branch[p][k] # c
  BY <1>2, <1>3, <1>4
<1>6. U \subseteq R
  BY <1>3, <1>5 DEF Unreviewed, Recorded, Record
<1>7. ASSUME NEW k \in U, NEW j \in R, Record(p, j).outcome = "approve" PROVE k > j
  <2>1. j \in 1 .. Len(branch[p]) /\ branch[p][j] # c /\ commit[p][branch[p][j]].outcome # "none"
    BY <1>1 DEF Recorded, Record
  <2>2. ~(i < j)
    BY <1>1, <2>1
  <2>3. j # i
    BY <2>1
  <2>4. j \in Nat /\ j <= i - 1
    BY <1>1, <2>1, <2>2, <2>3
  <2>5. k \in 1 .. i - 1 /\ \A m \in k .. i - 1 : commit[p][branch[p][m]].outcome # "approve"
    BY DEF Unreviewed
  <2>6. j \notin k .. i - 1
    BY <1>7, <2>5 DEF Record
  <2> QED
    BY <1>1, <2>4, <2>5, <2>6
<1>8. U \subseteq S
  BY <1>6, <1>7
<1>9. IsFiniteSet(S)
  <2>1. S \subseteq 1 .. Len(branch[p])
    BY <1>1 DEF Recorded
  <2>2. IsFiniteSet(1 .. Len(branch[p]))
    BY <1>1, FS_Interval
  <2> QED
    BY <2>1, <2>2, FS_Subset
<1>10. Streak(p, c) = Cardinality(S)
  BY DEF Streak
<1> HIDE DEF S, U, R
<1>11. Cardinality(U) <= Cardinality(S) /\ Cardinality(S) \in Nat
  BY <1>8, <1>9, FS_Subset, FS_CardinalityType
<1> QED
  BY <1>6, <1>10, <1>11 DEF U, R

\* What a review was made of does not count.
LEMMA ReviewedBefore ==
  ASSUME TypeOK, NEW p \in PRs, NEW i \in DOMAIN branch[p], NEW n \in DOMAIN branch[p],
         ReviewsAll(commit[p], branch[p]), n <= i,
         commit[p][branch[p][n]].outcome # "none", commit[p][branch[p][n]].reviewed,
         \A j \in n + 1 .. i - 1 : commit[p][branch[p][j]].outcome = "none"
  PROVE  Unreviewed(commit[p], branch[p], i - 1) = {}
<1>1. /\ branch[p] \in Seq(Nat) /\ Len(branch[p]) \in Nat
      /\ DOMAIN branch[p] = 1 .. Len(branch[p]) /\ i \in Nat /\ n \in Nat /\ i <= Len(branch[p])
  BY DEF TypeOK, Shape
<1>2. ASSUME NEW k \in 1 .. i - 1,
             commit[p][branch[p][k]].outcome # "none", ~commit[p][branch[p][k]].reviewed
      PROVE  FALSE
  <2>1. k \in DOMAIN branch[p]
    BY <1>1
  <2>2. ~(k < n)
    BY <1>2, <2>1 DEF ReviewsAll
  <2>3. k # n
    BY <1>2
  <2>4. k \in n + 1 .. i - 1
    BY <1>1, <2>2, <2>3
  <2> QED
    BY <1>2, <2>4
<1> QED
  BY <1>2 DEF Unreviewed

\* A leg that has an outcome found room for it, or repeats a record that had room.
LEMMA StreakLeg ==
  ASSUME TypeOK, StreakInv, NEW p \in PRs, p \notin restored, NEW l \in Legs, Leg(p, l)
  PROVE  StreakInv'
<1> DEFINE c == run[p].sha
           record == commit[p][c]
<1>1. /\ run[p].at = "legs" /\ l \in DOMAIN run[p].legs
      /\ run' = [run EXCEPT ![p] = run'[p]] /\ run'[p].at = "legs" /\ run'[p].sha = c
      /\ DOMAIN run'[p].legs = DOMAIN run[p].legs
      /\ \A k \in DOMAIN run[p].legs : k # l => run'[p].legs[k] = run[p].legs[k]
  BY LegFacts
<1>2. commit' = commit /\ branch' = branch /\ restored' = restored
  BY DEF Leg
<1>3. \A q \in PRs \ {p} : run'[q] = run[q]
  BY <1>1 DEF TypeOK, Shape
<1>4. /\ Ordered(branch[p]) /\ Newest(commit[p], branch[p], run[p])
      /\ ReviewsAll(commit[p], branch[p]) /\ RoomMade(commit[p], branch[p])
      /\ RoomKept(commit[p], branch[p], run[p])
  BY DEF StreakInv, Capped
<1>5. Newest(commit[p], branch[p], run'[p])
  BY <1>1, <1>4 DEF Newest
<1>6. ASSUME Votes(run'[p]), NEW i \in DOMAIN branch[p], branch[p][i] = c
      PROVE  Room(commit[p], branch[p], i)
  <2>1. \A j \in DOMAIN branch[p] : i < j => commit[p][branch[p][j]].outcome = "none"
    BY <1>1, <1>4, <1>6 DEF Newest
  <2>2. /\ branch[p] \in Seq(Nat) /\ Len(branch[p]) \in Nat
        /\ DOMAIN branch[p] = 1 .. Len(branch[p]) /\ i \in Nat
    BY DEF TypeOK, Shape
  <2>3. CASE Votes(run[p])
    BY <1>4, <1>6, <2>3 DEF RoomKept
  <2>4. CASE ~Votes(run[p])
    <3>1. PICK k \in DOMAIN run[p].legs : run'[p].legs[k] \in Outcomes
      BY <1>1, <1>6 DEF Votes
    <3>2. run'[p].legs[l] \in Outcomes
      BY <1>1, <2>4, <3>1 DEF Votes
    <3>3. CASE record.outcome # "none" /\ ~record.reviewed
      BY <1>4, <1>6, <3>3 DEF RoomMade
    <3>4. CASE record.outcome # "none" /\ record.reviewed
      <4>1. \A j \in i + 1 .. i - 1 : FALSE
        BY <2>2
      <4>2. i <= i
        BY <2>2
      <4>3. Unreviewed(commit[p], branch[p], i - 1) = {}
        BY <1>4, <1>6, <3>4, <4>1, <4>2, ReviewedBefore
      <4> QED
        BY <4>3, NoneIsRoom DEF Room
    <3>5. CASE record.outcome = "none"
      <4>1. /\ Unreviewed(commit[p], branch[p], i - 1) \subseteq Recorded(p, c)
            /\ Cardinality(Unreviewed(commit[p], branch[p], i - 1)) <= Streak(p, c)
            /\ Streak(p, c) \in Nat
        BY <1>4, <1>6, <2>1, StreakCovers
      <4>2. CASE Streak(p, c) < PRNonApproveLimit
        <5>1. Cardinality(Unreviewed(commit[p], branch[p], i - 1)) \in Nat
          BY <2>2, UnreviewedFinite
        <5>2. PRNonApproveLimit \in Nat
          BY VerdictGateAssumption
        <5> QED
          BY <4>1, <4>2, <5>1, <5>2 DEF Room
      <4>3. ASSUME NEW n \in Recorded(p, c), Record(p, n).reviewed,
                   \A j \in Recorded(p, c) : j <= n
            PROVE  Room(commit[p], branch[p], i)
        <5>1. /\ n \in DOMAIN branch[p] /\ branch[p][n] # c
              /\ commit[p][branch[p][n]].outcome # "none" /\ commit[p][branch[p][n]].reviewed
          BY <4>3 DEF Recorded, Record
        <5>2. n \in 1 .. Len(branch[p])
          BY <2>2, <5>1
        <5>3. ~(i < n)
          BY <2>1, <5>1
        <5>4. n <= i
          BY <2>2, <5>2, <5>3
        <5>5. ASSUME NEW m \in Unreviewed(commit[p], branch[p], i - 1) PROVE FALSE
          <6>1. m \in Recorded(p, c)
            BY <4>1
          <6>2. m <= n /\ m \in DOMAIN branch[p] /\ m \in Nat
            BY <2>2, <4>3, <6>1 DEF Recorded
          <6>3. commit[p][branch[p][m]].outcome # "none" /\ ~commit[p][branch[p][m]].reviewed
            BY DEF Unreviewed
          <6>4. m # n
            BY <5>1, <6>3
          <6>5. m < n
            BY <5>2, <6>2, <6>4
          <6> QED
            BY <1>4, <5>1, <6>2, <6>3, <6>5 DEF ReviewsAll
        <5>6. Unreviewed(commit[p], branch[p], i - 1) = {}
          BY <5>5
        <5> QED
          BY <5>6, NoneIsRoom DEF Room
      <4> QED
        BY <3>2, <3>5, <4>2, <4>3, LegAsks
    <3> QED
      BY <3>3, <3>4, <3>5
  <2> QED
    BY <2>3, <2>4
<1>7. RoomKept(commit[p], branch[p], run'[p])
  BY <1>1, <1>6 DEF RoomKept
<1> QED
  BY <1>2, <1>3, <1>5, <1>7, StreakRunMoves

\* resolve takes the head, after which nothing comes; and finalize publishes an outcome only
\* if a leg has one.
LEMMA StreakRuns ==
  ASSUME TypeOK, StreakInv, NEW p \in PRs, p \notin restored, Resolve(p) \/ Finalize(p)
  PROVE  StreakInv'
<1>1. commit' = commit /\ branch' = branch /\ restored' = restored
  <2>1. UNCHANGED <<meta, commit, line, branch, auto, used, vouched, refused, restored>>
    BY Zenon DEF Resolve, Finalize
  <2> QED
    BY <2>1
<1>2. CASE \E conclusion : Ends(p, conclusion)
  BY <1>1, <1>2, StreakEnds
<1>3. CASE Resolve(p) /\ ~\E conclusion : Ends(p, conclusion)
  <2>1. /\ run' = [run EXCEPT ![p] = run'[p]]
        /\ run'[p].at = "legs" /\ run'[p].sha = HeadOf(p)
        /\ \A l \in DOMAIN run'[p].legs : run'[p].legs[l] = "pending"
    BY <1>3, ResolveFacts
  <2>2. \A q \in PRs \ {p} : run'[q] = run[q]
    BY <2>1 DEF TypeOK, Shape
  <2>3. /\ branch[p] \in Seq(Nat) /\ branch[p] # <<>>
        /\ Len(branch[p]) \in Nat /\ DOMAIN branch[p] = 1 .. Len(branch[p])
    BY DEF TypeOK, Shape, Linked
  <2>4. Len(branch[p]) \in DOMAIN branch[p] /\ \A k \in DOMAIN branch[p] : branch[p][k] \in Nat
    BY <2>3
  <2>5. Ordered(branch[p])
    BY DEF StreakInv, Capped
  <2>6. ASSUME NEW i \in DOMAIN branch[p], NEW j \in DOMAIN branch[p],
               branch[p][i] = HeadOf(p), i < j
        PROVE  FALSE
    <3>1. i < Len(branch[p])
      BY <2>3, <2>6
    <3>2. branch[p][i] < branch[p][Len(branch[p])]
      BY <2>4, <2>5, <3>1 DEF Ordered
    <3> QED
      BY <2>4, <2>6, <3>2 DEF HeadOf
  <2>7. Newest(commit[p], branch[p], run'[p])
    BY <2>1, <2>6 DEF Newest
  <2>8. ~Votes(run'[p])
    BY <2>1 DEF Votes, Outcomes
  <2> QED
    BY <1>1, <2>2, <2>7, <2>8, StreakRunMoves DEF RoomKept
<1>4. CASE Finalize(p) /\ ~\E conclusion : Ends(p, conclusion)
  <2> DEFINE S == {run[p].legs[l] : l \in DOMAIN run[p].legs}
  <2>1. /\ run[p].at = "legs" /\ S \in SUBSET (Outcomes \cup {"skipped"})
        /\ Combine(S) \in Outcomes /\ run' = [run EXCEPT ![p] = run'[p]]
        /\ run'[p].at = "publish" /\ run'[p].sha = run[p].sha
    BY <1>4, FinalizeFacts
  <2>2. \A q \in PRs \ {p} : run'[q] = run[q]
    BY <2>1 DEF TypeOK, Shape
  <2>3. "skipped" \notin Outcomes
    BY DEF Outcomes
  <2>4. ~(S \subseteq {"skipped"})
    <3> HIDE DEF S
    <3>1. S \subseteq {"skipped"} => Combine(S) = "skipped"
      BY DEF Combine
    <3> QED
      BY <2>1, <2>3, <3>1
  <2>5. Votes(run[p])
    BY <2>1, <2>4 DEF Votes
  <2>6. Newest(commit[p], branch[p], run[p]) /\ RoomKept(commit[p], branch[p], run[p])
    BY DEF StreakInv, Capped
  <2>7. Newest(commit[p], branch[p], run'[p])
    BY <2>1, <2>6 DEF Newest
  <2>8. RoomKept(commit[p], branch[p], run'[p])
    BY <2>1, <2>5, <2>6 DEF RoomKept
  <2> QED
    BY <1>1, <2>2, <2>7, <2>8, StreakRunMoves
<1> QED
  BY <1>2, <1>3, <1>4

\* A step that touches one pull request alone, of which nothing is asked any more once it
\* was given back a commit.
LEMMA StreakFrame ==
  ASSUME StreakInv, NEW p \in PRs, restored \subseteq restored',
         \A q \in PRs \ {p} : commit'[q] = commit[q] /\ branch'[q] = branch[q] /\ run'[q] = run[q],
         p \notin restored' => Capped(commit'[p], branch'[p], run'[p])
  PROVE  StreakInv'
<1>1. ASSUME NEW q \in PRs \ restored' PROVE Capped(commit'[q], branch'[q], run'[q])
  <2>1. CASE q = p
    BY <2>1
  <2>2. CASE q # p
    <3>1. Capped(commit[q], branch[q], run[q])
      BY <1>1 DEF StreakInv
    <3> QED
      BY <2>2, <3>1
  <2> QED
    BY <2>1, <2>2
<1> QED
  BY <1>1 DEF StreakInv

\* A shorter or a longer branch, with the records of the first n commits the same and none
\* after them, is capped if the one it came from is.
LEMMA BranchMoves ==
  ASSUME NEW made, NEW shas, NEW later, NEW tips, NEW r, NEW n \in Nat,
         Len(shas) \in Nat, Len(tips) \in Nat, n <= Len(shas), n <= Len(tips),
         DOMAIN shas = 1 .. Len(shas), DOMAIN tips = 1 .. Len(tips),
         \A k \in 1 .. n : /\ tips[k] = shas[k]
                           /\ later[tips[k]].outcome = made[shas[k]].outcome
                           /\ later[tips[k]].reviewed = made[shas[k]].reviewed,
         \A k \in n + 1 .. Len(tips) : /\ later[tips[k]].outcome = "none"
                                       /\ r.at \in {"legs", "publish"} => tips[k] # r.sha,
         Ordered(tips), Capped(made, shas, r)
  PROVE  Capped(later, tips, r)
<1>1. /\ Newest(made, shas, r) /\ ReviewsAll(made, shas) /\ RoomMade(made, shas)
      /\ CappedBack(made, shas) /\ RoomKept(made, shas, r)
  BY DEF Capped
<1>2. \A k \in 1 .. n : k \in DOMAIN shas
  OBVIOUS
<1>3. \A k \in DOMAIN tips : later[tips[k]].outcome # "none" => k \in 1 .. n
  <2>1. ASSUME NEW k \in DOMAIN tips, k \notin 1 .. n PROVE k \in n + 1 .. Len(tips)
    BY <2>1
  <2> QED
    BY <2>1
<1>4. ASSUME NEW m \in 0 .. n PROVE Unreviewed(later, tips, m) = Unreviewed(made, shas, m)
  <2>1. \A k \in 1 .. m : k \in 1 .. n
    OBVIOUS
  <2>2. m \in Int
    OBVIOUS
  <2> QED
    BY <2>1, <2>2, UnreviewedFrame
<1>5. Newest(later, tips, r)
  <2> SUFFICES ASSUME r.at \in {"legs", "publish"}, NEW i \in DOMAIN tips, NEW j \in DOMAIN tips,
                      tips[i] = r.sha, i < j, later[tips[j]].outcome # "none"
               PROVE  FALSE
    BY DEF Newest
  <2>1. j \in 1 .. n
    BY <1>3
  <2>2. i \in 1 .. n
    BY <2>1
  <2>3. shas[i] = r.sha /\ made[shas[j]].outcome # "none"
    BY <2>1, <2>2
  <2> QED
    BY <1>1, <1>2, <2>1, <2>2, <2>3 DEF Newest
<1>6. ReviewsAll(later, tips)
  <2> SUFFICES ASSUME NEW i \in DOMAIN tips, NEW j \in DOMAIN tips, i < j,
                      later[tips[i]].outcome # "none", later[tips[j]].outcome # "none",
                      later[tips[j]].reviewed
               PROVE  later[tips[i]].reviewed
    BY DEF ReviewsAll
  <2>1. i \in 1 .. n /\ j \in 1 .. n
    BY <1>3
  <2>2. /\ made[shas[i]].outcome # "none" /\ made[shas[j]].outcome # "none"
        /\ made[shas[j]].reviewed
    BY <2>1
  <2>3. made[shas[i]].reviewed
    BY <1>1, <1>2, <2>1, <2>2 DEF ReviewsAll
  <2> QED
    BY <2>1, <2>3
<1>7. ASSUME NEW i \in 1 .. n, Room(made, shas, i) PROVE Room(later, tips, i)
  <2>1. i - 1 \in 0 .. n
    OBVIOUS
  <2> QED
    BY <1>4, <1>7, <2>1 DEF Room
<1>8. RoomMade(later, tips)
  <2> SUFFICES ASSUME NEW i \in DOMAIN tips,
                      later[tips[i]].outcome # "none", ~later[tips[i]].reviewed
               PROVE  Room(later, tips, i)
    BY DEF RoomMade
  <2>1. i \in 1 .. n
    BY <1>3
  <2>2. made[shas[i]].outcome # "none" /\ ~made[shas[i]].reviewed
    BY <2>1
  <2>3. Room(made, shas, i)
    BY <1>1, <1>2, <2>1, <2>2 DEF RoomMade
  <2> QED
    BY <1>7, <2>1, <2>3
<1>9. RoomKept(later, tips, r)
  <2> SUFFICES ASSUME Votes(r), NEW i \in DOMAIN tips, tips[i] = r.sha
               PROVE  Room(later, tips, i)
    BY DEF RoomKept
  <2>1. r.at \in {"legs", "publish"}
    BY DEF Votes
  <2>2. i \notin n + 1 .. Len(tips)
    BY <2>1
  <2>3. i \in 1 .. n
    BY <2>2
  <2>4. shas[i] = r.sha
    BY <2>3
  <2>5. Room(made, shas, i)
    BY <1>1, <1>2, <2>3, <2>4 DEF RoomKept
  <2> QED
    BY <1>7, <2>3, <2>5
<1>10. ASSUME NEW m \in 0 .. Len(tips)
       PROVE  Cardinality(Unreviewed(later, tips, m)) <= PRNonApproveLimit
  <2>1. CASE m <= n
    <3>1. m \in 0 .. n /\ m \in 0 .. Len(shas)
      BY <2>1
    <3>2. Cardinality(Unreviewed(made, shas, m)) <= PRNonApproveLimit
      BY <1>1, <3>1 DEF CappedBack
    <3> QED
      BY <1>4, <3>1, <3>2
  <2>2. CASE m > n
    <3>1. ASSUME NEW i \in Unreviewed(later, tips, m) PROVE i \in Unreviewed(later, tips, n)
      <4>1. /\ i \in 1 .. m /\ later[tips[i]].outcome # "none" /\ ~later[tips[i]].reviewed
            /\ \A j \in i .. m : later[tips[j]].outcome # "approve"
        BY DEF Unreviewed
      <4>2. i \in DOMAIN tips
        BY <4>1
      <4>3. i \in 1 .. n
        BY <1>3, <4>1, <4>2
      <4>4. \A j \in i .. n : j \in i .. m
        BY <2>2, <4>3
      <4> QED
        BY <4>1, <4>3, <4>4 DEF Unreviewed
    <3>2. n \in 0 .. n /\ n \in 0 .. Len(shas) /\ n \in Int /\ m \in Int
      OBVIOUS
    <3>3. Cardinality(Unreviewed(made, shas, n)) <= PRNonApproveLimit
      BY <1>1, <3>2 DEF CappedBack
    <3>4. Unreviewed(later, tips, m) \subseteq Unreviewed(later, tips, n)
      BY <3>1
    <3>5. IsFiniteSet(Unreviewed(later, tips, n))
      BY <3>2, UnreviewedFinite
    <3>6. Cardinality(Unreviewed(later, tips, m)) <= Cardinality(Unreviewed(later, tips, n))
      BY <3>4, <3>5, FS_Subset
    <3>7. /\ Cardinality(Unreviewed(later, tips, m)) \in Nat
          /\ Cardinality(Unreviewed(later, tips, n)) \in Nat
      BY <3>2, UnreviewedFinite
    <3>8. Cardinality(Unreviewed(later, tips, n)) <= PRNonApproveLimit
      BY <1>4, <3>2, <3>3
    <3> QED
      BY <3>6, <3>7, <3>8, VerdictGateAssumption
  <2> QED
    BY <2>1, <2>2
<1>11. CappedBack(later, tips)
  BY <1>10 DEF CappedBack
<1> QED
  BY <1>5, <1>6, <1>8, <1>9, <1>11 DEF Capped

\* A push adds a commit without a record, made after all the others, to some of the branch.
LEMMA StreakPush ==
  ASSUME TypeOK, StreakInv, NEW p \in PRs, p \notin restored, Push(p)
  PROVE  StreakInv'
<1> DEFINE made == commit[p]
           shas == branch[p]
<1>1. PICK c \in Contents[p], n \in 0 .. Len(branch[p]) :
        /\ commit' = [commit EXCEPT ![p] = Append(@, Fresh(c))]
        /\ branch' = [branch EXCEPT ![p] = Append(SubSeq(@, 1, n), Len(commit[p]) + 1)]
  BY DEF Push
<1> DEFINE kept == SubSeq(shas, 1, n)
<1>2. run' = run /\ restored' = restored
  BY DEF Push
<1>3. \A q \in PRs \ {p} : commit'[q] = commit[q] /\ branch'[q] = branch[q] /\ run'[q] = run[q]
  BY <1>1, <1>2 DEF TypeOK, Shape
<1>4. /\ made \in Seq(Commits) /\ shas \in Seq(Nat) /\ Len(made) \in Nat
      /\ Len(shas) \in Nat /\ DOMAIN shas = 1 .. Len(shas) /\ n \in Nat /\ n <= Len(shas)
  BY DEF TypeOK, Shape
<1>5. commit'[p] = Append(made, Fresh(c)) /\ branch'[p] = Append(kept, Len(made) + 1)
  BY <1>1 DEF TypeOK, Shape
<1>6. Fresh(c).outcome = "none" /\ Fresh(c) \in Commits
  BY DEF Fresh, Commits
<1>7. /\ \A k \in DOMAIN shas : shas[k] \in 1 .. Len(made)
      /\ run[p].at \in {"legs", "publish"} => run[p].sha \in 1 .. Len(made)
  <2>1. /\ \A k \in DOMAIN shas : shas[k] \in DOMAIN made
        /\ run[p].at \in {"legs", "publish"} => run[p].sha \in DOMAIN made
    BY DEF TypeOK, Linked
  <2>2. DOMAIN made = 1 .. Len(made)
    BY <1>4
  <2> QED
    BY <2>1, <2>2
<1> HIDE DEF Fresh
<1>8. /\ kept \in Seq(Nat) /\ Len(kept) = n
      /\ \A k \in 1 .. n : k \in DOMAIN shas /\ kept[k] = shas[k]
  BY <1>4, Prefix
<1> HIDE DEF kept
<1>9. /\ Len(branch'[p]) = n + 1 /\ DOMAIN branch'[p] = 1 .. n + 1
      /\ \A k \in 1 .. n : branch'[p][k] = kept[k]
      /\ branch'[p][n + 1] = Len(made) + 1
  BY <1>4, <1>5, <1>8
<1>10. /\ \A d \in 1 .. Len(made) : commit'[p][d] = made[d]
       /\ commit'[p][Len(made) + 1] = Fresh(c)
  BY <1>4, <1>5, <1>6
<1>11. Ordered(shas) /\ Capped(made, shas, run[p])
  BY DEF StreakInv, Capped
<1> DEFINE tips == branch'[p]
           later == commit'[p]
<1>12. \A k \in 1 .. n : /\ tips[k] = shas[k] /\ k \in DOMAIN shas /\ tips[k] \in 1 .. Len(made)
                         /\ later[tips[k]].outcome = made[shas[k]].outcome
                         /\ later[tips[k]].reviewed = made[shas[k]].reviewed
  <2>1. ASSUME NEW k \in 1 .. n
        PROVE  tips[k] = shas[k] /\ k \in DOMAIN shas /\ tips[k] \in 1 .. Len(made)
    BY <1>7, <1>8, <1>9
  <2>2. \A d \in 1 .. Len(made) : later[d] = made[d]
    BY <1>10
  <2> HIDE DEF made, shas, tips, later
  <2> QED
    BY <2>1, <2>2
<1>13. /\ Len(tips) = n + 1 /\ DOMAIN tips = 1 .. n + 1 /\ tips[n + 1] = Len(made) + 1
       /\ later[Len(made) + 1].outcome = "none"
  BY <1>6, <1>9, <1>10
<1> HIDE DEF made, shas, tips, later
<1>14. Ordered(tips)
  <2> SUFFICES ASSUME NEW i \in 1 .. n + 1, NEW j \in 1 .. n + 1, i < j
               PROVE  tips[i] < tips[j]
    BY <1>13 DEF Ordered
  <2>1. i \in 1 .. n /\ (j \in 1 .. n \/ j = n + 1)
    BY <1>4
  <2>2. CASE j \in 1 .. n
    BY <1>11, <1>12, <2>1, <2>2 DEF Ordered
  <2>3. CASE j = n + 1
    <3>1. tips[i] \in 1 .. Len(made) /\ tips[j] = Len(made) + 1
      BY <1>12, <1>13, <2>1, <2>3
    <3> QED
      BY <1>4, <3>1
  <2> QED
    BY <2>1, <2>2, <2>3
<1>15. \A k \in n + 1 .. Len(tips) :
         /\ later[tips[k]].outcome = "none"
         /\ run[p].at \in {"legs", "publish"} => tips[k] # run[p].sha
  <2>1. ASSUME NEW k \in n + 1 .. Len(tips) PROVE k = n + 1
    BY <1>4, <1>13
  <2>2. Len(made) + 1 \notin 1 .. Len(made)
    BY <1>4
  <2> QED
    BY <1>7, <1>13, <2>1, <2>2
<1>16. /\ Len(tips) \in Nat /\ n <= Len(tips) /\ DOMAIN tips = 1 .. Len(tips)
  BY <1>4, <1>13
<1>17. \A k \in 1 .. n : /\ tips[k] = shas[k]
                         /\ later[tips[k]].outcome = made[shas[k]].outcome
                         /\ later[tips[k]].reviewed = made[shas[k]].reviewed
  BY <1>12
<1>18. Capped(later, tips, run[p])
  <2>1. n \in Nat /\ Len(shas) \in Nat /\ n <= Len(shas) /\ DOMAIN shas = 1 .. Len(shas)
    BY <1>4
  <2> QED
    BY <2>1, <1>11, <1>14, <1>15, <1>16, <1>17, BranchMoves
<1> QED
  BY <1>2, <1>3, <1>18, StreakFrame DEF tips, later

\* A forced push takes the newest commits away, or gives one back.
LEMMA StreakReset ==
  ASSUME TypeOK, StreakInv, NEW p \in PRs, p \notin restored, Reset(p)
  PROVE  StreakInv'
<1> DEFINE shas == branch[p]
<1>1. PICK c \in DOMAIN commit[p] :
        /\ branch' = [branch EXCEPT ![p] = line[p][c]]
        /\ restored' = IF \E n \in DOMAIN shas : line[p][c] = SubSeq(shas, 1, n)
                       THEN restored ELSE restored \cup {p}
  BY DEF Reset
<1>2. commit' = commit /\ run' = run /\ restored \subseteq restored'
  BY <1>1 DEF Reset
<1>3. \A q \in PRs \ {p} : branch'[q] = branch[q]
  BY <1>1 DEF TypeOK, Shape
<1>4. ASSUME p \notin restored' PROVE Capped(commit[p], branch'[p], run[p])
  <2>1. PICK n \in DOMAIN shas : line[p][c] = SubSeq(shas, 1, n)
    BY <1>1, <1>4
  <2>2. branch'[p] = SubSeq(shas, 1, n)
    BY <1>1, <2>1 DEF TypeOK, Shape
  <2>3. /\ shas \in Seq(Nat) /\ Len(shas) \in Nat /\ DOMAIN shas = 1 .. Len(shas)
        /\ n \in Nat /\ n <= Len(shas)
    BY DEF TypeOK, Shape
  <2>4. /\ branch'[p] \in Seq(Nat) /\ Len(branch'[p]) = n
        /\ \A k \in 1 .. n : k \in DOMAIN shas /\ branch'[p][k] = shas[k]
    <3>1. n \in 0 .. Len(shas)
      BY <2>3
    <3> QED
      BY <2>2, <2>3, <3>1, Prefix
  <2>5. Capped(commit[p], shas, run[p]) /\ Ordered(shas)
    BY DEF StreakInv, Capped
  <2> DEFINE tips == branch'[p]
  <2> HIDE DEF shas
  <2>6. /\ Len(tips) \in Nat /\ n <= Len(tips) /\ DOMAIN tips = 1 .. Len(tips)
        /\ DOMAIN tips = 1 .. n /\ \A k \in 1 .. n : k \in DOMAIN shas /\ tips[k] = shas[k]
    <3>1. DOMAIN tips = 1 .. Len(tips) /\ Len(tips) = n
      BY <2>4
    <3> HIDE DEF tips
    <3> QED
      BY <2>3, <2>4, <3>1 DEF tips
  <2> HIDE DEF tips
  <2>7. Ordered(tips)
    BY <2>5, <2>6 DEF Ordered
  <2>8. \A k \in n + 1 .. Len(tips) : FALSE
    BY <2>3, <2>4 DEF tips
  <2> QED
    BY <2>3, <2>5, <2>6, <2>7, <2>8, BranchMoves DEF tips
<1> QED
  BY <1>2, <1>3, <1>4, StreakFrame

\* After a review there is nothing to count, and so room everywhere.
LEMMA StreakReview ==
  ASSUME TypeOK, StreakInv, NEW p \in PRs, p \notin restored, Review(p)
  PROVE  StreakInv'
<1> DEFINE made == commit[p]
           later == commit'[p]
           shas == branch[p]
<1>1. /\ commit' = [commit EXCEPT ![p] =
                      [i \in DOMAIN made |->
                         [made[i] EXCEPT !.reviewed = (made[i].outcome # "none")]]]
      /\ branch' = branch /\ run' = run /\ restored' = restored
  BY DEF Review
<1>2. \A q \in PRs \ {p} : commit'[q] = commit[q]
  BY <1>1 DEF TypeOK, Shape
<1>3. later = [i \in DOMAIN made |-> [made[i] EXCEPT !.reviewed = (made[i].outcome # "none")]]
  BY <1>1 DEF TypeOK, Shape
<1>4. \A d \in DOMAIN made : made[d] \in Commits
  BY DEF TypeOK, Shape
<1>5. ASSUME NEW d \in DOMAIN made
      PROVE  /\ later[d].outcome = made[d].outcome
             /\ later[d].outcome # "none" => later[d].reviewed
  <2> DEFINE new(i) == [made[i] EXCEPT !.reviewed = (made[i].outcome # "none")]
  <2>1. made[d] \in Commits
    BY <1>4
  <2>2. new(d).outcome = made[d].outcome /\ (made[d].outcome # "none" => new(d).reviewed)
    BY <2>1 DEF Commits
  <2>3. later = [i \in DOMAIN made |-> new(i)]
    BY <1>3
  <2> HIDE DEF new
  <2>4. later[d] = new(d)
    BY <2>3
  <2> QED
    BY <2>2, <2>4
<1>6. /\ shas \in Seq(Nat) /\ Len(shas) \in Nat /\ DOMAIN shas = 1 .. Len(shas)
      /\ \A k \in DOMAIN shas : shas[k] \in DOMAIN made
  BY DEF TypeOK, Shape, Linked
<1>7. \A k \in DOMAIN shas : /\ later[shas[k]].outcome = made[shas[k]].outcome
                             /\ later[shas[k]].outcome # "none" => later[shas[k]].reviewed
  BY <1>5, <1>6
<1>8. Capped(made, shas, run[p])
  BY DEF StreakInv
<1> HIDE DEF made, later, shas
<1>9. ASSUME NEW n \in Int, n <= Len(shas) PROVE Unreviewed(later, shas, n) = {}
  <2>1. \A k \in 1 .. n : k \in DOMAIN shas
    BY <1>6, <1>9
  <2> QED
    BY <1>7, <2>1 DEF Unreviewed
<1>10. \A i \in DOMAIN shas : Room(later, shas, i)
  <2>1. ASSUME NEW i \in DOMAIN shas PROVE Room(later, shas, i)
    <3>1. i - 1 \in Int /\ i - 1 <= Len(shas)
      BY <1>6
    <3> QED
      BY <1>9, <3>1, NoneIsRoom DEF Room
  <2> QED
    BY <2>1
<1>11. CappedBack(later, shas)
  <2>1. ASSUME NEW n \in 0 .. Len(shas)
        PROVE  Cardinality(Unreviewed(later, shas, n)) <= PRNonApproveLimit
    <3>1. n \in Int /\ n <= Len(shas)
      BY <1>6
    <3>2. Cardinality(Unreviewed(later, shas, n)) < PRNonApproveLimit
      BY <1>9, <3>1, NoneIsRoom
    <3> QED
      BY <3>1, <3>2, UnreviewedFinite, VerdictGateAssumption
  <2> QED
    BY <2>1 DEF CappedBack
<1>12. Ordered(shas)
  BY <1>8 DEF Capped
<1>13. Newest(later, shas, run[p])
  BY <1>7, <1>8 DEF Capped, Newest
<1>14. ReviewsAll(later, shas)
  BY <1>7 DEF ReviewsAll
<1>15. RoomMade(later, shas) /\ RoomKept(later, shas, run[p])
  BY <1>10 DEF RoomMade, RoomKept
<1>16. Capped(later, shas, run[p])
  BY <1>11, <1>12, <1>13, <1>14, <1>15 DEF Capped
<1> QED
  BY <1>1, <1>2, <1>16, StreakFrame DEF later, shas

\* A record made where there was room, with none after it, keeps the streak within the cap.
LEMMA RecordMade ==
  ASSUME NEW made, NEW shas, NEW later, NEW r, NEW i \in DOMAIN shas,
         Len(shas) \in Nat, DOMAIN shas = 1 .. Len(shas),
         Capped(made, shas, r), r.at = "publish", shas[i] = r.sha,
         \A k \in DOMAIN shas : k # i => later[shas[k]] = made[shas[k]],
         ~later[shas[i]].reviewed
  PROVE  ReviewsAll(later, shas) /\ RoomMade(later, shas) /\ CappedBack(later, shas)
<1>1. /\ Newest(made, shas, r) /\ ReviewsAll(made, shas) /\ RoomMade(made, shas)
      /\ CappedBack(made, shas) /\ RoomKept(made, shas, r)
  BY DEF Capped
<1>2. i \in Nat /\ i <= Len(shas)
  OBVIOUS
<1>3. \A j \in DOMAIN shas : i < j => later[shas[j]].outcome = "none"
  <2>1. ASSUME NEW j \in DOMAIN shas, i < j PROVE later[shas[j]].outcome = "none"
    <3>1. made[shas[j]].outcome = "none"
      BY <1>1, <2>1 DEF Newest
    <3>2. j # i
      BY <1>2, <2>1
    <3> QED
      BY <3>1, <3>2
  <2> QED
    BY <2>1
<1>4. \A k \in DOMAIN shas : k < i => later[shas[k]] = made[shas[k]]
  BY <1>2
<1>5. ASSUME NEW n \in Int, n < i PROVE Unreviewed(later, shas, n) = Unreviewed(made, shas, n)
  <2>1. \A k \in 1 .. n : k \in DOMAIN shas /\ k < i
    BY <1>2, <1>5
  <2>2. \A k \in 1 .. n : /\ later[shas[k]].outcome = made[shas[k]].outcome
                          /\ later[shas[k]].reviewed = made[shas[k]].reviewed
    BY <1>4, <2>1
  <2> QED
    BY <2>2, UnreviewedFrame
<1>6. Room(made, shas, i)
  BY <1>1 DEF RoomKept, Votes
<1>7. ReviewsAll(later, shas)
  <2> SUFFICES ASSUME NEW k \in DOMAIN shas, NEW j \in DOMAIN shas, k < j,
                      later[shas[k]].outcome # "none", later[shas[j]].outcome # "none",
                      later[shas[j]].reviewed
               PROVE  later[shas[k]].reviewed
    BY DEF ReviewsAll
  <2>1. j # i /\ ~(i < j)
    BY <1>3
  <2>2. j < i /\ k < i
    BY <1>2, <2>1
  <2>3. later[shas[k]] = made[shas[k]] /\ later[shas[j]] = made[shas[j]]
    BY <1>4, <2>2
  <2>4. made[shas[k]].reviewed
    BY <1>1, <2>3 DEF ReviewsAll
  <2> QED
    BY <2>3, <2>4
<1>8. RoomMade(later, shas)
  <2> SUFFICES ASSUME NEW k \in DOMAIN shas,
                      later[shas[k]].outcome # "none", ~later[shas[k]].reviewed
               PROVE  Room(later, shas, k)
    BY DEF RoomMade
  <2>1. k \in Nat /\ k <= i
    BY <1>2, <1>3
  <2>2. Room(made, shas, k)
    <3>1. CASE k = i
      BY <1>6, <3>1
    <3>2. CASE k # i
      BY <1>1, <3>2 DEF RoomMade
    <3> QED
      BY <3>1, <3>2
  <2>3. k - 1 \in Int /\ k - 1 < i
    BY <1>2, <2>1
  <2> QED
    BY <1>5, <2>2, <2>3 DEF Room
<1>9. ASSUME NEW n \in 0 .. Len(shas)
      PROVE  Cardinality(Unreviewed(later, shas, n)) <= PRNonApproveLimit
  <2>1. CASE n < i
    <3>1. n \in Int
      OBVIOUS
    <3>2. Cardinality(Unreviewed(made, shas, n)) <= PRNonApproveLimit
      BY <1>1 DEF CappedBack
    <3> QED
      BY <1>5, <2>1, <3>1, <3>2
  <2>2. CASE ~(n < i)
    <3> DEFINE U == Unreviewed(made, shas, i - 1)
               V == Unreviewed(later, shas, n)
    <3>1. ASSUME NEW k \in V PROVE k \in U \cup {i}
      <4>1. /\ k \in 1 .. n /\ later[shas[k]].outcome # "none" /\ ~later[shas[k]].reviewed
            /\ \A j \in k .. n : later[shas[j]].outcome # "approve"
        BY DEF Unreviewed
      <4>2. k \in DOMAIN shas
        BY <4>1
      <4>3. k \in Nat /\ k <= i
        BY <1>2, <1>3, <4>1, <4>2
      <4>4. CASE k # i
        <5>1. k \in 1 .. i - 1
          BY <1>2, <4>1, <4>3, <4>4
        <5>2. \A j \in k .. i - 1 : j \in k .. n
          BY <1>2, <2>2, <4>3
        <5>3. k - 1 \in Int /\ i - 1 \in Int /\ i - 1 < i
          BY <1>2, <4>3
        <5>4. k \in Unreviewed(later, shas, i - 1)
          BY <4>1, <5>1, <5>2 DEF Unreviewed
        <5> QED
          BY <1>5, <5>3, <5>4
      <4> QED
        BY <4>4
    <3>2. i - 1 \in Int /\ n \in Int
      BY <1>2
    <3>3. IsFiniteSet(U) /\ Cardinality(U) \in Nat /\ Cardinality(V) \in Nat
      BY <3>2, UnreviewedFinite
    <3>4. Cardinality(U) < PRNonApproveLimit
      BY <1>6 DEF Room
    <3> HIDE DEF U, V
    <3>5. V \subseteq U \cup {i}
      BY <3>1
    <3>6. IsFiniteSet(U \cup {i}) /\ Cardinality(U \cup {i}) <= Cardinality(U) + 1
      <4>1. /\ IsFiniteSet(U \cup {i})
            /\ Cardinality(U \cup {i}) = IF i \in U THEN Cardinality(U) ELSE Cardinality(U) + 1
        BY <3>3, FS_AddElement
      <4> QED
        BY <3>3, <4>1
    <3>7. Cardinality(V) <= Cardinality(U \cup {i}) /\ Cardinality(U \cup {i}) \in Nat
      BY <3>5, <3>6, FS_Subset, FS_CardinalityType
    <3>8. Cardinality(V) <= PRNonApproveLimit
      BY <3>3, <3>4, <3>6, <3>7, VerdictGateAssumption
    <3> QED
      BY <3>8 DEF V
  <2> QED
    BY <2>1, <2>2
<1>10. CappedBack(later, shas)
  BY <1>9 DEF CappedBack
<1> QED
  BY <1>7, <1>8, <1>10

\* A run makes a record of its commit if the branch still has it, and of nothing there if not.
LEMMA StreakPublish ==
  ASSUME TypeOK, StreakInv, NEW p \in PRs, p \notin restored, Publish(p)
  PROVE  StreakInv'
<1> DEFINE made == commit[p]
           later == commit'[p]
           shas == branch[p]
           c == run[p].sha
<1>1. /\ run[p].at = "publish" /\ ~later[c].reviewed
      /\ \A d \in DOMAIN made : d # c => later[d] = made[d]
      /\ \A q \in PRs \ {p} : \A d \in DOMAIN commit[q] : commit'[q][d] = commit[q][d]
  BY PublishFacts
<1>2. branch' = branch /\ restored' = restored /\ \A q \in PRs \ {p} : commit'[q] = commit[q]
  BY DEF Publish, TypeOK, Shape
<1>3. run'[p].at \in {"idle", "merge"} /\ \A q \in PRs \ {p} : run'[q] = run[q]
  <2>1. CASE Ends(p, "failure")
    BY <2>1, EndsFacts
  <2>2. CASE ~Ends(p, "failure")
    <3>1. run' = [run EXCEPT ![p] = run'[p]] /\ run'[p].at = "merge"
      BY <2>2, PublishFacts
    <3> QED
      BY <3>1 DEF TypeOK, Shape
  <2> QED
    BY <2>1, <2>2
<1>4. Len(shas) \in Nat /\ DOMAIN shas = 1 .. Len(shas)
  BY DEF TypeOK, Shape
<1>5. \A k \in DOMAIN shas : shas[k] \in DOMAIN made
  BY DEF TypeOK, Linked
<1>6. Capped(made, shas, run[p])
  BY DEF StreakInv
<1>7. Ordered(shas)
  BY <1>6 DEF Capped
<1>8. \A k \in DOMAIN shas : shas[k] # c => later[shas[k]] = made[shas[k]]
  BY <1>1, <1>5
<1>9. Newest(later, shas, run'[p]) /\ RoomKept(later, shas, run'[p])
  BY <1>3 DEF Newest, RoomKept, Votes
<1> HIDE DEF made, later, shas
<1>10. CASE \E i \in DOMAIN shas : shas[i] = c
  <2>1. PICK i \in DOMAIN shas : shas[i] = c
    BY <1>10
  <2>2. \A k \in DOMAIN shas : k # i => shas[k] # c
    <3> SUFFICES ASSUME NEW k \in DOMAIN shas, k # i, shas[k] = c PROVE FALSE
      OBVIOUS
    <3>1. shas[i] \in Nat
      BY DEF TypeOK, Shape, shas
    <3>2. k < i \/ i < k
      BY <1>4
    <3>3. shas[k] < shas[i] \/ shas[i] < shas[k]
      BY <1>7, <3>2 DEF Ordered
    <3> QED
      BY <2>1, <3>1, <3>3
  <2>3. \A k \in DOMAIN shas : k # i => later[shas[k]] = made[shas[k]]
    BY <1>8, <2>2
  <2>4. ~later[shas[i]].reviewed
    BY <1>1, <2>1
  <2>5. ReviewsAll(later, shas) /\ RoomMade(later, shas) /\ CappedBack(later, shas)
    BY <1>1, <1>4, <1>6, <2>1, <2>3, <2>4, RecordMade
  <2>6. Capped(later, shas, run'[p])
    BY <1>7, <1>9, <2>5 DEF Capped
  <2> QED
    BY <1>2, <1>3, <2>6, StreakFrame DEF later, shas
<1>11. CASE ~\E i \in DOMAIN shas : shas[i] = c
  <2>1. \A k \in DOMAIN shas : later[shas[k]] = made[shas[k]]
    BY <1>8, <1>11
  <2>2. \A k \in 1 .. Len(shas) :
          /\ shas[k] = shas[k] /\ later[shas[k]].outcome = made[shas[k]].outcome
          /\ later[shas[k]].reviewed = made[shas[k]].reviewed
    BY <1>4, <2>1
  <2>3. \A k \in Len(shas) + 1 .. Len(shas) : FALSE
    BY <1>4
  <2>4. Len(shas) <= Len(shas)
    BY <1>4
  <2>5. Capped(later, shas, run[p])
    BY <1>4, <1>6, <1>7, <2>2, <2>3, <2>4, BranchMoves
  <2>6. Capped(later, shas, run'[p])
    BY <1>9, <2>5 DEF Capped
  <2> QED
    BY <1>2, <1>3, <2>6, StreakFrame DEF later, shas
<1> QED
  BY <1>10, <1>11

\* A step of one pull request leaves the others as they are.
LEMMA OneAtATime ==
  ASSUME TypeOK, NEW p \in PRs,
         \/ Push(p) \/ Reset(p) \/ Review(p) \/ Request(p) \/ Resolve(p)
         \/ \E l \in Legs : Leg(p, l)
         \/ Finalize(p) \/ Publish(p) \/ Merge(p) \/ Fail(p) \/ AutoMerge(p)
  PROVE  /\ restored \subseteq restored'
         /\ \A q \in PRs \ {p} : commit'[q] = commit[q] /\ branch'[q] = branch[q] /\ run'[q] = run[q]
<1>0. commit \in [PRs -> Seq(Commits)] /\ branch \in [PRs -> Seq(Nat)] /\ run \in [PRs -> Runs]
  BY DEF TypeOK, Shape
<1>1. CASE Push(p)
  <2>1. /\ run' = run /\ restored' = restored
        /\ \E made, shas : commit' = [commit EXCEPT ![p] = made] /\ branch' = [branch EXCEPT ![p] = shas]
    BY <1>1, Zenon DEF Push
  <2> QED
    BY <1>0, <2>1
<1>2. CASE Reset(p)
  BY <1>0, <1>2 DEF Reset
<1>3. CASE Review(p)
  <2>1. /\ branch' = branch /\ run' = run /\ restored' = restored
        /\ \E made : commit' = [commit EXCEPT ![p] = made]
    BY <1>3, Zenon DEF Review
  <2> QED
    BY <1>0, <2>1
<1>4. CASE Request(p) \/ AutoMerge(p)
  BY <1>0, <1>4 DEF Request, AutoMerge
<1>5. ASSUME NEW conclusion, Ends(p, conclusion) PROVE \A q \in PRs \ {p} : run'[q] = run[q]
  BY <1>5, EndsFacts
<1>6. CASE Resolve(p) \/ Finalize(p) \/ Fail(p)
  <2>1. UNCHANGED <<meta, commit, line, branch, auto, used, vouched, refused, restored>>
    BY <1>6, Zenon DEF Resolve, Finalize, Fail
  <2>2. \/ \E conclusion : Ends(p, conclusion)
        \/ run' = [run EXCEPT ![p] = run'[p]]
    BY <1>6, ResolveFacts, FinalizeFacts DEF Fail
  <2> QED
    BY <1>0, <1>5, <2>1, <2>2
<1>7. CASE \E l \in Legs : Leg(p, l)
  <2>1. commit' = commit /\ branch' = branch /\ restored' = restored
    BY <1>7 DEF Leg
  <2>2. run' = [run EXCEPT ![p] = run'[p]]
    BY <1>7, LegFacts
  <2> QED
    BY <1>0, <2>1, <2>2
<1>8. CASE Publish(p)
  <2>1. /\ branch' = branch /\ restored' = restored
        /\ \E made : commit' = [commit EXCEPT ![p] = made]
    BY <1>8 DEF Publish
  <2>2. \/ \E conclusion : Ends(p, conclusion)
        \/ run' = [run EXCEPT ![p] = run'[p]]
    BY <1>8, PublishFacts
  <2> QED
    BY <1>0, <1>5, <2>1, <2>2
<1>9. CASE Merge(p)
  <2>1. commit' = commit /\ branch' = branch /\ restored' = restored
    BY <1>9 DEF Merge
  <2> QED
    BY <1>5, <1>9, <2>1 DEF Merge
<1> QED
  BY <1>1, <1>2, <1>3, <1>4, <1>6, <1>7, <1>8, <1>9

\* Of a pull request that was given back a commit nothing is asked.
LEMMA StreakRestored ==
  ASSUME TypeOK, StreakInv, NEW p \in restored,
         \/ Push(p) \/ Reset(p) \/ Review(p) \/ Request(p) \/ Resolve(p)
         \/ \E l \in Legs : Leg(p, l)
         \/ Finalize(p) \/ Publish(p) \/ Merge(p) \/ Fail(p) \/ AutoMerge(p)
  PROVE  StreakInv'
<1>1. p \in PRs
  BY DEF TypeOK, Lines
<1>2. /\ restored \subseteq restored'
      /\ \A q \in PRs \ {p} : commit'[q] = commit[q] /\ branch'[q] = branch[q] /\ run'[q] = run[q]
  BY <1>1, OneAtATime
<1>3. p \in restored'
  BY <1>2
<1> QED
  BY <1>1, <1>2, <1>3, StreakFrame

LEMMA StreakStep == TypeOK /\ StreakInv /\ [Next]_vars => StreakInv'
<1> SUFFICES ASSUME TypeOK, StreakInv, [Next]_vars PROVE StreakInv'
  OBVIOUS
<1>1. CASE UNCHANGED vars
  BY <1>1 DEF vars, StreakInv
<1>2. CASE Clear
  <2>1. commit' = commit /\ branch' = branch /\ restored' = restored
    BY <1>2 DEF Clear
  <2>2. \A p \in PRs : /\ run'[p].at = run[p].at /\ run'[p].sha = run[p].sha
                       /\ run'[p].legs = run[p].legs
    BY <1>2, ClearFacts
  <2>3. ASSUME NEW p \in PRs \ restored PROVE Capped(commit[p], branch[p], run'[p])
    <3>1. Capped(commit[p], branch[p], run[p])
      BY DEF StreakInv
    <3>2. Newest(commit[p], branch[p], run'[p])
      BY <2>2, <3>1 DEF Capped, Newest
    <3>3. RoomKept(commit[p], branch[p], run'[p])
      BY <2>2, <3>1 DEF Capped, RoomKept, Votes
    <3> QED
      BY <3>1, <3>2, <3>3 DEF Capped
  <2> QED
    BY <2>1, <2>3 DEF StreakInv
<1>3. ASSUME NEW p \in PRs, p \notin restored, Request(p) PROVE StreakInv'
  <2>1. run' = [run EXCEPT ![p] = run'[p]] /\ run'[p].at = "queued"
    BY <1>3, RequestFacts
  <2>2. commit' = commit /\ branch' = branch /\ restored' = restored
    BY <1>3 DEF Request
  <2>3. \A q \in PRs \ {p} : run'[q] = run[q]
    BY <2>1 DEF TypeOK, Shape
  <2> QED
    BY <1>3, <2>1, <2>2, <2>3, StreakRunEnds
<1>4. ASSUME NEW p \in PRs, p \notin restored, Merge(p) \/ Fail(p) PROVE StreakInv'
  <2>1. PICK conclusion : Ends(p, conclusion)
    BY <1>4 DEF Merge, Fail
  <2>2. commit' = commit /\ branch' = branch /\ restored' = restored
    BY <1>4 DEF Merge, Fail
  <2> QED
    BY <1>4, <2>1, <2>2, StreakEnds
<1>5. ASSUME NEW p \in PRs, AutoMerge(p) PROVE StreakInv'
  BY <1>5 DEF AutoMerge, StreakInv
<1>6. ASSUME NEW p \in PRs,
             \/ Push(p) \/ Reset(p) \/ Review(p) \/ Request(p) \/ Resolve(p)
             \/ \E l \in Legs : Leg(p, l)
             \/ Finalize(p) \/ Publish(p) \/ Merge(p) \/ Fail(p) \/ AutoMerge(p)
      PROVE  StreakInv'
  <2>1. CASE p \in restored
    BY <1>6, <2>1, StreakRestored
  <2>2. CASE p \notin restored
    BY <1>3, <1>4, <1>5, <1>6, <2>2, StreakPush, StreakReset, StreakReview, StreakLeg,
       StreakRuns, StreakPublish
  <2> QED
    BY <2>1, <2>2
<1> QED
  BY <1>1, <1>2, <1>6 DEF Next
-----------------------------------------------------------------------------
LEMMA Inductive == IInv /\ [Next]_vars => IInv'
<1>1. IInv /\ Next => IInv'
  BY StepTypeOK, StepHaltedIsMute, StepRepeatsRecord, StepVotersBounded DEF IInv
<1>2. IInv /\ UNCHANGED vars => IInv'
  <2> SUFFICES ASSUME IInv, UNCHANGED vars PROVE IInv'
    OBVIOUS
  <2>1. TypeOK'
    BY DEF IInv, vars, TypeOK, Shape, Lines
  <2>2. HaltedIsMute' /\ RepeatsRecord'
    BY DEF IInv, vars, HaltedIsMute, RepeatsRecord, Escalated
  <2>3. Voters' = Voters
    BY DEF vars, Voters
  <2>4. VotersBounded'
    BY <2>3 DEF IInv, vars, VotersBounded
  <2> QED
    BY <2>1, <2>2, <2>4 DEF IInv
<1> QED
  BY <1>1, <1>2

LEMMA Always == Spec => []IInv
  BY InitIInv, Inductive, PTL DEF Spec

\* Every commit, run and record keeps its shape, and a run that judges judges a commit that
\* was made: resolve's read of the head (verdict-gate.yml:253-329) outlives every push.
THEOREM GateTypeCorrect == Spec => []TypeOK
<1>1. IInv => TypeOK
  BY DEF IInv
<1> QED
  BY <1>1, Always, PTL

\* The repository-wide cap is not overshot by more than one run for each pull request,
\* however the runs and the clear interleave (retry.go:104-108, verdict-gate.yml:563-625).
THEOREM OvershootBounded == Spec => []OvershootIsBounded
<1>1. IInv => OvershootIsBounded
  <2> SUFFICES ASSUME IInv PROVE OvershootIsBounded
    OBVIOUS
  <2>1. /\ refused + Cardinality(Voters) <= GlobalNonApproveLimit + Cardinality(PRs)
        /\ refused \in Nat
    BY DEF IInv, VotersBounded, TypeOK, Shape
  <2> QED
    BY <2>1, VotersFinite, VerdictGateAssumption DEF OvershootIsBounded
<1> QED
  BY <1>1, Always, PTL

\* A run requested under the escalation records nothing, turns no check green and switches
\* no auto-merge on (retry.go:104-108).
THEOREM EscalationHeld == Spec => EscalationHolds
<1> DEFINE Kept(p) == /\ \A c \in DOMAIN commit[p] :
                           /\ commit'[p][c].outcome = commit[p][c].outcome
                           /\ commit'[p][c].required = commit[p][c].required
                      /\ auto'[p] = "on" => auto[p] = "on"
<1>1. IInv /\ [Next]_vars => [\A p \in halted : Kept(p)]_vars
  <2> SUFFICES ASSUME IInv, Next, NEW p \in halted PROVE Kept(p)
    OBVIOUS
  <2>0. /\ p \in PRs /\ run[p].at \in {"queued", "legs"} /\ TypeOK
        /\ auto \in [PRs -> {"off", "on", "merged"}]
    BY DEF IInv, HaltedIsMute, TypeOK, Shape
  <2>1. CASE UNCHANGED <<commit, auto>>
    BY <2>1
  <2>2. ASSUME NEW q \in PRs, Push(q) PROVE Kept(p)
    <3>1. auto' = auto
      BY <2>2 DEF Push
    <3> QED
      BY <2>0, <2>2, <3>1, PushFacts
  <2>3. ASSUME NEW q \in PRs, Review(q) PROVE Kept(p)
    <3>1. auto' = auto
      BY <2>3 DEF Review
    <3> QED
      BY <2>0, <2>3, <3>1, ReviewFacts
  <2>4. ASSUME NEW q \in PRs, Publish(q) PROVE Kept(p)
    <3>1. auto' = auto
      BY <2>4 DEF Publish
    <3>2. q # p
      BY <2>0, <2>4, PublishFacts
    <3> QED
      BY <2>0, <2>4, <3>1, <3>2, PublishFacts
  <2>5. ASSUME NEW q \in PRs, Merge(q) PROVE Kept(p)
    <3>1. commit' = commit /\ q # p
      BY <2>0, <2>5 DEF Merge
    <3>2. auto'[p] = auto[p]
      BY <2>0, <2>5, <3>1 DEF Merge
    <3> QED
      BY <3>1, <3>2
  <2>6. ASSUME NEW q \in PRs, AutoMerge(q) PROVE Kept(p)
    <3>1. commit' = commit /\ auto' = [auto EXCEPT ![q] = "merged"]
      BY <2>6 DEF AutoMerge
    <3> QED
      BY <2>0, <3>1
  <2> HIDE DEF Kept
  <2>7. ASSUME NEW q \in PRs, NEW l \in Legs, Leg(q, l) PROVE Kept(p)
    BY <2>1, <2>7 DEF Leg
  <2>8. ASSUME NEW q \in PRs, Resolve(q) \/ Finalize(q) \/ Fail(q) PROVE Kept(p)
    <3>1. UNCHANGED <<meta, commit, line, branch, auto, used, vouched, refused, restored>>
      BY <2>8, Zenon DEF Resolve, Finalize, Fail
    <3> QED
      BY <2>1, <3>1
  <2>9. ASSUME NEW q \in PRs, Reset(q) \/ Request(q) PROVE Kept(p)
    BY <2>1, <2>9 DEF Reset, Request
  <2>10. CASE Clear
    BY <2>1, <2>10 DEF Clear
  <2> QED
    BY <2>2, <2>3, <2>4, <2>5, <2>6, <2>7, <2>8, <2>9, <2>10 DEF Next
<1> QED
  BY <1>1, Always, PTL DEF Spec, EscalationHolds

\* An approval or a rejection of record moves at most to indeterminate, and an indeterminate
\* record moves only once the owner reviewed the pull request after it (retry.go:109-122).
THEOREM VerdictKept == Spec => VerdictSticks
<1> DEFINE Kept(p, c) ==
             LET old == commit[p][c].outcome
                 new == commit'[p][c].outcome
             IN old # "none" /\ new # old =>
                  new = "indeterminate" \/ (old = "indeterminate" /\ commit[p][c].reviewed)
<1>1. IInv /\ [Next]_vars => [\A p \in PRs : \A c \in DOMAIN commit[p] : Kept(p, c)]_vars
  <2> SUFFICES ASSUME IInv, Next, NEW p \in PRs, NEW c \in DOMAIN commit[p] PROVE Kept(p, c)
    OBVIOUS
  <2>0. TypeOK
    BY DEF IInv
  <2>1. CASE UNCHANGED commit
    BY <2>1
  <2>2. ASSUME NEW q \in PRs, Push(q) PROVE Kept(p, c)
    BY <2>0, <2>2, PushFacts
  <2>3. ASSUME NEW q \in PRs, Review(q) PROVE Kept(p, c)
    BY <2>0, <2>3, ReviewFacts
  <2>4. ASSUME NEW q \in PRs, Publish(q) PROVE Kept(p, c)
    <3>1. CASE q # p \/ c # run[q].sha
      BY <2>0, <2>4, <3>1, PublishFacts
    <3>2. CASE q = p /\ c = run[q].sha
      <4>1. run[p].at = "publish" /\ commit'[p][c].outcome = run[p].outcome
        BY <2>0, <2>4, <3>2, PublishFacts
      <4>2. Settled(commit[p][c])
              => run[p].outcome \in {commit[p][c].outcome, "indeterminate"}
        BY <3>2, <4>1 DEF IInv, RepeatsRecord
      <4> QED
        BY <4>1, <4>2 DEF Settled
    <3> QED
      BY <3>1, <3>2
  <2> HIDE DEF Kept
  <2>5. ASSUME NEW q \in PRs, NEW l \in Legs, Leg(q, l) PROVE Kept(p, c)
    BY <2>1, <2>5 DEF Leg
  <2>6. ASSUME NEW q \in PRs, Resolve(q) \/ Finalize(q) \/ Fail(q) PROVE Kept(p, c)
    <3>1. UNCHANGED <<meta, commit, line, branch, auto, used, vouched, refused, restored>>
      BY <2>6, Zenon DEF Resolve, Finalize, Fail
    <3> QED
      BY <2>1, <3>1
  <2>7. ASSUME NEW q \in PRs, Reset(q) \/ Request(q) \/ Merge(q) \/ AutoMerge(q) PROVE Kept(p, c)
    BY <2>1, <2>7 DEF Reset, Request, Merge, AutoMerge
  <2>8. CASE Clear
    BY <2>1, <2>8 DEF Clear
  <2> QED
    BY <2>2, <2>3, <2>4, <2>5, <2>6, <2>7, <2>8 DEF Next
<1> QED
  BY <1>1, Always, PTL DEF Spec, VerdictSticks

\* A check is green only on a commit of an eligible pull request that codex approved on
\* evidence that is there, and the second leg too if the commit touches or moves a guarded
\* path, whatever pushes, reviews, replays and races came between
\* (main.go:313-372, verdict-gate.yml:807-851).
THEOREM GreenEarnedSafety == Spec => []GreenIsReviewed
<1>1. TypeOK /\ GreenInv => GreenIsReviewed
  <2> SUFFICES ASSUME TypeOK, GreenInv, NEW p \in PRs, NEW c \in DOMAIN commit[p],
                      commit[p][c].required = "success"
               PROVE  /\ meta[p].author = RequiredAuthor /\ ~meta[p].isCrossRepository
                      /\ "codex" \in vouched[p][c]
                      /\ (\E f \in commit[p][c].content.changes :
                            {f.filename, f.previous} \cap Guarded # {})
                           => vouched[p][c] = Legs
    BY DEF GreenIsReviewed
  <2>1. Passed(p, c)
    BY DEF GreenInv, GreenEarned
  <2>2. "codex" \in Needed(commit[p][c].content)
    BY DEF Needed, Legs
  <2>3. vouched[p][c] \in SUBSET Legs
    <3>1. vouched[p] \in Seq(SUBSET Legs) /\ commit[p] \in Seq(Commits)
          /\ Len(vouched[p]) = Len(commit[p])
      BY DEF TypeOK, Shape, Linked
    <3>2. c \in DOMAIN vouched[p]
      BY <3>1
    <3> QED
      BY <3>1, <3>2
  <2>4. (\E f \in commit[p][c].content.changes : {f.filename, f.previous} \cap Guarded # {})
          => Needed(commit[p][c].content) = Legs
    BY GuardedNeedsBoth
  <2> QED
    BY <2>1, <2>2, <2>3, <2>4 DEF Passed, Eligible
<1>2. IInv => TypeOK
  BY DEF IInv
<1>3. Init => GreenInv
  BY InitGreen
<1>4. TypeOK /\ GreenInv /\ [Next]_vars => GreenInv'
  BY GreenStep
<1> QED
  BY <1>1, <1>2, <1>3, <1>4, Always, PTL DEF Spec

LEMMA AlwaysStreak == Spec => []StreakInv
<1>1. Init => StreakInv
  BY InitStreak
<1>2. IInv => TypeOK
  BY DEF IInv
<1> QED
  BY <1>1, <1>2, Always, StreakStep, PTL DEF Spec

\* Until a forced push gives it back a commit it had lost, no pull request collects more
\* unreviewed refusals in a row than its limit, whatever is pushed, taken away, dispatched
\* again or judged anew (retry.go:123, verdict-gate.yml:531-584).
THEOREM StreakCapped == Spec => []StreakIsCapped
<1>1. IInv => TypeOK
  BY DEF IInv
<1>2. TypeOK /\ StreakInv => StreakIsCapped
  BY CappedStreak
<1> QED
  BY <1>1, <1>2, Always, AlwaysStreak, PTL
=============================================================================
