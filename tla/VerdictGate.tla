------------------------------ MODULE VerdictGate ------------------------------
(***************************************************************************)
(* The verdict gate as a protocol: the workflow (verdict-gate.yml) that     *)
(* judges pull requests, one run of it per pull request at a time, against  *)
(* the history it reads back from GitHub: the check-runs on each commit,    *)
(* the owner's reviews, and the conclusions of its own earlier runs.        *)
(* Pushes, reviews, requests and the owner's clear come at any point of a   *)
(* run.  The gate is taken as enforced (phase B): the verdict-gate check is *)
(* required on the head for a merge.                                        *)
(***************************************************************************)
EXTENDS GateRules

CONSTANTS
  PRs,
  Metas,             \* what GitHub may say of the pull requests: author, fork or not
  Contents,          \* what the commits of each may bring: changes, and whether they inject
  Verdicts,          \* what a leg may answer
  Rules,             \* the risk classification
  Guarded,           \* the paths two legs must judge, for the properties
  PRNonApproveLimit, GlobalNonApproveLimit,
  MaxPushes,         \* bound, of each
  MaxRuns, MaxReviews, MaxClears   \* bounds

ASSUME VerdictGateAssumption ==
  /\ PRNonApproveLimit \in Nat \ {0} /\ GlobalNonApproveLimit \in Nat
  /\ IsFiniteSet(PRs)

\* The classification calls what is guarded critical (cmd/verdict-gate/main_test.go:345
\* holds the mapping to that), and a citation is a file and a hunk.
ASSUME ContentAssumption ==
  /\ \A path \in Guarded : path # NoPath /\ classifyPath(path, Rules) = "critical"
  /\ \A v \in Verdicts : \A e \in v.evidence : e = [file |-> e.file, hunk |-> e.hunk]

VARIABLES
  meta,     \* what GitHub says of each
  commit,   \* the commits made for each pull request: content, last record, whether the
            \* owner reviewed since, and the verdict-gate check
  line,     \* what a branch with each of those as its head consists of, the head last
  branch,   \* the commits each pull request consists of, the head last
  run,      \* the workflow run of each pull request
  count,    \* the failed runs created since the last clear
  auto,     \* auto-merge of each pull request: "off", "on", "merged"
  used,     \* what is used up of the bounds
  vouched,  \* history: the legs that soundly approved each commit
  refused,  \* history: the non-approve outcomes published since the last clear by runs
            \* created after it
  halted,   \* history: the pull requests whose run was requested under an escalation that
            \* was not cleared since
  restored  \* history: the pull requests that were given back a commit they had lost

vars == <<meta, commit, line, branch, run, count, auto, used, vouched, refused, halted, restored>>

limits == [prNonApprove |-> PRNonApproveLimit, globalNonApprove |-> GlobalNonApproveLimit]

Fresh(content) ==
  [content |-> content, outcome |-> "none", reviewed |-> FALSE, required |-> "unset"]

\* No run is under way.  A run is stale once a clear came after it was created.
NoLegs == [l \in {} |-> "pending"]
Idle == [at |-> "idle", sha |-> 0, legs |-> NoLegs, outcome |-> "none", stale |-> FALSE]

HeadOf(p) == branch[p][Len(branch[p])]
Escalated == count > GlobalNonApproveLimit

Init ==
  /\ meta \in Metas
  /\ \E first \in [PRs -> UNION {Contents[p] : p \in PRs}] :
       /\ \A p \in PRs : first[p] \in Contents[p]
       /\ commit = [p \in PRs |-> <<Fresh(first[p])>>]
  /\ line = [p \in PRs |-> << <<1>> >>] /\ branch = [p \in PRs |-> <<1>>]
  /\ run = [p \in PRs |-> Idle]
  /\ count = 0
  /\ auto = [p \in PRs |-> "off"]
  /\ used = [runs |-> 0, reviews |-> 0, clears |-> 0]
  /\ vouched = [p \in PRs |-> <<{}>>]
  /\ refused = 0
  /\ halted = {} /\ restored = {}

-----------------------------------------------------------------------------
\* The contributors and the owner.  A commit is pushed on top of the head or, with force, of
\* an earlier commit of the branch, or of none of them.
Push(p) ==
  /\ auto[p] # "merged" /\ Len(commit[p]) <= MaxPushes[p]
  /\ \E c \in Contents[p], n \in 0 .. Len(branch[p]) :
       /\ commit' = [commit EXCEPT ![p] = Append(@, Fresh(c))]
       /\ branch' = [branch EXCEPT ![p] = Append(SubSeq(@, 1, n), Len(commit[p]) + 1)]
  /\ line' = [line EXCEPT ![p] = Append(@, branch'[p])]
  /\ vouched' = [vouched EXCEPT ![p] = Append(@, {})]
  /\ UNCHANGED <<meta, run, count, auto, used, refused, halted, restored>>

\* A forced push makes any commit that was ever made the head: one further back in the
\* branch, or one that an earlier forced push took from it.
Reset(p) ==
  /\ auto[p] # "merged"
  /\ \E c \in DOMAIN commit[p] :
       /\ line[p][c] # branch[p]
       /\ branch' = [branch EXCEPT ![p] = line[p][c]]
       /\ restored' = IF \E n \in DOMAIN branch[p] : line[p][c] = SubSeq(branch[p], 1, n)
                      THEN restored ELSE restored \cup {p}
  /\ UNCHANGED <<meta, commit, line, run, count, auto, used, vouched, refused, halted>>

\* The owner's review is later than every record made so far.
Review(p) ==
  /\ used.reviews < MaxReviews
  /\ \E i \in DOMAIN commit[p] : commit[p][i].outcome # "none" /\ ~commit[p][i].reviewed
  /\ commit' = [commit EXCEPT ![p] =
        [i \in DOMAIN commit[p] |->
           [commit[p][i] EXCEPT !.reviewed = (commit[p][i].outcome # "none")]]]
  /\ used' = [used EXCEPT !.reviews = @ + 1]
  /\ UNCHANGED <<meta, line, branch, run, count, auto, vouched, refused, halted, restored>>

\* clear-global-escalation: the failures of the runs created up to now count no more.  It is
\* left out where it changes nothing.
Clear ==
  /\ used.clears < MaxClears
  /\ count > 0 \/ \E p \in PRs : run[p].at # "idle"
  /\ count' = 0 /\ refused' = 0 /\ halted' = {}
  /\ run' = [p \in PRs |-> IF run[p].at = "idle" THEN run[p] ELSE [run[p] EXCEPT !.stale = TRUE]]
  /\ used' = [used EXCEPT !.clears = @ + 1]
  /\ UNCHANGED <<meta, commit, line, branch, auto, vouched, restored>>

\* A dispatch; the concurrency group holds a second one for the pull request back.
Request(p) ==
  /\ used.runs < MaxRuns
  /\ run[p].at = "idle"
  /\ run' = [run EXCEPT ![p].at = "queued"]
  /\ used' = [used EXCEPT !.runs = @ + 1]
  /\ halted' = IF Escalated THEN halted \cup {p} ELSE halted
  /\ UNCHANGED <<meta, commit, line, branch, count, auto, vouched, refused, restored>>

-----------------------------------------------------------------------------
\* The run ends, and its conclusion is what the count is taken from.
Ends(p, conclusion) ==
  /\ run' = [run EXCEPT ![p] = Idle]
  /\ count' = IF conclusion = "failure" /\ ~run[p].stale THEN count + 1 ELSE count
  /\ halted' = halted \ {p}

\* The legs a run needs of a commit: codex, and the second one on a critical change.
Needed(content) ==
  IF ClassifyChangedPaths(ChangedPaths(content.changes), Rules) = "critical"
  THEN Legs ELSE {"codex"}

\* resolve: an ineligible pull request ends the run; the others are read at their head,
\* by its commit, so that the content judged is the content of that commit.
Resolve(p) ==
  /\ run[p].at = "queued"
  /\ IF Eligible(meta[p])
     THEN /\ run' = [run EXCEPT ![p].at = "legs", ![p].sha = HeadOf(p),
                       ![p].legs = [l \in Needed(commit[p][HeadOf(p)].content) |-> "pending"]]
          /\ UNCHANGED <<count, halted>>
     ELSE Ends(p, "success")
  /\ UNCHANGED <<meta, commit, line, branch, auto, used, vouched, refused, restored>>

\* What the gate knows of the i-th commit of a pull request.
Record(p, i) == commit[p][branch[p][i]]

\* A slip: only the required check is looked up, not the record of an indeterminate one.
RecordedRequired(p, c) ==
  {i \in DOMAIN branch[p] : branch[p][i] # c /\ Record(p, i).required # "unset"}

\* Where the pull request's other commits stand that have a record.
Recorded(p, c) == {i \in DOMAIN branch[p] : branch[p][i] # c /\ Record(p, i).outcome # "none"}

\* The non-approve records since the last approval.
Streak(p, c) ==
  Cardinality({i \in Recorded(p, c) :
                 \A j \in Recorded(p, c) : Record(p, j).outcome = "approve" => i > j})

\* What the retry step reads back.  A review intervenes when it came after the record of
\* this commit, or else after that of the newest commit that has one.
History(p, c) ==
  [shaOutcomeRecorded |-> commit[p][c].outcome # "none",
   existingSHAOutcome |-> commit[p][c].outcome,
   prNonApproveStreak |-> Streak(p, c),
   globalNonApproveCount |-> count,
   prIntervention |->
     IF commit[p][c].outcome # "none" THEN commit[p][c].reviewed
     ELSE \E i \in Recorded(p, c) : Record(p, i).reviewed /\ \A j \in Recorded(p, c) : j <= i,
   globalIntervention |-> FALSE]

\* Whether an answer approves these changes on evidence that is there, by itself.
Sound(v, content) ==
  /\ v.decision = "approve" /\ v.evidence # {} /\ ~content.injected
  /\ v.evidence \subseteq {[file |-> c.filename, hunk |-> c.hunk] : c \in content.changes}

\* A leg reads the history, asks for a verdict if it may, and sets its outcome.
Leg(p, l) ==
  LET c == run[p].sha
      content == commit[p][c].content
      h == History(p, c)
  IN /\ run[p].at = "legs" /\ l \in DOMAIN run[p].legs /\ run[p].legs[l] = "pending"
     /\ \E v \in Verdicts :
          /\ run' = [run EXCEPT ![p].legs[l] = LegOutcome(h, limits, Judgement(v, content))]
          /\ vouched' = IF ShouldProduceVerdict(h, limits).produce /\ Sound(v, content)
                        THEN [vouched EXCEPT ![p][c] = @ \cup {l}] ELSE vouched
     /\ UNCHANGED <<meta, commit, line, branch, count, auto, used, refused, halted, restored>>

\* finalize, up to its look at the head: the outcomes add up; without one the run is done.
Finalize(p) ==
  LET outcome == Combine({run[p].legs[l] : l \in DOMAIN run[p].legs})
  IN /\ run[p].at = "legs" /\ \A l \in DOMAIN run[p].legs : run[p].legs[l] # "pending"
     /\ IF outcome = "skipped" THEN Ends(p, "success")
        ELSE IF run[p].sha # HeadOf(p) THEN Ends(p, "failure")
        ELSE /\ run' = [run EXCEPT ![p].at = "publish", ![p].outcome = outcome, ![p].legs = NoLegs]
             /\ UNCHANGED <<count, halted>>
     /\ UNCHANGED <<meta, commit, line, branch, auto, used, vouched, refused, restored>>

\* The check-run a record is: an indeterminate one goes to a context of its own and leaves
\* the required one as it is.
Checked(outcome, required) ==
  IF outcome = "approve" THEN "success" ELSE IF outcome = "reject" THEN "failure" ELSE required

\* finalize: the check-run is published, with it the record; no approval fails the run.
Publish(p) ==
  LET c == run[p].sha
      outcome == run[p].outcome
      record == commit[p][c]
  IN /\ run[p].at = "publish"
     /\ commit' = [commit EXCEPT ![p][c] =
                     [record EXCEPT !.outcome = outcome, !.reviewed = FALSE,
                                    !.required = Checked(outcome, record.required)]]
     /\ IF outcome = "approve"
        THEN /\ run' = [run EXCEPT ![p].at = "merge", ![p].outcome = "none"]
             /\ UNCHANGED <<count, refused, halted>>
        ELSE /\ Ends(p, "failure")
             /\ refused' = IF run[p].stale THEN refused ELSE refused + 1
     /\ UNCHANGED <<meta, line, branch, auto, used, vouched, restored>>

\* merge: auto-merge is switched on if the head is the commit judged.
Merge(p) ==
  /\ run[p].at = "merge"
  /\ IF run[p].sha = HeadOf(p)
     THEN /\ Ends(p, "success")
          /\ auto' = [auto EXCEPT ![p] = IF @ = "off" THEN "on" ELSE @]
     ELSE Ends(p, "failure") /\ UNCHANGED auto
  /\ UNCHANGED <<meta, commit, line, branch, used, vouched, refused, restored>>

\* A step of the run fails: a secret, an API call, a lookup, a malformed answer.
Fail(p) ==
  /\ run[p].at # "idle"
  /\ Ends(p, "failure")
  /\ UNCHANGED <<meta, commit, line, branch, auto, used, vouched, refused, restored>>

\* GitHub merges the head once the required check is there.
AutoMerge(p) ==
  /\ auto[p] = "on" /\ commit[p][HeadOf(p)].required = "success"
  /\ auto' = [auto EXCEPT ![p] = "merged"]
  /\ UNCHANGED <<meta, commit, line, branch, run, count, used, vouched, refused, halted, restored>>

Next ==
  \/ Clear
  \/ \E p \in PRs :
       \/ Push(p) \/ Reset(p) \/ Review(p) \/ Request(p)
       \/ Resolve(p) \/ \E l \in Legs : Leg(p, l)
       \/ Finalize(p) \/ Publish(p) \/ Merge(p) \/ Fail(p)
       \/ AutoMerge(p)

Spec == Init /\ [][Next]_vars

-----------------------------------------------------------------------------
Commits ==
  [content : UNION {Contents[p] : p \in PRs}, outcome : Outcomes \cup {"none"},
   reviewed : BOOLEAN, required : {"unset", "success", "failure"}]

Runs ==
  [at : {"idle", "queued", "legs", "publish", "merge"}, sha : Nat,
   legs : UNION {[L -> Outcomes \cup {"pending", "skipped"}] : L \in SUBSET Legs},
   outcome : Outcomes \cup {"none"}, stale : BOOLEAN]

Shape ==
  /\ meta \in Metas
  /\ commit \in [PRs -> Seq(Commits)] /\ vouched \in [PRs -> Seq(SUBSET Legs)]
  /\ branch \in [PRs -> Seq(Nat)] /\ run \in [PRs -> Runs]
  /\ auto \in [PRs -> {"off", "on", "merged"}]
  /\ used \in [runs : Nat, reviews : Nat, clears : Nat]
  /\ count \in Nat /\ refused \in Nat /\ halted \in SUBSET PRs

\* A pull request has a head, its commits were made, and its run judges one of them.
Linked(made, vouches, shas, r) ==
  /\ Len(vouches) = Len(made)
  /\ shas # <<>> /\ \A i \in DOMAIN shas : shas[i] \in DOMAIN made
  /\ r.at \in {"legs", "publish", "merge"} => r.sha \in DOMAIN made
  /\ r.at = "publish" => r.outcome \in Outcomes

\* Every commit has a line, of commits made by then.
Lines ==
  /\ line \in [PRs -> Seq(Seq(Nat))] /\ restored \in SUBSET PRs
  /\ \A p \in PRs :
       /\ Len(line[p]) = Len(commit[p])
       /\ \A c \in DOMAIN line[p] :
            line[p][c] # <<>> /\ \A i \in DOMAIN line[p][c] : line[p][c][i] \in DOMAIN commit[p]

TypeOK == Shape /\ Lines /\ \A p \in PRs : Linked(commit[p], vouched[p], branch[p], run[p])

\* A commit whose check is green belongs to an eligible pull request and was soundly
\* approved by codex, and by the second leg too if it touches, or moves, a guarded path
\* (verdict.go, sanity.go, riskclassification.go, main.go:313-372).
GreenIsReviewed ==
  \A p \in PRs : \A c \in DOMAIN commit[p] :
    commit[p][c].required = "success" =>
      /\ meta[p].author = RequiredAuthor /\ ~meta[p].isCrossRepository
      /\ "codex" \in vouched[p][c]
      /\ (\E f \in commit[p][c].content.changes : {f.filename, f.previous} \cap Guarded # {})
           => vouched[p][c] = Legs

\* A run requested under the repository-wide escalation, and overtaken by no clear,
\* records nothing, turns no check green and switches no auto-merge on
\* (retry.go:104-108, verdict-gate.yml:807-851).
EscalationHolds ==
  [][\A p \in halted :
       /\ \A c \in DOMAIN commit[p] :
            /\ commit'[p][c].outcome = commit[p][c].outcome
            /\ commit'[p][c].required = commit[p][c].required
       /\ auto'[p] = "on" => auto[p] = "on"]_vars

\* Where the non-approve records stand, among the first n commits of a branch, that come
\* after the last approval and that the owner has not reviewed since they were made.
Unreviewed(made, shas, n) ==
  {i \in 1 .. n : /\ made[shas[i]].outcome # "none" /\ ~made[shas[i]].reviewed
                  /\ \A j \in i .. n : made[shas[j]].outcome # "approve"}

\* No pull request accumulates more non-approve records in a row than the limit before the
\* owner reviews it (gateconfig.go:3-7), through pushes, forced pushes, retries and reviews,
\* until a forced push gives back a commit it had taken away: the streak is walked over the
\* commits the pull request has at the time (retry.go:123, verdict-gate.yml:531-584).
StreakIsCapped ==
  \A p \in PRs \ restored :
    Cardinality(Unreviewed(commit[p], branch[p], Len(branch[p]))) <= PRNonApproveLimit

\* What was concluded of a commit stays, through requests, pushes, reviews and clears.  Only
\* an indeterminate record may become anything else, and only once the owner reviewed the
\* pull request after it; and any may become indeterminate, when the legs disagree on
\* whether to answer (retry.go:109-122, main.go:334-352).
VerdictSticks ==
  [][\A p \in PRs : \A c \in DOMAIN commit[p] :
       LET old == commit[p][c].outcome
           new == commit'[p][c].outcome
       IN old # "none" /\ new # old =>
            new = "indeterminate" \/ (old = "indeterminate" /\ commit[p][c].reviewed)]_vars

\* The escalation takes hold in time: the verdicts withheld since a clear exceed the limit
\* by no more than the runs that may be under way (verdict-gate.yml:97-103, 601-607).
OvershootIsBounded == refused <= GlobalNonApproveLimit + Cardinality(PRs)
=============================================================================
