------------------------------- MODULE GateRules -------------------------------
(***************************************************************************)
(* The rules of the verdict gate (internal/gate and its command): who is    *)
(* eligible, which changes are critical, when a leg's verdict is believed,  *)
(* when another verdict may be produced, and how the legs' outcomes add up. *)
(* A path is the sequence of its segments, a pattern likewise; a change is  *)
(* a record of its path, of the path it was renamed from and of its hunk.   *)
(***************************************************************************)
EXTENDS Naturals, Sequences, FiniteSets

Legs == {"codex", "claude-adversarial"}
Outcomes == {"approve", "reject", "indeterminate"}

\* The author eligible for a verdict (eligibility.go).
RequiredAuthor == "mechanu[bot]"

Eligible(pr) == ~pr.isCrossRepository /\ pr.author = RequiredAuthor

-----------------------------------------------------------------------------
\* filepath.Match on one segment; the mapping has no other wildcard.
SegmentMatch(pattern, segment) == pattern \in {"*", segment}

segmentsMatch(pat, path) ==
  LET match[i \in 1 .. Len(pat) + 1, j \in 1 .. Len(path) + 1] ==
        IF i > Len(pat) THEN j > Len(path)
        ELSE IF pat[i] = "**" THEN \E k \in j .. Len(path) + 1 : match[i + 1, k]
        ELSE j <= Len(path) /\ SegmentMatch(pat[i], path[j]) /\ match[i + 1, j + 1]
  IN match[1, 1]

\* The last rule that matches a path decides; without one the path is critical.
classifyPath(path, rules) ==
  LET matching == SelectSeq(rules, LAMBDA r : segmentsMatch(r.pattern, path))
  IN IF matching = <<>> THEN "critical" ELSE matching[Len(matching)].class

ClassifyChangedPaths(paths, rules) ==
  IF paths # {} /\ \A p \in paths : classifyPath(p, rules) = "non-critical"
  THEN "non-critical" ELSE "critical"

NoPath == <<>>

\* A slip: a renamed file counts at its new path alone.
ChangedPathsNew(changes) == {c.filename : c \in changes}

\* The paths a change list is classified by, where a renamed file came from included.
ChangedPaths(changes) ==
  {c.filename : c \in changes} \cup ({c.previous : c \in changes} \ {NoPath})

-----------------------------------------------------------------------------
\* The diff as a leg's evidence is held against it: each file's hunks at its new path.
ParseUnifiedDiff(changes) == {[path |-> c.filename, hunks |-> {c.hunk}] : c \in changes}

Blank == ""
Contains(text, excerpt) == excerpt \in {Blank, text}

\* Verdict.validate: an approval cites evidence, and no blank one.
Valid(v) ==
  /\ v.decision \in {"approve", "reject"}
  /\ v.leg \in Legs
  /\ v.rationale # Blank
  /\ v.decision = "approve" =>
       /\ v.evidence # {}
       /\ \A e \in v.evidence : e.file # NoPath /\ e.hunk # Blank

hunkReferenced(hunks, excerpt) ==
  excerpt # Blank /\ \E h \in hunks : Contains(h, excerpt)

\* Every citation of an approval is found in the diff, and nothing of the pull request
\* carries an injection signature.
SanityCheck(v, diffFiles, injected) ==
  /\ ~injected
  /\ v.decision = "approve" =>
       \A e \in v.evidence :
         \E f \in diffFiles : f.path = e.file /\ hunkReferenced(f.hunks, e.hunk)

\* What a leg that was asked concludes: runSanity, then the step that reads it.
Judgement(v, content) ==
  IF Valid(v) /\ SanityCheck(v, ParseUnifiedDiff(content.changes), content.injected)
  THEN v.decision ELSE "indeterminate"

-----------------------------------------------------------------------------
\* A slip: the record of the commit is consulted before the repository's cap.
ShouldProduceRecordFirst(h, limits) ==
  LET escalated == h.globalNonApproveCount > limits.globalNonApprove /\ ~h.globalIntervention
  IN [produce |-> \/ /\ h.shaOutcomeRecorded
                     /\ h.existingSHAOutcome = "indeterminate" /\ h.prIntervention
                  \/ /\ ~escalated /\ ~h.shaOutcomeRecorded
                     /\ h.prNonApproveStreak < limits.prNonApprove \/ h.prIntervention,
      globallyEscalated |-> escalated]

\* A slip: any recorded outcome is judged anew once the owner reviewed it.
ShouldProduceAgain(h, limits) ==
  LET escalated == h.globalNonApproveCount > limits.globalNonApprove /\ ~h.globalIntervention
  IN [produce |->
        /\ ~escalated
        /\ \/ h.prIntervention
           \/ ~h.shaOutcomeRecorded /\ h.prNonApproveStreak < limits.prNonApprove,
      globallyEscalated |-> escalated]

\* Whether a leg is asked: the repository's cap first, then the commit's own record,
\* then the pull request's streak.
ShouldProduceVerdict(h, limits) ==
  LET escalated == h.globalNonApproveCount > limits.globalNonApprove /\ ~h.globalIntervention
  IN [produce |->
        /\ ~escalated
        /\ IF h.shaOutcomeRecorded
           THEN h.existingSHAOutcome = "indeterminate" /\ h.prIntervention
           ELSE h.prNonApproveStreak < limits.prNonApprove \/ h.prIntervention,
      globallyEscalated |-> escalated]

\* The leg's output: its judgement, the outcome the commit already has, or none.
LegOutcome(h, limits, judgement) ==
  LET d == ShouldProduceVerdict(h, limits)
  IN IF d.produce THEN judgement
     ELSE IF h.shaOutcomeRecorded /\ ~d.globallyEscalated THEN h.existingSHAOutcome
     ELSE "skipped"

\* The worst outcome counts; none at all is no approval.
CombineLegOutcomes(outcomes) ==
  IF outcomes = {} THEN "indeterminate"
  ELSE IF "reject" \in outcomes THEN "reject"
  ELSE IF "indeterminate" \in outcomes THEN "indeterminate"
  ELSE "approve"

\* The combine subcommand and the shell around it: legs that disagree on whether there
\* was a verdict at all add up to an indeterminate one.
Combine(outcomes) ==
  IF outcomes \subseteq {"skipped"} THEN "skipped"
  ELSE IF "skipped" \in outcomes THEN "indeterminate"
  ELSE CombineLegOutcomes(outcomes)
=============================================================================
