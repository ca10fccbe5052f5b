----------------------------- MODULE PresenceCheck -----------------------------
(***************************************************************************)
(* The presence check (cmd/presence-check, internal/enforcement): before the *)
(* loop works alone, it reads from GitHub whether the protected branch is    *)
(* owned, reviewed and served by a workflow that opens pull requests under   *)
(* an identity of its own.  Each read is a step and may fail; between any    *)
(* two of them the repository moves on.                                      *)
(*                                                                          *)
(* The repository is external.  Times are whole seconds, as GitHub reports   *)
(* them.  A workflow run keeps the revision it was dispatched with, so it    *)
(* may open its pull request under a later one.                              *)
(***************************************************************************)
EXTENDS SacredRules

CONSTANTS
  sacredRequiredPaths,
  Contents,           \* what CODEOWNERS may hold, <<>> for a missing file
  Branch, Other,      \* the protected branch, and another one
  ExpectedActor, Human,   \* the login of the bot, and another
  recentLoopPRWindow,
  MaxTime, MaxRevisions,   \* bounds
  MaxChanges               \* bound: revisions and pull requests together

ASSUME PresenceAssumption ==
  /\ Branch # Other /\ ExpectedActor # Human
  /\ recentLoopPRWindow \in Nat \ {0}
  /\ MaxTime \in Nat /\ MaxRevisions \in Nat /\ MaxChanges \in Nat

VARIABLES
  codeowners, guarded,   \* on the branch: CODEOWNERS, require_code_owner_reviews
  revisions,             \* of the workflow file on the branch, oldest first
  pulls,                 \* the pull requests, oldest first
  run,                   \* the revision that the run under way was dispatched with
  now,
  check,                 \* where the check is, if all was met so far, and what the last
                         \* read left in hand: a revision, then when it went live
  begun, stood           \* history: the revision that was live when the check began, and
                         \* what held at some moment since
world == <<codeowners, guarded, revisions, pulls, run, now>>
vars == <<world, check, begun, stood>>

NoRun == 0
Unmerged == 0
Merge(base, at) == [base |-> base, merged |-> at]

Reading == {"codeowners", "protection", "workflow", "revision", "published", "pulls", "verdict"}
Pcs == {"idle", "green"} \cup Reading
Pillars == {"owned", "guarded", "workflow"}

NoCheck == [at |-> "idle", satisfied |-> FALSE, hand |-> 0]

Init ==
  /\ codeowners \in Contents /\ guarded \in BOOLEAN
  /\ revisions = <<>> /\ pulls = <<>> /\ run = NoRun /\ now = 1
  /\ check = NoCheck /\ begun = 0 /\ stood = {}

-----------------------------------------------------------------------------
(* The repository *)

Current == Len(revisions)
MayChange == Current + Len(pulls) < MaxChanges
HasWorkflow == Current > 0 /\ revisions[Current].there

EditCodeowners ==
  /\ codeowners' \in Contents
  /\ UNCHANGED <<guarded, revisions, pulls, run, now>>

Protect ==
  /\ guarded' = ~guarded
  /\ UNCHANGED <<codeowners, revisions, pulls, run, now>>

\* A commit changes, empties or deletes the workflow on the branch.  The pull request that
\* was merged is where it comes from, unless it was pushed.  Others may hold it too: one
\* that is not merged, and one that was, long ago, to another branch.
Publish ==
  /\ Current < MaxRevisions /\ MayChange
  /\ \E there \in BOOLEAN,
        from \in {{}, {Merge(Branch, now)}},
        also \in {{}, {Merge(Branch, Unmerged), Merge(Other, 1)}} :
       revisions' = Append(revisions, [there |-> there, pulls |-> from \cup also])
  /\ UNCHANGED <<codeowners, guarded, pulls, run, now>>

\* Another pull request that contains the commit is merged later.
Carry ==
  /\ Current > 0
  /\ revisions' = [revisions EXCEPT ![Current] =
       [@ EXCEPT !.pulls = revisions[Current].pulls \cup {Merge(Branch, now)}]]
  /\ UNCHANGED <<codeowners, guarded, pulls, run, now>>

\* Runs of the workflow follow each other (concurrency: pr-creation).
Dispatch ==
  /\ run = NoRun /\ HasWorkflow /\ run' = Current
  /\ UNCHANGED <<codeowners, guarded, revisions, pulls, now>>

\* under is history: the revision that was live when the pull request was opened.
Open(author, same, base) ==
  /\ MayChange
  /\ pulls' = Append(pulls, [Author |-> author, SameRepo |-> same, BaseRef |-> base,
                             CreatedAt |-> now, under |-> Current])

\* A run opens its pull request as the bot, for the branch or, if its revision is written
\* so, for another.
RunOpens(base) ==
  /\ run # NoRun /\ run' = NoRun
  /\ Open(ExpectedActor, TRUE, base)
  /\ UNCHANGED <<codeowners, guarded, revisions, now>>

\* Somebody else opens one, from here or from a fork.
SomeoneOpens(same) ==
  /\ Open(Human, same, Branch)
  /\ UNCHANGED <<codeowners, guarded, revisions, run, now>>

Tick ==
  /\ now < MaxTime /\ now' = now + 1
  /\ UNCHANGED <<codeowners, guarded, revisions, pulls, run>>

Repository ==
  \/ EditCodeowners \/ Protect \/ Publish \/ Carry \/ Dispatch \/ Tick
  \/ \E base \in {Branch, Other} : RunOpens(base)
  \/ \E same \in BOOLEAN : SomeoneOpens(same)

-----------------------------------------------------------------------------
(* The check *)

At(pc) == check.at = pc

\* Every pillar is judged, whatever the ones before showed.
Go(pc, shown, hand) ==
  check' = [at |-> pc, satisfied |-> check.satisfied /\ shown, hand |-> hand]

\* A read that fails, or a panic in the judgement, leaves the pillar unmet.
Judge(pc, pillar, next) ==
  /\ At(pc)
  /\ \E shown \in {pillar, FALSE} : Go(next, shown, 0)

Begin ==
  /\ check.at \in {"idle", "green"}
  /\ check' = [at |-> "codeowners", satisfied |-> TRUE, hand |-> 0]

ReadCodeowners ==
  Judge("codeowners", CheckCodeowners(codeowners, sacredRequiredPaths), "protection")

CheckBranchProtection == Judge("protection", guarded, "workflow")

checkPRCreationWorkflow == Judge("workflow", HasWorkflow, "revision")

\* The commit that last touched the workflow file on the branch.
lastCommitSHA ==
  /\ At("revision")
  /\ \/ Current > 0 /\ Go("published", TRUE, Current)
     \/ Go("verdict", FALSE, 0)

\* The latest merge of the commit into the branch; without one nothing is known.
commitPublishTime ==
  LET merges == {p \in revisions[check.hand].pulls : p.base = Branch /\ p.merged # Unmerged}
  IN /\ At("published")
     /\ \/ \E p \in merges :
             /\ \A q \in merges : q.merged <= p.merged
             /\ Go("pulls", TRUE, p.merged)
        \/ Go("verdict", FALSE, 0)

\* A slip: the second of the merge counts too.
EligibleAtOnce(pull, revisionAt) ==
  /\ pull.SameRepo /\ pull.BaseRef = Branch /\ pull.Author = ExpectedActor
  /\ pull.CreatedAt >= revisionAt

Eligible(pull, revisionAt) ==
  /\ pull.SameRepo /\ pull.BaseRef = Branch /\ pull.Author = ExpectedActor
  /\ pull.CreatedAt > revisionAt

\* The newest pull requests, in any state.
ListRecentPullRequests ==
  {pulls[i] : i \in {j \in DOMAIN pulls : j > Len(pulls) - recentLoopPRWindow}}

checkLoopPRAuthor ==
  Judge("pulls", \E pull \in ListRecentPullRequests : Eligible(pull, check.hand), "verdict")

\* Green, and exit 0, only if every pillar is met.
Verdict ==
  /\ At("verdict")
  /\ check' = IF check.satisfied THEN [check EXCEPT !.at = "green"] ELSE NoCheck

Check ==
  \/ ReadCodeowners \/ CheckBranchProtection \/ checkPRCreationWorkflow
  \/ lastCommitSHA \/ commitPublishTime \/ checkLoopPRAuthor \/ Verdict

-----------------------------------------------------------------------------
\* A path is owned: an entry gives it to the owner, and no later one takes it back.
Owned(entries, path) ==
  \E i \in DOMAIN entries :
    /\ Matches(entries, i, path) /\ RequiredOwner \in entries[i].owners
    /\ \A j \in DOMAIN entries :
         j > i /\ Matches(entries, j, path) => RequiredOwner \in entries[j].owners

Sound == {entries \in Contents : \A path \in sacredRequiredPaths : Owned(entries, path)}

Holds ==
  {f \in Pillars : \/ f = "owned" /\ codeowners \in Sound
                   \/ f = "guarded" /\ guarded
                   \/ f = "workflow" /\ HasWorkflow}

\* The history of a check is kept while it can still turn green.
Next ==
  \/ /\ Repository /\ UNCHANGED <<check, begun>>
     /\ stood' = IF At("green") \/ ~check.satisfied THEN stood ELSE stood \cup Holds'
  \/ Begin /\ UNCHANGED world /\ begun' = Current /\ stood' = Holds
  \/ /\ Check /\ UNCHANGED world
     /\ begun' = IF check'.satisfied THEN begun ELSE 0
     /\ stood' = IF check'.satisfied THEN stood ELSE {}

Spec == Init /\ [][Next]_vars

-----------------------------------------------------------------------------
TypeOK ==
  /\ codeowners \in Contents /\ guarded \in BOOLEAN
  /\ revisions \in Seq([there : BOOLEAN,
                        pulls : SUBSET [base : {Branch, Other}, merged : Nat]])
  /\ pulls \in Seq([Author : {ExpectedActor, Human}, SameRepo : BOOLEAN,
                    BaseRef : {Branch, Other}, CreatedAt : Nat, under : Nat])
  /\ run \in Nat /\ now \in Nat
  /\ check \in [at : Pcs, satisfied : BOOLEAN, hand : Nat]
  /\ begun \in Nat /\ stood \subseteq Pillars

\* A green check rests on a pull request the bot opened for the branch no earlier than
\* under the revision that was live when the check began: one left over from a workflow
\* that has since been replaced, or broken, is not evidence, though the replacement may
\* come in the same second or have been merged elsewhere before (identity.go:162-175,
\* workflowrevision.go:27-39).
EvidenceIsFresh ==
  At("green") =>
    \E i \in DOMAIN pulls :
      /\ pulls[i].Author = ExpectedActor /\ pulls[i].SameRepo /\ pulls[i].BaseRef = Branch
      /\ pulls[i].under >= begun

\* A green check saw no more than there was: the sacred paths were owned, reviews by
\* owners were required and the workflow was in place, if not all at one moment then
\* each at some moment since it began (codeowners.go:228-236, presence.go:41-46).
GreenIsEarned == At("green") => stood = Pillars
=============================================================================
