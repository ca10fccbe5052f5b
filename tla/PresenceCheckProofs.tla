-------------------------- MODULE PresenceCheckProofs --------------------------
(***************************************************************************)
(* That a green check is earned and its evidence fresh, for any repository.  *)
(* A pull request opened before a revision was live is no younger than any   *)
(* merge that brings the revision (Dated, Ordered), whatever is merged, or   *)
(* opened, between two reads; so what the last read leaves in hand keeps the *)
(* older ones out (InHand), and the one found is of the revision the check   *)
(* began with, or of a later one (Found).                                    *)
(***************************************************************************)
EXTENDS PresenceCheck, TLAPS

Revisions == [there : BOOLEAN, pulls : SUBSET [base : {Branch, Other}, merged : Nat]]
Requests == [Author : {ExpectedActor, Human}, SameRepo : BOOLEAN,
             BaseRef : {Branch, Other}, CreatedAt : Nat, under : Nat]

WorldOK ==
  /\ codeowners \in Contents /\ guarded \in BOOLEAN
  /\ revisions \in Seq(Revisions) /\ pulls \in Seq(Requests)
  /\ run \in Nat /\ now \in Nat

CheckOK ==
  /\ check \in [at : Pcs, satisfied : BOOLEAN, hand : Nat]
  /\ begun \in Nat /\ stood \subseteq Pillars

Dated == \A i \in DOMAIN pulls : pulls[i].CreatedAt <= now

\* No merge of a revision is before a pull request that is older than the revision.
Ordered ==
  \A r \in DOMAIN revisions, i \in DOMAIN pulls :
    pulls[i].under < r =>
      \A p \in revisions[r].pulls :
        p.base = Branch /\ p.merged # Unmerged => pulls[i].CreatedAt <= p.merged

\* The revision in hand is of the check, and so is the time in hand after it.
InHand ==
  /\ begun <= Current
  /\ At("published") => check.hand \in DOMAIN revisions /\ begun <= check.hand
  /\ At("pulls") /\ check.satisfied =>
       \A i \in DOMAIN pulls : pulls[i].under < begun => pulls[i].CreatedAt <= check.hand

Fresh(i) ==
  /\ pulls[i].Author = ExpectedActor /\ pulls[i].SameRepo /\ pulls[i].BaseRef = Branch
  /\ pulls[i].under >= begun

Found ==
  /\ check.at \in {"verdict", "green"} /\ check.satisfied => \E i \in DOMAIN pulls : Fresh(i)
  /\ At("green") => check.satisfied

\* What a check that is satisfied has seen, and what it may see next.
Judged ==
  check.satisfied =>
    /\ ~At("green") => Holds \subseteq stood
    /\ ~At("codeowners") => "owned" \in stood
    /\ check.at \notin {"codeowners", "protection"} => "guarded" \in stood
    /\ check.at \notin {"codeowners", "protection", "workflow"} => "workflow" \in stood

IInv == WorldOK /\ CheckOK /\ Dated /\ Ordered /\ InHand /\ Found /\ Judged

\* How the world changes under a check.
Grown ==
  /\ Current <= Current'
  /\ \A i \in DOMAIN pulls : i \in DOMAIN pulls' /\ pulls'[i] = pulls[i]
  /\ \A i \in DOMAIN pulls' : i \in DOMAIN pulls \/ pulls'[i].under = Current

-----------------------------------------------------------------------------
LEMMA SameTypes == TypeOK <=> WorldOK /\ CheckOK
BY DEF TypeOK, WorldOK, CheckOK, Revisions, Requests

\* The owners an entry gives last are the ones no later entry takes back.
LEMMA OwnersAreSound ==
  ASSUME NEW entries \in Contents, CheckCodeowners(entries, sacredRequiredPaths)
  PROVE  entries \in Sound
<1>1. SUFFICES ASSUME NEW path \in sacredRequiredPaths PROVE Owned(entries, path)
  BY <1>1 DEF Sound
<1>2. RequiredOwner \in effectiveOwner(entries, path)
  BY DEF CheckCodeowners
<1>3. PICK i \in DOMAIN entries :
        LastMatch(entries, i, path) /\ effectiveOwner(entries, path) = entries[i].owners
  BY <1>2 DEF effectiveOwner
<1>4. /\ i \in DOMAIN entries /\ Matches(entries, i, path)
      /\ \A j \in DOMAIN entries : ~(j > i /\ Matches(entries, j, path))
  BY <1>3, Zenon DEF LastMatch
<1>5. RequiredOwner \in entries[i].owners
  BY <1>2, <1>3, Zenon
<1> QED
  BY <1>4, <1>5, Zenon DEF Owned

-----------------------------------------------------------------------------
(* The repository *)

\* Settings, dispatches and the clock leave the revisions and the pull requests alone.
LEMMA QuietStep ==
  ASSUME WorldOK, Dated, Ordered, UNCHANGED <<revisions, pulls>>,
         codeowners' \in Contents, guarded' \in BOOLEAN, run' \in Nat,
         now' \in Nat, now <= now'
  PROVE  WorldOK' /\ Dated' /\ Ordered' /\ Grown
<1>1. WorldOK'
  BY DEF WorldOK
<1>2. Dated'
  <2>1. SUFFICES ASSUME NEW i \in DOMAIN pulls PROVE pulls[i].CreatedAt <= now'
    BY DEF Dated
  <2>2. pulls[i].CreatedAt \in Nat /\ pulls[i].CreatedAt <= now /\ now \in Nat
    <3>1. pulls \in Seq(Requests) /\ i \in DOMAIN pulls
      BY DEF WorldOK
    <3>2. pulls[i] \in Requests
      BY <3>1
    <3> QED
      BY <3>2 DEF Dated, WorldOK, Requests
  <2> QED
    BY <2>2
<1>3. Ordered'
  BY DEF Ordered
<1>4. Current \in Nat
  BY DEF WorldOK, Current
<1>5. Grown
  BY <1>4 DEF Grown, Current
<1> QED
  BY <1>1, <1>2, <1>3, <1>5

\* A revision that appears, or is merged once more, is merged now.
LEMMA RevisionStep ==
  ASSUME WorldOK, Dated, Ordered, UNCHANGED <<codeowners, guarded, pulls, run, now>>,
         revisions' \in Seq(Revisions), Len(revisions) <= Len(revisions'),
         \A r \in DOMAIN revisions' : \A p \in revisions'[r].pulls :
           p.base = Branch /\ p.merged # Unmerged =>
             p.merged = now \/ (r \in DOMAIN revisions /\ p \in revisions[r].pulls)
  PROVE  WorldOK' /\ Dated' /\ Ordered' /\ Grown
<1>1. WorldOK'
  BY DEF WorldOK
<1>2. Dated'
  BY DEF Dated
<1>3. Ordered'
  <2>1. SUFFICES ASSUME NEW r \in DOMAIN revisions', NEW i \in DOMAIN pulls,
                        pulls[i].under < r, NEW p \in revisions'[r].pulls,
                        p.base = Branch, p.merged # Unmerged
                 PROVE  pulls[i].CreatedAt <= p.merged
    BY DEF Ordered
  <2>2. CASE p.merged = now
    BY <2>2 DEF Dated
  <2>3. CASE r \in DOMAIN revisions /\ p \in revisions[r].pulls
    BY <2>1, <2>3 DEF Ordered
  <2> QED
    BY <2>1, <2>2, <2>3
<1>4. Grown
  BY DEF Grown, Current
<1> QED
  BY <1>1, <1>2, <1>3, <1>4

LEMMA PublishStep ==
  ASSUME WorldOK, Dated, Ordered, Publish
  PROVE  WorldOK' /\ Dated' /\ Ordered' /\ Grown
<1>1. PICK there \in BOOLEAN, from \in {{}, {Merge(Branch, now)}},
           also \in {{}, {Merge(Branch, Unmerged), Merge(Other, 1)}} :
        revisions' = Append(revisions, [there |-> there, pulls |-> from \cup also])
  BY DEF Publish
<1>2. Branch # Other
  BY PresenceAssumption
<1> DEFINE new == [there |-> there, pulls |-> from \cup also]
<1>3. new \in Revisions
  <2>1. from \cup also \subseteq [base : {Branch, Other}, merged : Nat]
    BY DEF Merge, WorldOK, Unmerged
  <2> QED
    BY <2>1 DEF Revisions
<1>4. \A p \in new.pulls : p.base = Branch /\ p.merged # Unmerged => p.merged = now
  BY <1>2 DEF Merge
<1> HIDE DEF new
<1>5. revisions \in Seq(Revisions) /\ revisions' = Append(revisions, new)
  BY <1>1 DEF WorldOK, new
<1>6. revisions' \in Seq(Revisions) /\ Len(revisions) <= Len(revisions')
  BY <1>3, <1>5
<1>7. \A r \in DOMAIN revisions' : \/ r \in DOMAIN revisions /\ revisions'[r] = revisions[r]
                                   \/ revisions'[r] = new
  BY <1>3, <1>5
<1>8. UNCHANGED <<codeowners, guarded, pulls, run, now>>
  BY DEF Publish
<1>9. \A r \in DOMAIN revisions' : \A p \in revisions'[r].pulls :
        p.base = Branch /\ p.merged # Unmerged =>
          p.merged = now \/ (r \in DOMAIN revisions /\ p \in revisions[r].pulls)
  BY <1>4, <1>7
<1> QED
  BY <1>6, <1>8, <1>9, RevisionStep

LEMMA CarryStep ==
  ASSUME WorldOK, Dated, Ordered, Carry
  PROVE  WorldOK' /\ Dated' /\ Ordered' /\ Grown
<1> DEFINE new == [revisions[Current] EXCEPT
                     !.pulls = revisions[Current].pulls \cup {Merge(Branch, now)}]
<1>1. revisions \in Seq(Revisions) /\ Current \in DOMAIN revisions
  BY DEF Carry, Current, WorldOK
<1>2. revisions[Current] \in Revisions
  BY <1>1
<1>3. Merge(Branch, now) \in [base : {Branch, Other}, merged : Nat]
  BY DEF Merge, WorldOK
<1>4. new \in Revisions /\ new.pulls = revisions[Current].pulls \cup {Merge(Branch, now)}
  BY <1>2, <1>3 DEF Revisions
<1>5. revisions' = [revisions EXCEPT ![Current] = new]
  BY DEF Carry
<1> HIDE DEF new
<1>6. revisions' \in Seq(Revisions) /\ Len(revisions) = Len(revisions')
  BY <1>1, <1>4, <1>5
<1>7. Len(revisions) <= Len(revisions')
  BY <1>1, <1>6
<1>8. \A r \in DOMAIN revisions' : \/ r \in DOMAIN revisions /\ revisions'[r] = revisions[r]
                                   \/ r = Current /\ revisions'[r] = new
  BY <1>1, <1>4, <1>5
<1>9. \A r \in DOMAIN revisions' : \A p \in revisions'[r].pulls :
        p.base = Branch /\ p.merged # Unmerged =>
          p.merged = now \/ (r \in DOMAIN revisions /\ p \in revisions[r].pulls)
  BY <1>1, <1>4, <1>8 DEF Merge
<1>10. UNCHANGED <<codeowners, guarded, pulls, run, now>>
  BY DEF Carry
<1> QED
  BY <1>6, <1>7, <1>9, <1>10, RevisionStep

\* A pull request that is opened is of the revision that is live, and of now.
LEMMA OpenStep ==
  ASSUME WorldOK, Dated, Ordered, NEW author \in {ExpectedActor, Human},
         NEW same \in BOOLEAN, NEW base \in {Branch, Other}, Open(author, same, base),
         run' \in Nat, UNCHANGED <<codeowners, guarded, revisions, now>>
  PROVE  WorldOK' /\ Dated' /\ Ordered' /\ Grown
<1> DEFINE new == [Author |-> author, SameRepo |-> same, BaseRef |-> base,
                   CreatedAt |-> now, under |-> Current]
<1>1. Current \in Nat /\ Current' = Current
  BY DEF Current, WorldOK
<1>2. new \in Requests /\ new.CreatedAt = now /\ new.under = Current
  BY <1>1 DEF Requests, WorldOK
<1>3. pulls \in Seq(Requests) /\ pulls' = Append(pulls, new)
  BY DEF WorldOK, Open
<1> HIDE DEF new
<1>4. pulls' \in Seq(Requests)
  BY <1>2, <1>3
<1>5. \A i \in DOMAIN pulls : i \in DOMAIN pulls' /\ pulls'[i] = pulls[i]
  BY <1>2, <1>3
<1>6. \A i \in DOMAIN pulls' : i \in DOMAIN pulls \/ pulls'[i] = new
  BY <1>2, <1>3
<1>7. WorldOK'
  BY <1>4 DEF WorldOK
<1>8. Dated'
  <2>1. now \in Nat
    BY DEF WorldOK
  <2> QED
    BY <1>2, <1>5, <1>6, <2>1 DEF Dated
<1>9. Ordered'
  <2>1. SUFFICES ASSUME NEW r \in DOMAIN revisions, NEW i \in DOMAIN pulls',
                        pulls'[i].under < r, NEW p \in revisions[r].pulls,
                        p.base = Branch, p.merged # Unmerged
                 PROVE  pulls'[i].CreatedAt <= p.merged
    BY DEF Ordered
  <2>2. r \in 1 .. Current
    BY DEF WorldOK, Current
  <2>3. pulls'[i] # new
    BY <1>1, <1>2, <2>1, <2>2
  <2> QED
    BY <1>5, <1>6, <2>1, <2>3 DEF Ordered
<1>10. Grown
  BY <1>1, <1>2, <1>5, <1>6 DEF Grown
<1> QED
  BY <1>7, <1>8, <1>9, <1>10

LEMMA RepositoryStep ==
  ASSUME WorldOK, Dated, Ordered, Repository
  PROVE  WorldOK' /\ Dated' /\ Ordered' /\ Grown
<1> USE DEF WorldOK
<1>1. now <= now /\ Current \in Nat
  BY DEF Current
<1>2. CASE EditCodeowners
  BY <1>1, <1>2, QuietStep DEF EditCodeowners
<1>3. CASE Protect
  <2>1. guarded' \in BOOLEAN
    BY <1>3 DEF Protect
  <2> QED
    BY <1>1, <1>3, <2>1, QuietStep DEF Protect
<1>4. CASE Dispatch
  BY <1>1, <1>4, QuietStep DEF Dispatch
<1>5. CASE Tick
  <2>1. now' \in Nat /\ now <= now'
    BY <1>5 DEF Tick
  <2> QED
    BY <1>5, <2>1, QuietStep DEF Tick
<1>6. CASE Publish
  BY <1>6, PublishStep
<1>7. CASE Carry
  BY <1>7, CarryStep
<1>8. ASSUME NEW base \in {Branch, Other}, RunOpens(base) PROVE WorldOK' /\ Dated' /\ Ordered' /\ Grown
  BY <1>8, OpenStep DEF RunOpens, NoRun
<1>9. ASSUME NEW same \in BOOLEAN, SomeoneOpens(same) PROVE WorldOK' /\ Dated' /\ Ordered' /\ Grown
  BY <1>9, OpenStep DEF SomeoneOpens
<1> HIDE DEF WorldOK
<1> QED
  BY <1>2, <1>3, <1>4, <1>5, <1>6, <1>7, <1>8, <1>9 DEF Repository

-----------------------------------------------------------------------------
(* Under a check *)

LEMMA RepositoryKeeps ==
  ASSUME IInv, Repository, UNCHANGED <<check, begun>>,
         stood' = IF At("green") \/ ~check.satisfied THEN stood ELSE stood \cup Holds'
  PROVE  IInv'
<1> USE DEF IInv
<1>1. WorldOK' /\ Dated' /\ Ordered' /\ Grown
  BY RepositoryStep
<1>2. CheckOK'
  BY DEF CheckOK, Holds
<1>3. Current \in Nat /\ Current' \in Nat /\ begun \in Nat /\ Current <= Current'
  BY <1>1 DEF WorldOK, Current, CheckOK, Grown
<1>4. DOMAIN revisions = 1 .. Current /\ DOMAIN revisions' = 1 .. Current'
  BY <1>1 DEF WorldOK, Current
<1>5. InHand'
  <2>1. begun' <= Current'
    BY <1>3 DEF InHand
  <2>2. At("published")' => check'.hand \in DOMAIN revisions' /\ begun' <= check'.hand
    BY <1>3, <1>4 DEF InHand, At
  <2>3. ASSUME At("pulls"), check.satisfied, NEW i \in DOMAIN pulls', pulls'[i].under < begun
        PROVE  pulls'[i].CreatedAt <= check.hand
    <3>1. i \in DOMAIN pulls
      BY <1>1, <1>3, <2>3 DEF Grown, InHand
    <3> QED
      BY <1>1, <2>3, <3>1 DEF Grown, InHand
  <2> QED
    BY <2>1, <2>2, <2>3 DEF InHand, At
<1>6. Found'
  <2>1. ASSUME NEW i \in DOMAIN pulls, Fresh(i) PROVE i \in DOMAIN pulls' /\ Fresh(i)'
    BY <1>1, <2>1 DEF Grown, Fresh
  <2> QED
    BY <2>1 DEF Found, At
<1>7. Judged'
  BY DEF Judged, At
<1> QED
  BY <1>1, <1>2, <1>5, <1>6, <1>7

LEMMA BeginKeeps ==
  ASSUME IInv, Begin, UNCHANGED world, begun' = Current, stood' = Holds
  PROVE  IInv'
<1> USE DEF IInv, world
<1>1. check' = [at |-> "codeowners", satisfied |-> TRUE, hand |-> 0]
  BY DEF Begin
<1>2. WorldOK' /\ Dated' /\ Ordered'
  BY DEF WorldOK, Dated, Ordered
<1>3. Current \in Nat /\ Current' = Current /\ Holds' = Holds
  BY DEF WorldOK, Current, Holds, HasWorkflow
<1>4. CheckOK'
  BY <1>1, <1>3 DEF CheckOK, Pcs, Reading, Holds
<1>5. InHand'
  BY <1>1, <1>3 DEF InHand, At
<1>6. Found' /\ Judged'
  BY <1>1, <1>3 DEF Found, Judged, At
<1> QED
  BY <1>2, <1>4, <1>5, <1>6

\* Where a step of the check may take it.
LEMMA MoveKeeps ==
  ASSUME IInv, UNCHANGED world, NEW pc \in Pcs, NEW sat \in BOOLEAN, NEW hand \in Nat,
         check' = [at |-> pc, satisfied |-> sat, hand |-> hand],
         begun' = IF check'.satisfied THEN begun ELSE 0,
         stood' = IF check'.satisfied THEN stood ELSE {},
         ~At("green"), sat => check.satisfied,
         pc = "published" => hand \in DOMAIN revisions /\ begun <= hand,
         pc = "pulls" /\ sat =>
           \A i \in DOMAIN pulls : pulls[i].under < begun => pulls[i].CreatedAt <= hand,
         pc \in {"verdict", "green"} /\ sat => \E i \in DOMAIN pulls : Fresh(i),
         pc = "green" => sat,
         sat /\ pc # "codeowners" => "owned" \in stood,
         sat /\ pc \notin {"codeowners", "protection"} => "guarded" \in stood,
         sat /\ pc \notin {"codeowners", "protection", "workflow"} => "workflow" \in stood
  PROVE  IInv'
<1> USE DEF IInv, world
<1>1. WorldOK' /\ Dated' /\ Ordered'
  BY DEF WorldOK, Dated, Ordered
<1>2. check'.at = pc /\ check'.satisfied = sat /\ check'.hand = hand
  OBVIOUS
<1>3. Current \in Nat /\ Current' = Current /\ Holds' = Holds /\ begun \in Nat
  BY DEF WorldOK, Current, Holds, HasWorkflow, CheckOK
<1>4. CheckOK'
  BY DEF CheckOK
<1>5. begun' \in Nat /\ begun' <= begun /\ (sat => begun' = begun /\ stood' = stood)
  BY <1>2, <1>3
<1>6. InHand'
  <2>1. begun' <= Current'
    BY <1>3, <1>5 DEF InHand
  <2>2. ASSUME pc = "published" PROVE hand \in DOMAIN revisions' /\ begun' <= hand
    BY <1>3, <1>5, <2>2
  <2>3. ASSUME pc = "pulls", sat, NEW i \in DOMAIN pulls, pulls[i].under < begun'
        PROVE  pulls[i].CreatedAt <= hand
    BY <1>5, <2>3
  <2> QED
    BY <1>2, <2>1, <2>2, <2>3 DEF InHand, At
<1>7. Found'
  BY <1>2, <1>5 DEF Found, At, Fresh
<1>8. Judged'
  BY <1>2, <1>3, <1>5 DEF Judged, At
<1> QED
  BY <1>1, <1>4, <1>6, <1>7, <1>8

\* The merge that is read last, and what is found with it.
LEMMA PublishTime ==
  ASSUME IInv, At("published"), check.satisfied, NEW p \in revisions[check.hand].pulls,
         p.base = Branch, p.merged # Unmerged, NEW i \in DOMAIN pulls, pulls[i].under < begun
  PROVE  pulls[i].CreatedAt <= p.merged
<1> USE DEF IInv
<1>1. check.hand \in DOMAIN revisions /\ begun <= check.hand
  BY DEF InHand
<1>2. pulls \in Seq(Requests) /\ begun \in Nat /\ check.hand \in Nat
  BY DEF WorldOK, CheckOK
<1>3. pulls[i].under \in Nat
  <2>1. pulls[i] \in Requests
    BY <1>2
  <2> QED
    BY <2>1 DEF Requests
<1>4. pulls[i].under < check.hand
  BY <1>1, <1>2, <1>3
<1> QED
  BY <1>1, <1>4 DEF Ordered

LEMMA EligibleIsFresh ==
  ASSUME IInv, At("pulls"), check.satisfied,
         \E pull \in ListRecentPullRequests : Eligible(pull, check.hand)
  PROVE  \E i \in DOMAIN pulls : Fresh(i)
<1> USE DEF IInv
<1>1. PICK i \in DOMAIN pulls : Eligible(pulls[i], check.hand)
  BY DEF ListRecentPullRequests
<1>2. pulls \in Seq(Requests) /\ begun \in Nat /\ check.hand \in Nat
  BY DEF WorldOK, CheckOK
<1>3. pulls[i].under \in Nat /\ pulls[i].CreatedAt \in Nat
  <2>1. pulls[i] \in Requests
    BY <1>2
  <2> QED
    BY <2>1 DEF Requests
<1>4. pulls[i].CreatedAt > check.hand
  BY <1>1 DEF Eligible
<1>5. ~(pulls[i].CreatedAt <= check.hand)
  BY <1>2, <1>3, <1>4
<1>6. ~(pulls[i].under < begun)
  BY <1>5 DEF InHand
<1>7. pulls[i].under >= begun
  BY <1>2, <1>3, <1>6
<1> QED
  BY <1>1, <1>7 DEF Eligible, Fresh

LEMMA CheckKeeps ==
  ASSUME IInv, Check, UNCHANGED world,
         begun' = IF check'.satisfied THEN begun ELSE 0,
         stood' = IF check'.satisfied THEN stood ELSE {}
  PROVE  IInv'
<1>1. check \in [at : Pcs, satisfied : BOOLEAN, hand : Nat] /\ 0 \in Nat
  BY DEF IInv, CheckOK
<1>2. check.satisfied \in BOOLEAN
  BY <1>1
<1>3. \A pc \in Reading : pc \in Pcs
  BY DEF Pcs
<1>4. codeowners \in Contents /\ Current \in Nat /\ (Current > 0 => Current \in DOMAIN revisions)
  BY DEF IInv, WorldOK, Current
<1>5. begun <= Current
  BY DEF IInv, InHand
<1>6. CASE ReadCodeowners
  <2>1. PICK shown \in {CheckCodeowners(codeowners, sacredRequiredPaths), FALSE} :
          Go("protection", shown, 0)
    BY <1>6 DEF ReadCodeowners, Judge
  <2>2. At("codeowners")
    BY <1>6 DEF ReadCodeowners, Judge
  <2>3. check.satisfied /\ shown => "owned" \in Holds
    BY <1>4, <2>1, OwnersAreSound DEF Holds, Pillars
  <2> DEFINE sat == check.satisfied /\ shown
  <2>4. check' = [at |-> "protection", satisfied |-> sat, hand |-> 0] /\ sat \in BOOLEAN
    BY <2>1 DEF Go
  <2>5. sat => "owned" \in stood
    BY <2>2, <2>3 DEF IInv, Judged, At
  <2>6. sat => check.satisfied
    OBVIOUS
  <2> HIDE DEF sat
  <2> QED
    BY <1>1, <1>3, <2>2, <2>4, <2>5, <2>6, MoveKeeps DEF At, Reading
<1>7. CASE CheckBranchProtection
  <2>1. PICK shown \in {guarded, FALSE} : Go("workflow", shown, 0)
    BY <1>7 DEF CheckBranchProtection, Judge
  <2>2. At("protection")
    BY <1>7 DEF CheckBranchProtection, Judge
  <2> DEFINE sat == check.satisfied /\ shown
  <2>3. check' = [at |-> "workflow", satisfied |-> sat, hand |-> 0] /\ sat \in BOOLEAN
    BY <2>1 DEF Go
  <2>4. sat => "owned" \in stood /\ "guarded" \in stood
    BY <2>1, <2>2 DEF IInv, Judged, At, Holds, Pillars
  <2>5. sat => check.satisfied
    OBVIOUS
  <2> HIDE DEF sat
  <2> QED
    BY <1>1, <1>3, <2>2, <2>3, <2>4, <2>5, MoveKeeps DEF At, Reading
<1>8. CASE checkPRCreationWorkflow
  <2>1. PICK shown \in {HasWorkflow, FALSE} : Go("revision", shown, 0)
    BY <1>8 DEF checkPRCreationWorkflow, Judge
  <2>2. At("workflow")
    BY <1>8 DEF checkPRCreationWorkflow, Judge
  <2> DEFINE sat == check.satisfied /\ shown
  <2>3. check' = [at |-> "revision", satisfied |-> sat, hand |-> 0] /\ sat \in BOOLEAN
    BY <2>1 DEF Go
  <2>4. sat => Pillars \subseteq stood
    BY <2>1, <2>2 DEF IInv, Judged, At, Holds, Pillars
  <2>5. sat => check.satisfied
    OBVIOUS
  <2> HIDE DEF sat
  <2> QED
    BY <1>1, <1>3, <2>2, <2>3, <2>4, <2>5, MoveKeeps DEF At, Reading, Pillars
<1> DEFINE Nothing == check' = [at |-> "verdict", satisfied |-> FALSE, hand |-> 0]
<1>9. ASSUME Nothing, ~At("green") PROVE IInv'
  BY <1>1, <1>3, <1>9, MoveKeeps DEF Reading
<1>10. At("revision") \/ At("published") \/ At("pulls") \/ At("verdict") =>
         (check.satisfied => Pillars \subseteq stood)
  BY DEF IInv, Judged, At, Pillars
<1>11. CASE lastCommitSHA
  <2>1. At("revision") /\ ~At("green")
    BY <1>11 DEF lastCommitSHA, At
  <2>2. CASE Go("verdict", FALSE, 0)
    BY <1>9, <2>1, <2>2 DEF Go
  <2>3. CASE Current > 0 /\ Go("published", TRUE, Current)
    <3>1. check' = [at |-> "published", satisfied |-> check.satisfied, hand |-> Current]
      BY <1>2, <2>3 DEF Go
    <3> QED
      BY <1>2, <1>3, <1>4, <1>5, <1>10, <2>1, <2>3, <3>1, MoveKeeps DEF Reading, Pillars
  <2> QED
    BY <1>11, <2>2, <2>3 DEF lastCommitSHA
<1>12. CASE commitPublishTime
  <2>1. At("published") /\ ~At("green")
    BY <1>12 DEF commitPublishTime, At
  <2>2. CASE Go("verdict", FALSE, 0)
    BY <1>9, <2>1, <2>2 DEF Go
  <2>3. ASSUME NEW p \in revisions[check.hand].pulls, p.base = Branch, p.merged # Unmerged,
               Go("pulls", TRUE, p.merged)
        PROVE  IInv'
    <3>1. check' = [at |-> "pulls", satisfied |-> check.satisfied, hand |-> p.merged]
      BY <1>2, <2>3 DEF Go
    <3>2. revisions \in Seq(Revisions) /\ check.hand \in DOMAIN revisions
      BY <2>1 DEF IInv, WorldOK, InHand
    <3>3. revisions[check.hand] \in Revisions
      BY <3>2
    <3>4. p.merged \in Nat
      BY <2>3, <3>3 DEF Revisions
    <3>5. check.satisfied =>
            \A i \in DOMAIN pulls : pulls[i].under < begun => pulls[i].CreatedAt <= p.merged
      BY <2>1, <2>3, PublishTime
    <3> QED
      BY <1>2, <1>3, <1>10, <2>1, <3>1, <3>4, <3>5, MoveKeeps DEF Reading, Pillars
  <2> QED
    BY <1>12, <2>2, <2>3 DEF commitPublishTime
<1>13. CASE checkLoopPRAuthor
  <2> DEFINE seen == \E pull \in ListRecentPullRequests : Eligible(pull, check.hand)
  <2>1. PICK shown \in {seen, FALSE} : Go("verdict", shown, 0)
    BY <1>13 DEF checkLoopPRAuthor, Judge
  <2>2. At("pulls") /\ ~At("green")
    BY <1>13 DEF checkLoopPRAuthor, Judge, At
  <2> DEFINE sat == check.satisfied /\ shown
  <2>3. check' = [at |-> "verdict", satisfied |-> sat, hand |-> 0] /\ sat \in BOOLEAN
    BY <2>1 DEF Go
  <2>4. sat => check.satisfied /\ seen
    BY <2>1
  <2>5. sat => \E i \in DOMAIN pulls : Fresh(i)
    BY <2>2, <2>4, EligibleIsFresh
  <2> HIDE DEF sat, seen
  <2> QED
    BY <1>1, <1>3, <1>10, <2>2, <2>3, <2>4, <2>5, MoveKeeps DEF Reading, Pillars
<1>14. CASE Verdict
  <2>1. At("verdict") /\ ~At("green")
    BY <1>14 DEF Verdict, At
  <2>2. CASE check.satisfied
    <3>1. check' = [at |-> "green", satisfied |-> TRUE, hand |-> check.hand] /\ check.hand \in Nat
      BY <1>1, <1>14, <2>2 DEF Verdict
    <3>2. "green" \in Pcs
      BY DEF Pcs
    <3>3. \E i \in DOMAIN pulls : Fresh(i)
      BY <2>1, <2>2 DEF IInv, Found, At
    <3> QED
      BY <1>10, <2>1, <2>2, <3>1, <3>2, <3>3, MoveKeeps DEF Pillars
  <2>3. CASE ~check.satisfied
    <3>1. check' = [at |-> "idle", satisfied |-> FALSE, hand |-> 0] /\ "idle" \in Pcs
      BY <1>14, <2>3 DEF Verdict, NoCheck, Pcs
    <3> QED
      BY <1>1, <2>1, <3>1, MoveKeeps
  <2> QED
    BY <2>2, <2>3
<1> QED
  BY <1>6, <1>7, <1>8, <1>11, <1>12, <1>13, <1>14 DEF Check

LEMMA InitIInv == Init => IInv
<1> SUFFICES ASSUME Init PROVE IInv
  OBVIOUS
<1>1. WorldOK
  BY DEF Init, WorldOK, NoRun
<1>2. CheckOK
  BY DEF Init, CheckOK, NoCheck, Pcs
<1>3. Dated /\ Ordered
  BY DEF Init, Dated, Ordered
<1>4. InHand /\ Found /\ Judged
  BY DEF Init, InHand, Found, Judged, NoCheck, At, Current
<1> QED
  BY <1>1, <1>2, <1>3, <1>4 DEF IInv

LEMMA NextIInv == IInv /\ [Next]_vars => IInv'
<1> SUFFICES ASSUME IInv, [Next]_vars PROVE IInv'
  OBVIOUS
<1>1. CASE UNCHANGED vars
  BY <1>1 DEF vars, world, IInv, WorldOK, CheckOK, Dated, Ordered, InHand, Found, Judged,
              Fresh, At, Current, Holds, HasWorkflow
<1>2. CASE Next
  BY <1>2, RepositoryKeeps, BeginKeeps, CheckKeeps DEF Next
<1> QED
  BY <1>1, <1>2

\* The invariant the theorems below follow from.
THEOREM PresenceInvariant == Spec => []IInv
BY InitIInv, NextIInv, PTL DEF Spec

\* The state is of its types in every behaviour.
THEOREM PresenceTypeCorrect == Spec => []TypeOK
<1>1. IInv => TypeOK
  BY SameTypes DEF IInv
<1> QED
  BY <1>1, PresenceInvariant, PTL

\* EvidenceIsFresh for any history of the repository: a pull request left over from a
\* workflow that was replaced before the check began never makes it green.
THEOREM FreshEvidence == Spec => []EvidenceIsFresh
<1>1. IInv => EvidenceIsFresh
  BY DEF IInv, Found, EvidenceIsFresh, Fresh, At
<1> QED
  BY <1>1, PresenceInvariant, PTL

\* GreenIsEarned for any CODEOWNERS, paths and rules: what a green check judged to be met
\* was so while it ran.
THEOREM EarnedGreen == Spec => []GreenIsEarned
<1>1. IInv => GreenIsEarned
  BY DEF IInv, Found, Judged, CheckOK, GreenIsEarned, Pillars, At
<1> QED
  BY <1>1, PresenceInvariant, PTL
=============================================================================
