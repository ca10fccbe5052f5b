------------------------------ MODULE SacredRules ------------------------------
(***************************************************************************)
(* Code ownership as internal/enforcement evaluates it.  CODEOWNERS is a     *)
(* sequence of entries, each a pattern with its owners; a path is the        *)
(* sequence of its segments.  A pattern is anchored at the root or not,      *)
(* stands for what lies under a directory or for the path itself, and is     *)
(* made of segments: a segment with its stars is the set of names it stands  *)
(* for, and the empty set is the two stars that cross directories.           *)
(***************************************************************************)
EXTENDS Naturals, Sequences

RequiredOwner == "@chnu-kim"

Deep == {}

\* tail[i, j]: the pattern from its segment i on matches the path from j on.  Two stars
\* between slashes stand for at least one segment.
codeownersPatternMatches(pattern, path) ==
  LET segs == pattern.segs
      end == Len(path) + 1
      tail[i \in 1 .. Len(segs) + 1, j \in 1 .. end] ==
        IF i > Len(segs) THEN pattern.dirOnly <=> j < end
        ELSE IF segs[i] = Deep THEN \E k \in j + 1 .. end : tail[i + 1, k]
        ELSE j < end /\ path[j] \in segs[i] /\ tail[i + 1, j + 1]
  IN \E j \in 1 .. end : (pattern.anchored => j = 1) /\ tail[1, j]

Matches(entries, i, path) == codeownersPatternMatches(entries[i].pattern, path)

\* Entry i is the last one, in file order, that matches the path.
LastMatch(entries, i, path) ==
  /\ i \in DOMAIN entries /\ Matches(entries, i, path)
  /\ \A j \in DOMAIN entries : j > i => ~Matches(entries, j, path)

\* A slip: any entry that names the path protects it.
effectiveOwnerOfAny(entries, path) ==
  UNION {entries[i].owners : i \in {j \in DOMAIN entries : Matches(entries, j, path)}}

\* The owners of the last match, whole; none without a match.
effectiveOwner(entries, path) ==
  IF \E i \in DOMAIN entries : LastMatch(entries, i, path)
  THEN entries[CHOOSE i \in DOMAIN entries : LastMatch(entries, i, path)].owners
  ELSE {}

\* Every sacred path is owned; nothing is in a file that is missing or blank.
CheckCodeowners(entries, sacred) ==
  /\ entries # <<>>
  /\ \A path \in sacred : RequiredOwner \in effectiveOwner(entries, path)
=============================================================================
