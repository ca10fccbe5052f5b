----------------------------- MODULE MCVerdictGate -----------------------------
EXTENDS VerdictGate, TLC

CONSTANTS p1, p2

PR(cross, author) == [isCrossRepository |-> cross, author |-> author]
Loop == PR(FALSE, RequiredAuthor)

\* Both of the loop's, or a fork's and somebody else's.
SomeMetas ==
  {p1 :> Loop @@ p2 :> Loop, p1 :> PR(TRUE, RequiredAuthor) @@ p2 :> PR(FALSE, "other")}

Note == <<"docs", "note">>
Adr == <<"docs", "adr", "note">>
Order == <<"internal", "order", "submit">>

SomePushes == p1 :> 1 @@ p2 :> 0

Change(new, old, hunk) == [filename |-> new, previous |-> old, hunk |-> hunk]
Plain == [changes |-> {Change(Note, NoPath, "text")}, injected |-> FALSE]
Moved == [changes |-> {Change(Note, Adr, "text")}, injected |-> FALSE]
Injected == [changes |-> {Change(Note, NoPath, "text")}, injected |-> TRUE]
\* One pull request whose commits need both legs or codex alone, and one that injects.
AllContents == p1 :> {Moved, Plain} @@ p2 :> {Injected}

Verdict(decision, evidence) ==
  [leg |-> "codex", decision |-> decision, rationale |-> "because", evidence |-> evidence]
Cite(file, hunk) == [file |-> file, hunk |-> hunk]
AllVerdicts ==
  {Verdict("approve", {Cite(Note, "text")}), Verdict("approve", {Cite(Order, "text")}),
   Verdict("approve", {Cite(Note, "made up")}), Verdict("approve", {}),
   Verdict("approve", {Cite(Note, Blank)}), Verdict("reject", {}), Verdict("maybe", {})}

Rule(pattern, class) == [pattern |-> pattern, class |-> class]

\* configs/gate/risk-classification.json.
Mapping ==
  <<Rule(<<"**">>, "critical"),
   Rule(<<"docs", "**">>, "non-critical"),
   Rule(<<"docs", "adr", "**">>, "critical"),
   Rule(<<"internal", "market", "**">>, "non-critical"),
   Rule(<<"internal", "account", "**">>, "non-critical"),
   Rule(<<"internal", "strategy", "**">>, "non-critical"),
   Rule(<<".claude", "**">>, "non-critical"),
   Rule(<<"internal", "order", "**">>, "critical"),
   Rule(<<"internal", "toss", "**">>, "critical"),
   Rule(<<"internal", "config", "**">>, "critical"),
   Rule(<<"internal", "enforcement", "**">>, "critical"),
   Rule(<<"internal", "gate", "**">>, "critical"),
   Rule(<<"cmd", "verdict-gate", "**">>, "critical"),
   Rule(<<"configs", "gate", "**">>, "critical"),
   Rule(<<".github", "**">>, "critical")>>

Sacred == {Adr, Order}
=============================================================================
