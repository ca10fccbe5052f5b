---------------------------- MODULE MCPresenceCheck ----------------------------
EXTENDS PresenceCheck

Adr == <<"docs", "adr", "0004">>
Gate == <<"internal", "gate", "retry">>

Entry(anchored, segs, dirOnly, owners) ==
  [pattern |-> [anchored |-> anchored, segs |-> segs, dirOnly |-> dirOnly], owners |-> owners]

AdrRule == Entry(TRUE, <<{"docs"}, {"adr"}, {"0004", "0009"}>>, FALSE, {RequiredOwner})
GateRule == Entry(TRUE, <<{"internal"}, {"gate"}>>, TRUE, {RequiredOwner})
Anything == Entry(FALSE, <<Deep>>, FALSE, {RequiredOwner})
\* One file of what is owned is given to nobody, or a directory to another.
Stripped == Entry(FALSE, <<{"gate"}, {"retry"}>>, FALSE, {})
Given == Entry(TRUE, <<{"docs"}>>, TRUE, {"@other"})

SomeContents == {<<Given, AdrRule, GateRule>>, <<Anything, Stripped>>}
SomePaths == {Adr, Gate}
=============================================================================
