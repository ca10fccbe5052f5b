------------------------------ MODULE AuditOutbox ------------------------------
(***************************************************************************)
(* What the journal promises the audit trail: it is the outbox of every     *)
(* lifecycle record.  A record is kept from the moment it is written, says  *)
(* the same until it is dropped, and is dropped only after it was sent.     *)
(***************************************************************************)

VARIABLES
  kept,    \* records the journal can still reconstruct
  sent     \* records that are durable in the audit trail

Init == kept = {} /\ sent = {}

Write == kept \subseteq kept' /\ UNCHANGED sent
Send == sent \subseteq sent' /\ sent' \subseteq sent \cup kept /\ UNCHANGED kept
Drop == kept' \subseteq kept /\ kept \ kept' \subseteq sent /\ UNCHANGED sent

Next == Write \/ Send \/ Drop

Spec == Init /\ [][Next]_<<kept, sent>>
=============================================================================
