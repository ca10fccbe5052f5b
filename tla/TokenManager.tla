------------------------------ MODULE TokenManager ------------------------------
(***************************************************************************)
(* internal/toss: the one OAuth token of a client.  Calls (Client.Get and    *)
(* Client.Post) share it, issue a new one in a single detached flight, and   *)
(* drop it when the broker refuses it; issuing a token makes the broker      *)
(* refuse the one before.  A step is one region under mu, one exchange with  *)
(* the broker or one wait.                                                   *)
(*                                                                           *)
(* Tokens are named by the flight that issues them, and 0 is none.  The      *)
(* clock is abstract: a token is fresh, then due for refresh, then expired   *)
(* (the leeway is less than its life, so it starts fresh), and a failure     *)
(* holds the next issuance off for a while.  A cancelled context is a choice *)
(* wherever the code looks at it.  The broker is external: it may take a     *)
(* token back, answer late or not at all, or issue for a client that left.   *)
(***************************************************************************)
EXTENDS Integers, FiniteSets

CONSTANTS
  Calls, Posts,    \* the calls, and those of them that write
  maxRetries,
  MaxEvents        \* bound: failed flights, late issues, revocations, ageing

ASSUME TokenAssumption == Posts \subseteq Calls /\ maxRetries \in Nat /\ MaxEvents \in Nat

\* One more than NoHerd allows.
Flights == 1 .. MaxEvents + 2

VARIABLES
  token, age,              \* the cached token: its refreshAt and expiresAt
  lastErr, terminal, held,     \* lastErr, terminalErr # nil, now < holdUntil
  inflight, pending,       \* inflight, pendingFailureReports
  flights,                 \* each issuance
  accepted, issued,        \* the broker: the token it accepts, those it ever issued
  calls,                   \* each call and its locals
  quiesce,                 \* the shutdown's wait
  events                   \* history: what may have caused a flight

cache == <<token, age>>
failure == <<lastErr, terminal, held>>
refresh == <<inflight, pending, flights>>
broker == <<accepted, issued>>
vars == <<cache, failure, refresh, broker, calls, quiesce, events>>

NoToken == 0
Ages == {"fresh", "due", "expired"}
Errors == {"transient", "terminal"}

\* A flight asks the broker, finishes under mu, and releases its waiters; a failed one
\* is over when its report is.
FlightPcs == {"new", "asking", "finished", "done", "over"}
Waiting == {"wait", "waitStale", "waitLate"}
CallPcs == {"idle", "get", "send", "refused"} \cup Waiting

\* A call's locals; refused is the token behind triedRefresh.
NoCall == [at |-> "idle", flight |-> 0, token |-> NoToken, gets |-> 0, sends |-> 0,
           refused |-> NoToken]

Init ==
  /\ token = NoToken /\ age = "expired"
  /\ lastErr = "none" /\ terminal = FALSE /\ held = FALSE
  /\ inflight = 0 /\ pending = 0
  /\ flights = [f \in Flights |-> [at |-> "new", result |-> "none"]]
  /\ accepted = NoToken /\ issued = {}
  /\ calls = [c \in Calls |-> NoCall]
  /\ quiesce = [at |-> "idle", flight |-> 0]
  /\ events = 0

-----------------------------------------------------------------------------
(* Flights *)

Event == events < MaxEvents /\ events' = events + 1

\* startFlightLocked
StartFlight ==
  LET f == Cardinality({g \in Flights : flights[g].at # "new"}) + 1 IN
    /\ f \in Flights
    /\ inflight' = f
    /\ flights' = [flights EXCEPT ![f].at = "asking"]

\* The broker issues: what it accepted before, it refuses from now on.  The request of a
\* flight that timed out may still arrive.
Issue(f) ==
  /\ flights[f].at # "new" /\ flights[f].result \in {"none", "transient"}
  /\ f \notin issued
  /\ IF flights[f].at = "asking" THEN UNCHANGED events ELSE Event
  /\ accepted' = f /\ issued' = issued \cup {f}
  /\ UNCHANGED <<cache, failure, refresh, calls, quiesce>>

\* It takes its token back: expiry on its clock, rotation, another client.
Revoke ==
  /\ accepted # NoToken /\ Event
  /\ accepted' = NoToken
  /\ UNCHANGED <<cache, failure, refresh, issued, calls, quiesce>>

Finish(f, result) ==
  /\ flights[f].at = "asking"
  /\ flights' = [flights EXCEPT ![f] = [at |-> "finished", result |-> result]]
  /\ inflight' = IF inflight = f THEN 0 ELSE inflight

\* finishLocked after an answer with a token.
FlightSucceeds(f) ==
  /\ f \in issued /\ Finish(f, "ok")
  /\ token' = f /\ age' = "fresh"
  /\ lastErr' = "none" /\ terminal' = FALSE /\ held' = FALSE
  /\ UNCHANGED <<pending, broker, calls, quiesce, events>>

\* finishLocked after anything else, an answer lost or useless and a panic (which is
\* terminal) included; the report is owed from the same region on.
FlightFails(f) ==
  /\ Event
  /\ \E error \in Errors :
       /\ Finish(f, error)
       /\ lastErr' = error /\ held' = TRUE
       /\ terminal' = (terminal \/ error = "terminal")
  /\ pending' = pending + 1
  /\ UNCHANGED <<cache, broker, calls, quiesce>>

\* A slip: a flight that panicked leaves its waiters behind.
CloseDoneUnlessTerminal(f) ==
  /\ flights[f].at = "finished" /\ flights[f].result # "terminal"
  /\ flights' = [flights EXCEPT ![f].at = IF flights[f].result = "ok" THEN "over" ELSE "done"]
  /\ UNCHANGED <<cache, failure, inflight, pending, broker, calls, quiesce, events>>

CloseDone(f) ==
  /\ flights[f].at = "finished"
  /\ flights' = [flights EXCEPT ![f].at = IF flights[f].result = "ok" THEN "over" ELSE "done"]
  /\ UNCHANGED <<cache, failure, inflight, pending, broker, calls, quiesce, events>>

\* notifyRefreshFailure: the hook has returned or panicked.
Report(f) ==
  /\ flights[f].at = "done"
  /\ flights' = [flights EXCEPT ![f].at = "over"]
  /\ pending' = pending - 1
  /\ quiesce' = IF pending' = 0 /\ quiesce.at = "reports"
                THEN [quiesce EXCEPT !.at = "look"] ELSE quiesce
  /\ UNCHANGED <<cache, failure, inflight, broker, calls, events>>

HoldEnds ==
  /\ held /\ held' = FALSE
  /\ UNCHANGED <<cache, lastErr, terminal, refresh, broker, calls, quiesce, events>>

Age ==
  /\ token # NoToken /\ age # "expired" /\ Event
  /\ age' = IF age = "fresh" THEN "due" ELSE "expired"
  /\ UNCHANGED <<token, failure, refresh, broker, calls, quiesce>>

-----------------------------------------------------------------------------
(* get *)

At(c, pc) == calls[c].at = pc
Valid == token # NoToken /\ age = "fresh"
Stale == token # NoToken /\ age # "expired"

Go(c, pc) == calls' = [calls EXCEPT ![c].at = pc]
Join(c, pc) == calls' = [calls EXCEPT ![c] = [@ EXCEPT !.at = pc, !.flight = inflight']]
Return(c) == calls' = [calls EXCEPT ![c] = NoCall]
Serve(c, t) == calls' = [calls EXCEPT ![c] = [@ EXCEPT !.at = "send", !.token = t, !.flight = 0]]

\* acquireToken's answer to an error of get: a transient one is slept over, unless the
\* retries are used up or the context ends.
Fail(c, error) ==
  \/ /\ error = "transient" /\ calls[c].gets < maxRetries
     /\ calls' = [calls EXCEPT ![c] =
          [@ EXCEPT !.at = "get", !.gets = calls[c].gets + 1, !.flight = 0]]
  \/ Return(c)

Paced == lastErr # "none" /\ held

GetValid(c) ==
  /\ At(c, "get") /\ Valid
  /\ Serve(c, token)
  /\ UNCHANGED <<cache, failure, refresh, broker, quiesce, events>>

\* getStaleLocked, first region; a caller whose context has ended starts no flight.
GetStale(c) ==
  /\ At(c, "get") /\ Stale /\ ~Valid
  /\ \/ inflight = 0 /\ ~Paced /\ StartFlight
     \/ UNCHANGED <<inflight, flights>>
  /\ IF terminal THEN Return(c)
     ELSE IF inflight' = 0 THEN Serve(c, token) ELSE Join(c, "waitStale")
  /\ UNCHANGED <<cache, failure, pending, broker, quiesce, events>>

\* A slip: a caller without a token asks for one of its own.
GetNoneAsks(c) ==
  /\ At(c, "get") /\ ~Stale
  /\ \/ Paced /\ UNCHANGED <<inflight, flights>> /\ Fail(c, lastErr)
     \/ ~Paced /\ StartFlight /\ Join(c, "wait")
     \/ ~Paced /\ UNCHANGED <<inflight, flights>> /\ Return(c)
  /\ UNCHANGED <<cache, failure, pending, broker, quiesce, events>>

GetNone(c) ==
  /\ At(c, "get") /\ ~Stale
  /\ \/ inflight # 0 /\ UNCHANGED <<inflight, flights>> /\ Join(c, "wait")
     \/ inflight = 0 /\ Paced /\ UNCHANGED <<inflight, flights>> /\ Fail(c, lastErr)
     \/ inflight = 0 /\ ~Paced /\ StartFlight /\ Join(c, "wait")
     \/ inflight = 0 /\ ~Paced /\ UNCHANGED <<inflight, flights>> /\ Return(c)
  /\ UNCHANGED <<cache, failure, pending, broker, quiesce, events>>

\* A waiter takes what its flight brought.  A caller that had a stale token falls back on
\* the cached one after a transient failure.
TakeResult(c) ==
  LET f == calls[c].flight
      result == flights[f].result IN
    /\ calls[c].at \in Waiting /\ flights[f].at \in {"done", "over"}
    /\ IF result = "ok" THEN Serve(c, f)
       ELSE IF result = "transient" /\ ~At(c, "wait") /\ Stale THEN Serve(c, token)
       ELSE Fail(c, result)
    /\ UNCHANGED <<cache, failure, refresh, broker, quiesce, events>>

\* refreshBudget is over: an expired token cannot be served, so the wait goes on.
BudgetElapses(c) ==
  /\ At(c, "waitStale")
  /\ IF Stale THEN Serve(c, token) ELSE Go(c, "waitLate")
  /\ UNCHANGED <<cache, failure, refresh, broker, quiesce, events>>

\* The context ends in a wait.
Cancel(c) ==
  /\ calls[c].at \in Waiting
  /\ Return(c)
  /\ UNCHANGED <<cache, failure, refresh, broker, quiesce, events>>

-----------------------------------------------------------------------------
(* Client.Get and Client.Post *)

\* The loop of Get goes round, with the next acquireToken.
Again(c, n, t) ==
  calls' = [calls EXCEPT ![c] = [@ EXCEPT !.at = "get", !.gets = 0, !.token = NoToken,
                                          !.sends = n, !.refused = t]]

\* Answered by the handler, which only an accepted token reaches, or with a 401.
Answered(c) ==
  /\ At(c, "send")
  /\ IF calls[c].token = accepted \/ calls[c].refused # NoToken
     THEN Return(c) ELSE Go(c, "refused")
  /\ UNCHANGED <<cache, failure, refresh, broker, quiesce, events>>

\* 429, 5xx or no answer.
Unavailable(c) ==
  /\ At(c, "send")
  /\ \/ /\ c \notin Posts /\ calls[c].sends < maxRetries
        /\ Again(c, calls[c].sends + 1, calls[c].refused)
     \/ Return(c)
  /\ UNCHANGED <<cache, failure, refresh, broker, quiesce, events>>

\* A slip: whatever is cached goes.
InvalidateAny(c) ==
  /\ At(c, "refused")
  /\ token' = NoToken /\ age' = "expired"
  /\ IF c \in Posts THEN Return(c)
     ELSE Again(c, calls[c].sends, calls[c].token)
  /\ UNCHANGED <<failure, refresh, broker, quiesce, events>>

\* invalidate, and what follows: Get tries once more, Post never.
Invalidate(c) ==
  /\ At(c, "refused")
  /\ IF token = calls[c].token THEN token' = NoToken /\ age' = "expired"
     ELSE UNCHANGED cache
  /\ IF c \in Posts THEN Return(c)
     ELSE Again(c, calls[c].sends, calls[c].token)
  /\ UNCHANGED <<failure, refresh, broker, quiesce, events>>

BeginCall(c) ==
  /\ At(c, "idle") /\ Go(c, "get")
  /\ UNCHANGED <<cache, failure, refresh, broker, quiesce, events>>

-----------------------------------------------------------------------------
(* waitForRefreshQuiescence *)

Wait(pc, f) ==
  /\ quiesce' = [at |-> pc, flight |-> f]
  /\ UNCHANGED <<cache, failure, refresh, broker, calls, events>>

BeginQuiescence == quiesce.at = "idle" /\ Wait("look", 0)
\* A slip: only owed reports are waited for.
LookAtReports ==
  /\ quiesce.at = "look"
  /\ IF pending # 0 THEN Wait("reports", 0) ELSE Wait("idle", 0)

Look ==
  /\ quiesce.at = "look"
  /\ IF inflight # 0 THEN Wait("flight", inflight)
     ELSE IF pending # 0 THEN Wait("reports", 0) ELSE Wait("idle", 0)
FlightDone ==
  /\ quiesce.at = "flight" /\ flights[quiesce.flight].at \in {"done", "over"}
  /\ Wait("look", 0)
GiveUp == quiesce.at \in {"flight", "reports"} /\ Wait("idle", 0)

-----------------------------------------------------------------------------
Flight(f) == Issue(f) \/ FlightSucceeds(f) \/ FlightFails(f) \/ CloseDone(f) \/ Report(f)
Call(c) ==
  \/ GetValid(c) \/ GetStale(c) \/ GetNone(c) \/ TakeResult(c) \/ BudgetElapses(c)
  \/ Answered(c) \/ Unavailable(c) \/ Invalidate(c)

Next ==
  \/ \E f \in Flights : Flight(f)
  \/ \E c \in Calls : Call(c) \/ Cancel(c) \/ BeginCall(c)
  \/ Revoke \/ HoldEnds \/ Age
  \/ BeginQuiescence \/ Look \/ FlightDone \/ GiveUp

\* The HTTP timeout ends every flight, its recover boundary and that of the hook every
\* panic; no context has to end.  Once the events are used up a flight can only succeed.
Spec == Init /\ [][Next]_vars
FairSpec ==
  /\ Spec
  /\ \A f \in Flights : WF_vars(Flight(f))
  /\ \A c \in Calls : WF_vars(Call(c))

-----------------------------------------------------------------------------
Started == {f \in Flights : flights[f].at # "new"}

TypeOK ==
  /\ token \in {NoToken} \cup Flights /\ age \in Ages
  /\ lastErr \in {"none"} \cup Errors /\ terminal \in BOOLEAN /\ held \in BOOLEAN
  /\ inflight \in {0} \cup Flights /\ pending \in Nat
  /\ flights \in [Flights -> [at : FlightPcs, result : {"none", "ok"} \cup Errors]]
  /\ accepted \in {NoToken} \cup Flights /\ issued \subseteq Flights
  /\ calls \in [Calls -> [at : CallPcs, flight : {0} \cup Flights, token : {NoToken} \cup Flights,
                          gets : 0 .. maxRetries, sends : 0 .. maxRetries,
                          refused : {NoToken} \cup Flights]]
  /\ quiesce \in [at : {"idle", "look", "flight", "reports"},
                  flight : {0} \cup Flights]
  /\ events \in 0 .. MaxEvents 

\* No herd: whatever calls pile up, are refused or fail together, a token is issued only
\* for a cause of its own, which is an issuance that failed or came late, a token taken
\* back, or age (token.go:60-65, 391-439, 480-493).
NoHerd == Cardinality(Started) <= events + 1

\* The cached token is the one the broker accepts, unless it took that back or has
\* issued one whose answer is still on its way or was lost (token.go:60-65).
CacheIsCurrent ==
  token # NoToken =>
    \/ accepted \in {token, NoToken, inflight}
    \/ flights[accepted].result \in Errors

\* A call that was refused is not sent again with the token that was refused, though the
\* stale fallback hands cached tokens out; nor is a replacement dropped in its place
\* (token.go:480-493, client.go:253-258).
RefusedNotResent == \A c \in Calls : At(c, "send") => calls[c].token # calls[c].refused
DropsOnlyRefused == [][token # NoToken /\ token' = NoToken => token # accepted]_vars

\* When the shutdown's wait returns quiet, every failed issuance so far has been
\* reported and none runs that could still fail (token.go:189-212).
QuietIsReported ==
  [][quiesce.at = "look" /\ quiesce'.at = "idle" =>
       \A f \in Started : flights[f].result = "ok" \/ flights[f].at = "over"]_vars

\* Every call ends: no caller is left behind by a flight that failed or panicked, nor by
\* one it joined when another had started it (token.go:242-251, 391-439).
EveryCallEnds == \A c \in Calls : At(c, "get") ~> At(c, "idle")
=============================================================================
