--------------------------- MODULE TokenManagerProofs ---------------------------
(***************************************************************************)
(* That tokens are not wasted, for any number of calls, retries and events.  *)
(* At most one flight asks at a time and it is the last one begun, so the    *)
(* cached token is the newest that was answered.  The count of flights stays *)
(* within the count of events, but for one that is still of use (Slack): the *)
(* flight that asks, until the broker overtakes it, and after it the fresh   *)
(* token that the broker accepts.  A call only drops a token it was refused, *)
(* which the broker never accepts again.                                     *)
(***************************************************************************)
EXTENDS TokenManager, FiniteSetTheorems, TLAPS

Result(f) == flights[f].result

\* A flight asks while it is inflight, and what it brought is known from then on.
FlightsOK ==
  /\ \A f \in Flights : flights[f].at = "asking" <=> inflight = f
  /\ \A f \in Flights : flights[f].at \in {"new", "asking"} <=> Result(f) = "none"
  /\ \A f \in Flights : Result(f) = "ok" => f \in issued
  /\ \A f \in Flights : flights[f].at = "done" => Result(f) \in Errors
  /\ issued \subseteq Started /\ accepted \in {NoToken} \cup issued

\* Flights begin in order, the last when none before it asks.
InOrder ==
  /\ \E n \in Nat : Started = 1 .. n
  /\ inflight # 0 => \A g \in Started : g <= inflight

NewestCached ==
  token # NoToken => Result(token) = "ok" /\ \A g \in Flights : Result(g) = "ok" => g <= token

NewestAccepted ==
  accepted # NoToken /\ Result(accepted) = "ok" =>
    inflight \notin issued /\ \A g \in Flights : Result(g) = "ok" => g <= accepted

\* The failed flights whose report is not over.
Owed == {f \in Flights : Result(f) \in Errors /\ flights[f].at # "over"}
ReportsOwed == pending = Cardinality(Owed)

Asks == inflight # 0 /\ (inflight \in issued => accepted = inflight)
Serves == inflight = 0 /\ Valid /\ accepted = token
Slack ==
  \/ Cardinality(Started) <= events
  \/ Cardinality(Started) = events + 1 /\ (Asks \/ Serves)

\* What a call holds it was given, and a refused token stays refused.
CallOK(c) ==
  /\ calls[c].at \in Waiting => calls[c].flight \in Started
  /\ calls[c].at \in Waiting => calls[c].flight # calls[c].refused
  /\ calls[c].at \in {"send", "refused"} =>
       calls[c].token # NoToken /\ Result(calls[c].token) = "ok"
  /\ At(c, "send") => calls[c].token # calls[c].refused
  /\ At(c, "refused") => calls[c].token # accepted
  /\ calls[c].refused # NoToken => Result(calls[c].refused) = "ok" /\ token # calls[c].refused

Shared == FlightsOK /\ InOrder /\ NewestCached /\ NewestAccepted /\ ReportsOwed /\ Slack

IInv == TypeOK /\ Shared /\ \A c \in Calls : CallOK(c)

-----------------------------------------------------------------------------
(* Steps *)

LEMMA FlightsAre == Flights \subseteq Nat /\ 0 \notin Flights /\ IsFiniteSet(Flights)
<1>1. MaxEvents + 2 \in Int
  BY TokenAssumption
<1> QED
  BY <1>1, FS_Interval, TokenAssumption DEF Flights

\* What the flights, the broker and the cache see of a call that begins no flight.
Apart ==
  UNCHANGED <<token, age, inflight, pending, flights, accepted, issued, events>>
Begins ==
  /\ inflight = 0 /\ ~Valid /\ StartFlight
  /\ UNCHANGED <<token, age, pending, accepted, issued, events>>

LEMMA Steps ==
  ASSUME Next
  PROVE  \/ Apart \/ Begins
         \/ \E f \in Flights : Flight(f)
         \/ Revoke \/ Age \/ \E c \in Calls : Invalidate(c)
<1> USE DEF Apart, Begins, cache, failure, refresh, broker
<1>1. ASSUME NEW c \in Calls, GetStale(c) PROVE Apart \/ Begins
  BY <1>1 DEF GetStale
<1>2. ASSUME NEW c \in Calls, GetNone(c) PROVE Apart \/ Begins
  BY <1>2 DEF GetNone, Valid, Stale
<1>3. ASSUME NEW c \in Calls,
             \/ GetValid(c) \/ TakeResult(c) \/ BudgetElapses(c) \/ Answered(c)
             \/ Unavailable(c) \/ Cancel(c) \/ BeginCall(c)
      PROVE  Apart
  BY <1>3 DEF GetValid, TakeResult, BudgetElapses, Answered, Unavailable, Cancel, BeginCall
<1>4. HoldEnds => Apart
  BY DEF HoldEnds
<1>5. BeginQuiescence \/ Look \/ FlightDone \/ GiveUp => Apart
  BY DEF BeginQuiescence, Look, FlightDone, GiveUp, Wait
<1> QED
  BY <1>1, <1>2, <1>3, <1>4, <1>5 DEF Next, Call

-----------------------------------------------------------------------------
(* Types *)

Ats == CallPcs
Named == {0} \cup Flights
Counts == 0 .. maxRetries
CallStates ==
  [at : Ats, flight : Named, token : Named, gets : Counts, sends : Counts, refused : Named]

\* A call's step changes its own record, to this.
Moved(c, pc, f, t, g, s, u) ==
  /\ calls' \in [Calls -> CallStates]
  /\ \A d \in Calls \ {c} : calls'[d] = calls[d]
  /\ calls'[c].at = pc /\ calls'[c].flight = f /\ calls'[c].token = t
  /\ calls'[c].gets = g /\ calls'[c].sends = s /\ calls'[c].refused = u

LEMMA MovedTo ==
  ASSUME calls \in [Calls -> CallStates], NEW c \in Calls, NEW x \in CallStates,
         calls' = [calls EXCEPT ![c] = x]
  PROVE  Moved(c, x.at, x.flight, x.token, x.gets, x.sends, x.refused)
<1> HIDE DEF CallStates
<1> QED
  BY DEF Moved

LEMMA ReturnMoves ==
  ASSUME calls \in [Calls -> CallStates], NEW c \in Calls, Return(c)
  PROVE  Moved(c, "idle", 0, NoToken, 0, 0, NoToken)
<1>1. 0 \in Counts /\ "idle" \in Ats
  BY TokenAssumption DEF Counts, Ats, CallPcs
<1>2. NoCall \in CallStates
  BY <1>1 DEF NoCall, CallStates, Named, NoToken
<1> QED
  BY <1>2, MovedTo DEF Return, NoCall

LEMMA GoMoves ==
  ASSUME calls \in [Calls -> CallStates], NEW c \in Calls, NEW pc \in Ats, Go(c, pc)
  PROVE  LET r == calls[c] IN Moved(c, pc, r.flight, r.token, r.gets, r.sends, r.refused)
<1> DEFINE x == [calls[c] EXCEPT !.at = pc]
<1>1. calls[c] \in CallStates
  OBVIOUS
<1>2. /\ x \in CallStates /\ x.at = pc /\ x.flight = calls[c].flight
      /\ x.token = calls[c].token /\ x.gets = calls[c].gets /\ x.sends = calls[c].sends
      /\ x.refused = calls[c].refused
  BY <1>1 DEF CallStates
<1>3. calls' = [calls EXCEPT ![c] = x]
  BY DEF Go
<1> HIDE DEF x
<1> QED
  BY <1>2, <1>3, MovedTo

LEMMA JoinMoves ==
  ASSUME calls \in [Calls -> CallStates], NEW c \in Calls, NEW pc \in Ats, Join(c, pc),
         inflight' \in Named
  PROVE  LET r == calls[c] IN Moved(c, pc, inflight', r.token, r.gets, r.sends, r.refused)
<1> DEFINE x == [calls[c] EXCEPT !.at = pc, !.flight = inflight']
<1>1. calls[c] \in CallStates
  OBVIOUS
<1>2. /\ x \in CallStates /\ x.at = pc /\ x.flight = inflight'
      /\ x.token = calls[c].token /\ x.gets = calls[c].gets /\ x.sends = calls[c].sends
      /\ x.refused = calls[c].refused
  BY <1>1 DEF CallStates
<1>3. calls' = [calls EXCEPT ![c] = x]
  BY DEF Join
<1> HIDE DEF x
<1> QED
  BY <1>2, <1>3, MovedTo

LEMMA ServeMoves ==
  ASSUME calls \in [Calls -> CallStates], NEW c \in Calls, NEW t \in Named, Serve(c, t)
  PROVE  LET r == calls[c] IN Moved(c, "send", 0, t, r.gets, r.sends, r.refused)
<1> DEFINE x == [calls[c] EXCEPT !.at = "send", !.token = t, !.flight = 0]
<1>1. calls[c] \in CallStates /\ "send" \in Ats /\ 0 \in Named
  BY DEF Ats, CallPcs, Named
<1>2. /\ x \in CallStates /\ x.at = "send" /\ x.flight = 0
      /\ x.token = t /\ x.gets = calls[c].gets /\ x.sends = calls[c].sends
      /\ x.refused = calls[c].refused
  BY <1>1 DEF CallStates
<1>3. calls' = [calls EXCEPT ![c] = x]
  BY DEF Serve
<1> HIDE DEF x
<1> QED
  BY <1>2, <1>3, MovedTo

LEMMA FailMoves ==
  ASSUME calls \in [Calls -> CallStates], NEW c \in Calls, NEW e, Fail(c, e)
  PROVE  LET r == calls[c] IN
           \/ Moved(c, "idle", 0, NoToken, 0, 0, NoToken)
           \/ Moved(c, "get", 0, r.token, r.gets + 1, r.sends, r.refused)
<1>1. CASE Return(c)
  BY <1>1, ReturnMoves
<1>2. CASE ~Return(c)
  <2> DEFINE n == calls[c].gets + 1
             x == [calls[c] EXCEPT !.at = "get", !.gets = n, !.flight = 0]
  <2>1. calls[c] \in CallStates /\ "get" \in Ats /\ 0 \in Named
    BY DEF Ats, CallPcs, Named
  <2>2. calls[c].gets < maxRetries /\ calls' = [calls EXCEPT ![c] = x]
    BY <1>2 DEF Fail
  <2>3. n \in Counts
    BY <2>1, <2>2, TokenAssumption DEF CallStates, Counts
  <2> HIDE DEF n
  <2>4. /\ x \in CallStates /\ x.at = "get" /\ x.flight = 0
        /\ x.token = calls[c].token /\ x.gets = n /\ x.sends = calls[c].sends
        /\ x.refused = calls[c].refused
    BY <2>1, <2>3 DEF CallStates
  <2> HIDE DEF x
  <2>5. Moved(c, "get", 0, calls[c].token, n, calls[c].sends, calls[c].refused)
    BY <2>2, <2>4, MovedTo
  <2> QED
    BY <2>5 DEF n
<1> QED
  BY <1>1, <1>2

LEMMA AgainMoves ==
  ASSUME calls \in [Calls -> CallStates], NEW c \in Calls, NEW n \in Counts, NEW t \in Named,
         Again(c, n, t)
  PROVE  Moved(c, "get", calls[c].flight, NoToken, 0, n, t)
<1> DEFINE x == [calls[c] EXCEPT !.at = "get", !.gets = 0, !.token = NoToken, !.sends = n,
                                 !.refused = t]
<1>1. calls[c] \in CallStates /\ "get" \in Ats /\ NoToken \in Named /\ 0 \in Counts
  BY TokenAssumption DEF Ats, CallPcs, Named, NoToken, Counts
<1>2. /\ x \in CallStates /\ x.at = "get" /\ x.flight = calls[c].flight
      /\ x.token = NoToken /\ x.gets = 0 /\ x.sends = n /\ x.refused = t
  BY <1>1 DEF CallStates
<1>3. calls' = [calls EXCEPT ![c] = x]
  BY DEF Again
<1> HIDE DEF x
<1> QED
  BY <1>2, <1>3, MovedTo

\* What a step of a call makes of its record.
LEMMA CallTypes ==
  ASSUME TypeOK, NEW c \in Calls, Call(c) \/ Cancel(c) \/ BeginCall(c),
         \A d \in Calls : calls[d].at \in Waiting => calls[d].flight \in Flights
  PROVE  /\ calls' \in [Calls -> CallStates]
         /\ \A d \in Calls \ {c} : calls'[d] = calls[d]
<1>1. calls \in [Calls -> CallStates]
  BY DEF TypeOK, CallStates, Ats, Named, Counts, NoToken
<1>2. inflight' \in Named
  <2>1. inflight' = inflight \/ StartFlight
    BY DEF Call, GetValid, GetStale, GetNone, TakeResult, BudgetElapses, Answered,
           Unavailable, Invalidate, Cancel, BeginCall, refresh
  <2> QED
    BY <2>1 DEF StartFlight, TypeOK, Named
<1> DEFINE Kept == /\ calls' \in [Calls -> CallStates]
                   /\ \A d \in Calls \ {c} : calls'[d] = calls[d]
<1>3. \A pc, f, t, g, s, u : Moved(c, pc, f, t, g, s, u) => Kept
  BY DEF Moved
<1> HIDE DEF Kept
<1>4. Return(c) => Kept
  BY <1>1, <1>3, ReturnMoves
<1>5. \A pc \in Ats : Go(c, pc) => Kept
  BY <1>1, <1>3, GoMoves
<1>6. \A pc \in Ats : Join(c, pc) => Kept
  BY <1>1, <1>2, <1>3, JoinMoves
<1>7. \A t \in Named : Serve(c, t) => Kept
  BY <1>1, <1>3, ServeMoves
<1>8. \A e : Fail(c, e) => Kept
  BY <1>1, <1>3, FailMoves
<1>9. \A n \in Counts, t \in Named : Again(c, n, t) => Kept
  BY <1>1, <1>3, AgainMoves
<1>10. {"idle", "get", "send", "refused", "wait", "waitStale", "waitLate"} \subseteq Ats
  BY DEF Ats, CallPcs, Waiting
<1>11. token \in Named
  BY DEF TypeOK, Named, NoToken
<1>12. ASSUME GetValid(c) \/ GetStale(c) PROVE Kept
  BY <1>12, <1>4, <1>6, <1>7, <1>10, <1>11 DEF GetValid, GetStale
<1>13. ASSUME GetNone(c) PROVE Kept
  BY <1>13, <1>4, <1>6, <1>8, <1>10 DEF GetNone
<1>14. ASSUME TakeResult(c) \/ BudgetElapses(c) PROVE Kept
  <2>1. TakeResult(c) => calls[c].flight \in Named
    BY DEF TakeResult, Named
  <2> QED
    BY <1>14, <1>5, <1>7, <1>8, <1>10, <1>11, <2>1 DEF TakeResult, BudgetElapses
<1>15. ASSUME Answered(c) \/ Cancel(c) \/ BeginCall(c) PROVE Kept
  BY <1>15, <1>4, <1>5, <1>10 DEF Answered, Cancel, BeginCall
<1>16. calls[c].sends \in Counts /\ calls[c].token \in Named /\ calls[c].refused \in Named
  BY <1>1 DEF CallStates
<1>17. ASSUME Unavailable(c) PROVE Kept
  <2>1. calls[c].sends < maxRetries => calls[c].sends + 1 \in Counts
    BY <1>16, TokenAssumption DEF Counts
  <2> QED
    BY <1>17, <1>4, <1>9, <1>16, <2>1 DEF Unavailable
<1>18. ASSUME Invalidate(c) PROVE Kept
  BY <1>18, <1>4, <1>9, <1>16 DEF Invalidate
<1>19. Kept
  BY <1>12, <1>13, <1>14, <1>15, <1>17, <1>18 DEF Call
<1> QED
  BY <1>19 DEF Kept

-----------------------------------------------------------------------------
LEMMA Initial == Init => IInv
<1> SUFFICES ASSUME Init PROVE IInv
  OBVIOUS
<1>1. \A f \in Flights : flights[f].at = "new" /\ flights[f].result = "none"
  BY DEF Init
<1>2. Started = {} /\ Owed = {} /\ Cardinality({}) = 0
  BY <1>1, FS_EmptySet DEF Started, Owed, Result, Errors
<1>3. TypeOK
  <2>1. NoCall \in [at : CallPcs, flight : {0} \cup Flights, token : {NoToken} \cup Flights,
                    gets : 0 .. maxRetries, sends : 0 .. maxRetries,
                    refused : {NoToken} \cup Flights]
    <3>1. 0 \in 0 .. maxRetries /\ "idle" \in CallPcs
      BY TokenAssumption DEF CallPcs
    <3> QED
      BY <3>1 DEF NoCall
  <2>2. calls \in [Calls -> [at : CallPcs, flight : {0} \cup Flights,
                             token : {NoToken} \cup Flights, gets : 0 .. maxRetries,
                             sends : 0 .. maxRetries, refused : {NoToken} \cup Flights]]
    BY <2>1 DEF Init
  <2>3. flights \in [Flights -> [at : FlightPcs, result : {"none", "ok"} \cup Errors]]
    BY DEF Init, FlightPcs
  <2>4. events \in 0 .. MaxEvents
    BY TokenAssumption DEF Init
  <2>5. quiesce \in [at : {"idle", "look", "flight", "reports"}, flight : {0} \cup Flights]
    BY DEF Init
  <2> QED
    BY <2>2, <2>3, <2>4, <2>5 DEF TypeOK, Init, Ages
<1>4. FlightsOK
  BY <1>1, <1>2, FlightsAre DEF Init, FlightsOK, Result
<1>5. InOrder
  <2>1. 1 .. 0 = {}
    OBVIOUS
  <2> QED
    BY <1>2, <2>1 DEF Init, InOrder
<1>6. NewestCached /\ NewestAccepted
  BY DEF Init, NewestCached, NewestAccepted
<1>7. ReportsOwed /\ Slack
  BY <1>2 DEF Init, ReportsOwed, Slack
<1>8. \A c \in Calls : CallOK(c)
  BY DEF Init, CallOK, NoCall, Waiting, At
<1> QED
  BY <1>3, <1>4, <1>5, <1>6, <1>7, <1>8 DEF IInv, Shared

\* A report is owed while it is released.
LEMMA OwedIsFinite == IsFiniteSet(Owed) /\ IsFiniteSet(Started)
  BY FlightsAre, FS_Subset DEF Owed, Started

LEMMA ReportsCounted ==
  ASSUME TypeOK, FlightsOK, ReportsOwed, NEW f \in Flights, Flight(f)
  PROVE  ReportsOwed' /\ pending' \in Nat
<1> USE DEF Flight, refresh, broker, cache, failure
<1>1. ASSUME Issue(f) PROVE ReportsOwed' /\ pending' \in Nat
  BY <1>1 DEF Issue, ReportsOwed, Owed, Result, TypeOK
<1>2. ASSUME FlightSucceeds(f) PROVE ReportsOwed' /\ pending' \in Nat
  <2>1. Result(f) = "none"
    BY <1>2 DEF FlightSucceeds, Finish, FlightsOK
  <2>2. Owed' = Owed
    BY <1>2, <2>1 DEF FlightSucceeds, Finish, TypeOK, Owed, Result, Errors
  <2> QED
    BY <1>2, <2>2 DEF FlightSucceeds, ReportsOwed, TypeOK
<1>3. ASSUME FlightFails(f) PROVE ReportsOwed' /\ pending' \in Nat
  <2>1. Result(f) = "none" /\ f \notin Owed
    BY <1>3 DEF FlightFails, Finish, FlightsOK, Owed, Errors
  <2>2. PICK e \in Errors : Finish(f, e)
    BY <1>3 DEF FlightFails
  <2>3. Owed' = Owed \cup {f}
    BY <2>1, <2>2 DEF Finish, TypeOK, Owed, Result, Errors
  <2>4. Cardinality(Owed') = Cardinality(Owed) + 1
    BY <2>1, <2>3, OwedIsFinite, FS_AddElement
  <2> QED
    BY <1>3, <2>4 DEF FlightFails, ReportsOwed, TypeOK
<1>4. ASSUME CloseDone(f) PROVE ReportsOwed' /\ pending' \in Nat
  <2>1. Owed' = Owed
    BY <1>4 DEF CloseDone, TypeOK, Owed, Result, Errors
  <2> QED
    BY <1>4, <2>1 DEF CloseDone, ReportsOwed, TypeOK
<1>5. ASSUME Report(f) PROVE ReportsOwed' /\ pending' \in Nat
  <2>1. f \in Owed
    BY <1>5 DEF Report, FlightsOK, Owed
  <2>2. Owed' = Owed \ {f}
    BY <1>5 DEF Report, TypeOK, Owed, Result
  <2>3. Cardinality(Owed') = Cardinality(Owed) - 1 /\ Cardinality(Owed) # 0
    BY <2>1, <2>2, OwedIsFinite, FS_RemoveElement, FS_EmptySet
  <2>4. pending' = pending - 1
    BY <1>5 DEF Report
  <2>5. pending = Cardinality(Owed) /\ pending \in Nat
    BY DEF ReportsOwed, TypeOK
  <2>6. pending' = Cardinality(Owed') /\ pending' \in Nat
    BY <2>3, <2>4, <2>5
  <2> QED
    BY <2>6 DEF ReportsOwed
<1> QED
  BY <1>1, <1>2, <1>3, <1>4, <1>5

LEMMA TypeStep ==
  ASSUME IInv, Next
  PROVE  TypeOK'
<1> USE DEF cache, failure, refresh, broker
<1>1. \A d \in Calls : calls[d].at \in Waiting => calls[d].flight \in Flights
  BY DEF IInv, CallOK, Started
<1>2. CASE \E c \in Calls : Call(c) \/ Cancel(c) \/ BeginCall(c)
  <2>1. PICK c \in Calls : Call(c) \/ Cancel(c) \/ BeginCall(c)
    BY <1>2
  <2>2. calls' \in [Calls -> [at : CallPcs, flight : {0} \cup Flights,
                              token : {NoToken} \cup Flights, gets : 0 .. maxRetries,
                              sends : 0 .. maxRetries, refused : {NoToken} \cup Flights]]
    BY <1>1, <2>1, CallTypes DEF IInv, CallStates, Ats, Named, Counts, NoToken
  <2>3. UNCHANGED <<failure, pending, broker, quiesce, events>>
    BY <2>1 DEF Call, GetValid, GetStale, GetNone, TakeResult, BudgetElapses, Answered,
                Unavailable, Invalidate, Cancel, BeginCall
  <2>4. (token' = token /\ age' = age) \/ (token' = NoToken /\ age' = "expired")
    BY <2>1 DEF Call, GetValid, GetStale, GetNone, TakeResult, BudgetElapses, Answered,
                Unavailable, Invalidate, Cancel, BeginCall
  <2>5. UNCHANGED <<inflight, flights>> \/ StartFlight
    BY <2>1 DEF Call, GetValid, GetStale, GetNone, TakeResult, BudgetElapses, Answered,
                Unavailable, Invalidate, Cancel, BeginCall
  <2>6. /\ inflight' \in {0} \cup Flights
        /\ flights' \in [Flights -> [at : FlightPcs, result : {"none", "ok"} \cup Errors]]
    <3>1. CASE UNCHANGED <<inflight, flights>>
      BY <3>1 DEF IInv, TypeOK
    <3>2. CASE StartFlight
      <4>1. PICK f \in Flights :
              inflight' = f /\ flights' = [flights EXCEPT ![f].at = "asking"]
        BY <3>2 DEF StartFlight
      <4> QED
        BY <4>1 DEF IInv, TypeOK, FlightPcs
    <3> QED
      BY <2>5, <3>1, <3>2
  <2> QED
    BY <2>2, <2>3, <2>4, <2>6 DEF IInv, TypeOK, Ages
<1>3. ASSUME Event PROVE events' \in 0 .. MaxEvents
  BY <1>3, TokenAssumption DEF Event, IInv, TypeOK
<1>4. CASE \E f \in Flights : Flight(f)
  <2>1. PICK f \in Flights : Flight(f)
    BY <1>4
  <2>2. pending' \in Nat
    BY <2>1, ReportsCounted DEF IInv, Shared
  <2>3. events' \in 0 .. MaxEvents
    BY <1>3, <2>1 DEF Flight, Issue, FlightSucceeds, FlightFails, CloseDone, Report, IInv, TypeOK
  <2>4. /\ flights' \in [Flights -> [at : FlightPcs, result : {"none", "ok"} \cup Errors]]
        /\ inflight' \in {0} \cup Flights
    BY <2>1 DEF Flight, Issue, FlightSucceeds, FlightFails, CloseDone, Report, Finish, IInv,
                TypeOK, FlightPcs
  <2>5. /\ token' \in {NoToken} \cup Flights /\ age' \in Ages
        /\ accepted' \in {NoToken} \cup Flights /\ issued' \subseteq Flights
    BY <2>1 DEF Flight, Issue, FlightSucceeds, FlightFails, CloseDone, Report, IInv, TypeOK, Ages
  <2>6. /\ lastErr' \in {"none"} \cup Errors /\ terminal' \in BOOLEAN /\ held' \in BOOLEAN
    <3>1. ASSUME FlightFails(f)
          PROVE  lastErr' \in Errors /\ held' = TRUE /\ terminal' \in BOOLEAN
      BY <3>1 DEF FlightFails
    <3>2. ASSUME FlightSucceeds(f)
          PROVE  lastErr' = "none" /\ held' = FALSE /\ terminal' = FALSE
      BY <3>2 DEF FlightSucceeds
    <3>3. ASSUME Issue(f) \/ CloseDone(f) \/ Report(f)
          PROVE  UNCHANGED failure
      BY <3>3 DEF Issue, CloseDone, Report
    <3> QED
      BY <2>1, <3>1, <3>2, <3>3 DEF Flight, IInv, TypeOK
  <2>7. /\ quiesce' \in [at : {"idle", "look", "flight", "reports"}, flight : {0} \cup Flights]
        /\ calls' = calls
    BY <2>1 DEF Flight, Issue, FlightSucceeds, FlightFails, CloseDone, Report, IInv, TypeOK
  <2> QED
    BY <2>2, <2>3, <2>4, <2>5, <2>6, <2>7 DEF IInv, TypeOK
<1>5. CASE Revoke \/ HoldEnds
  <2>1. events' \in 0 .. MaxEvents
    BY <1>3, <1>5 DEF Revoke, HoldEnds, IInv, TypeOK
  <2> QED
    BY <1>5, <2>1 DEF Revoke, HoldEnds, IInv, TypeOK
<1>6. CASE Age
  <2>1. events' \in 0 .. MaxEvents
    BY <1>3, <1>6 DEF Age
  <2> QED
    BY <1>6, <2>1 DEF Age, IInv, TypeOK, Ages
<1>7. CASE BeginQuiescence \/ Look \/ FlightDone \/ GiveUp
  <2>1. quiesce' \in [at : {"idle", "look", "flight", "reports"}, flight : {0} \cup Flights]
    BY <1>7 DEF BeginQuiescence, Look, FlightDone, GiveUp, Wait, IInv, TypeOK
  <2>2. UNCHANGED <<cache, failure, refresh, broker, calls, events>>
    BY <1>7 DEF BeginQuiescence, Look, FlightDone, GiveUp, Wait
  <2> QED
    BY <2>1, <2>2 DEF IInv, TypeOK
<1> QED
  BY <1>2, <1>4, <1>5, <1>6, <1>7 DEF Next

-----------------------------------------------------------------------------
(* The flights and the broker *)

LEMMA BeginFacts ==
  ASSUME TypeOK, InOrder, Begins
  PROVE  /\ inflight' \in Flights \ Started
         /\ \A g \in Started : g < inflight'
         /\ flights' = [flights EXCEPT ![inflight'].at = "asking"]
         /\ Started' = Started \cup {inflight'}
         /\ Started' = 1 .. inflight'
         /\ Cardinality(Started') = Cardinality(Started) + 1
<1>1. PICK n \in Nat : Started = 1 .. n
  BY DEF InOrder
<1>2. Cardinality(Started) = n
  BY <1>1, FS_Interval
<1>3. /\ inflight' = n + 1 /\ inflight' \in Flights
      /\ flights' = [flights EXCEPT ![inflight'].at = "asking"]
  BY <1>2 DEF Begins, StartFlight, Started
<1>4. Started' = Started \cup {inflight'}
  BY <1>3 DEF Started, TypeOK
<1>5. Started' = 1 .. inflight' /\ inflight' \notin Started /\ \A g \in Started : g < inflight'
  BY <1>1, <1>3, <1>4
<1>6. Cardinality(Started') = n + 1
  <2>1. 1 \in Int /\ n + 1 \in Int /\ n + 1 >= 1
    OBVIOUS
  <2>2. Cardinality(1 .. (n + 1)) = (n + 1) - 1 + 1
    BY <2>1, FS_Interval
  <2> QED
    BY <1>3, <1>5, <2>2
<1> QED
  BY <1>2, <1>3, <1>4, <1>5, <1>6

LEMMA FlightsStep ==
  ASSUME IInv, Next
  PROVE  FlightsOK' /\ InOrder'
<1> USE DEF IInv, Shared, cache, failure, refresh, broker
<1>1. CASE Apart
  BY <1>1 DEF Apart, FlightsOK, InOrder, Started, Result
<1>2. CASE Begins
  <2>1. FlightsOK'
    BY <1>2, BeginFacts, FlightsAre DEF Begins, FlightsOK, Started, Result, TypeOK
  <2>2. InOrder'
    <3>1. inflight' \in Nat
      BY <1>2, BeginFacts, FlightsAre
    <3> QED
      BY <1>2, <3>1, BeginFacts DEF InOrder
  <2> QED
    BY <2>1, <2>2
<1>3. CASE \E f \in Flights : Flight(f)
  <2>1. PICK f \in Flights : Flight(f)
    BY <1>3
  <2>2. Started' = Started
    BY <2>1 DEF Flight, Issue, FlightSucceeds, FlightFails, CloseDone, Report, Finish, Started, TypeOK
  <2>3. CASE Issue(f)
    BY <2>2, <2>3 DEF Issue, FlightsOK, InOrder, Result, Started
  <2>4. CASE FlightSucceeds(f) \/ FlightFails(f)
    <3>1. PICK e \in {"ok"} \cup Errors : Finish(f, e) /\ (e = "ok" => f \in issued)
      <4>1. ASSUME FlightFails(f) PROVE \E e \in Errors : Finish(f, e)
        BY <4>1 DEF FlightFails
      <4>2. FlightSucceeds(f) => Finish(f, "ok") /\ f \in issued
        BY DEF FlightSucceeds
      <4>3. "ok" \notin Errors
        BY DEF Errors
      <4> QED
        BY <2>4, <4>1, <4>2, <4>3
    <3>2. accepted' = accepted /\ issued' = issued /\ inflight = f /\ inflight' = 0
      BY <2>4, <3>1 DEF FlightSucceeds, FlightFails, Finish, FlightsOK
    <3>3. FlightsOK'
      <4>1. /\ flights[f].at = "asking" /\ Result(f)' = e /\ flights'[f].at = "finished"
            /\ \A g \in Flights \ {f} : flights'[g] = flights[g]
        BY <3>1 DEF Finish, TypeOK, Result
      <4>2. \A g \in Flights : flights'[g].at = "asking" <=> inflight' = g
        BY <3>2, <4>1, FlightsAre DEF FlightsOK
      <4>3. \A g \in Flights : flights'[g].at \in {"new", "asking"} <=> Result(g)' = "none"
        BY <3>1, <4>1 DEF FlightsOK, Result, Errors
      <4>4. \A g \in Flights : Result(g)' = "ok" => g \in issued'
        BY <3>1, <3>2, <4>1 DEF FlightsOK, Result
      <4>5. \A g \in Flights : flights'[g].at = "done" => Result(g)' \in Errors
        BY <4>1 DEF FlightsOK, Result
      <4> QED
        BY <2>2, <3>2, <4>2, <4>3, <4>4, <4>5 DEF FlightsOK
    <3> QED
      BY <2>2, <3>2, <3>3 DEF InOrder
  <2>5. CASE CloseDone(f) \/ Report(f)
    <3>1. PICK pc \in {"done", "over"} :
            /\ flights' = [flights EXCEPT ![f].at = pc]
            /\ flights[f].at \in {"finished", "done"} /\ (pc = "done" => Result(f) # "ok")
      <4>1. CloseDone(f) => \/ flights' = [flights EXCEPT ![f].at = "over"]
                            \/ flights' = [flights EXCEPT ![f].at = "done"] /\ Result(f) # "ok"
        BY DEF CloseDone, Result
      <4>2. Report(f) => flights' = [flights EXCEPT ![f].at = "over"]
        BY DEF Report
      <4>3. flights[f].at \in {"finished", "done"}
        BY <2>5 DEF CloseDone, Report
      <4> QED
        BY <2>5, <4>1, <4>2, <4>3
    <3>2. UNCHANGED <<inflight, accepted, issued>>
      BY <2>5 DEF CloseDone, Report
    <3>3. /\ flights'[f].at = pc /\ \A g \in Flights \ {f} : flights'[g] = flights[g]
          /\ \A g \in Flights : Result(g)' = Result(g)
      BY <3>1 DEF TypeOK, Result
    <3>4. pc = "done" => Result(f) \in Errors
      <4>1. Result(f) # "none" /\ Result(f) \in {"none", "ok"} \cup Errors
        BY <3>1 DEF FlightsOK, TypeOK, Result
      <4> QED
        BY <3>1, <4>1
    <3>5. FlightsOK'
      BY <2>2, <3>1, <3>2, <3>3, <3>4 DEF FlightsOK, Result
    <3> QED
      BY <2>2, <3>2, <3>5 DEF InOrder
  <2> QED
    BY <2>1, <2>3, <2>4, <2>5 DEF Flight
<1>4. CASE Revoke \/ Age
  BY <1>4 DEF Revoke, Age, FlightsOK, InOrder, Started, Result
<1>5. CASE \E c \in Calls : Invalidate(c)
  BY <1>5 DEF Invalidate, FlightsOK, InOrder, Started, Result
<1> QED
  BY <1>1, <1>2, <1>3, <1>4, <1>5, Steps
\* What was answered stays answered, and nothing older takes its place.
LEMMA World ==
  ASSUME IInv, Next
  PROVE  /\ Started \subseteq Started'
         /\ \A g \in Flights : Result(g) = "ok" => Result(g)' = "ok"
         /\ token' = token \/ token' = NoToken \/ Result(token') # "ok"
         /\ accepted' = accepted \/ accepted' = NoToken \/ accepted' \notin issued
<1> USE DEF IInv, Shared, cache, failure, refresh, broker
<1>1. CASE Apart \/ Revoke \/ Age
  BY <1>1 DEF Apart, Revoke, Age, Started, Result
<1>2. CASE Begins
  <2>1. \A g \in Flights : flights'[g].result = flights[g].result
    BY <1>2, BeginFacts DEF TypeOK
  <2> QED
    BY <1>2, <2>1, BeginFacts DEF Begins, Result
<1>3. CASE \E f \in Flights : Flight(f)
  <2>1. PICK f \in Flights : Flight(f)
    BY <1>3
  <2>2. Started' = Started
    BY <2>1 DEF Flight, Issue, FlightSucceeds, FlightFails, CloseDone, Report, Finish, Started,
                TypeOK
  <2>3. CASE Issue(f)
    BY <2>2, <2>3 DEF Issue, Result
  <2>4. CASE FlightSucceeds(f) \/ FlightFails(f)
    <3>1. Result(f) = "none" /\ \A g \in Flights \ {f} : flights'[g] = flights[g]
      BY <2>4 DEF FlightSucceeds, FlightFails, Finish, FlightsOK, Result, TypeOK
    <3>2. accepted' = accepted /\ (token' = token \/ token' = f)
      BY <2>4 DEF FlightSucceeds, FlightFails
    <3> QED
      BY <2>2, <3>1, <3>2 DEF Result
  <2>5. CASE CloseDone(f) \/ Report(f)
    BY <2>2, <2>5 DEF CloseDone, Report, Result, TypeOK
  <2> QED
    BY <2>1, <2>3, <2>4, <2>5 DEF Flight
<1>4. CASE \E c \in Calls : Invalidate(c)
  BY <1>4 DEF Invalidate, Started, Result
<1> QED
  BY <1>1, <1>2, <1>3, <1>4, Steps

LEMMA NewestStep ==
  ASSUME IInv, Next
  PROVE  NewestCached' /\ NewestAccepted'
<1> USE DEF IInv, Shared, cache, failure, refresh, broker
<1>1. CASE Apart \/ Revoke \/ Age
  BY <1>1 DEF Apart, Revoke, Age, NewestCached, NewestAccepted, Result
<1>2. CASE Begins
  <2>1. \A g \in Flights : Result(g)' = Result(g)
    <3>1. \A g \in Flights : flights'[g].result = flights[g].result
      BY <1>2, BeginFacts DEF TypeOK
    <3> QED
      BY <3>1 DEF Result
  <2>2. token \in {NoToken} \cup Flights /\ accepted \in {NoToken} \cup Flights
    BY DEF TypeOK
  <2>3. inflight' \notin issued'
    BY <1>2, BeginFacts DEF Begins, FlightsOK
  <2> QED
    BY <1>2, <2>1, <2>2, <2>3 DEF Begins, NewestCached, NewestAccepted
<1>3. CASE \E f \in Flights : Flight(f)
  <2>1. PICK f \in Flights : Flight(f)
    BY <1>3
  <2>2. CASE Issue(f)
    BY <2>2 DEF Issue, NewestCached, NewestAccepted, Result
  <2>3. CASE FlightSucceeds(f) \/ FlightFails(f)
    <3>1. PICK e \in {"ok"} \cup Errors : Finish(f, e)
      BY <2>3 DEF FlightSucceeds, FlightFails
    <3>2. /\ Result(f) = "none" /\ inflight = f /\ inflight' = 0 /\ f \in Started
          /\ Result(f)' = e /\ \A g \in Flights \ {f} : Result(g)' = Result(g)
      BY <3>1 DEF Finish, FlightsOK, Result, TypeOK, Started
    <3>3. \A g \in Flights : Result(g) = "ok" => g \in Started /\ g <= f
      BY <3>2 DEF FlightsOK, InOrder
    <3>4. f <= f /\ 0 \notin Flights
      BY FlightsAre
    <3>5. accepted' = accepted /\ issued' = issued /\ 0 \notin issued
      BY <2>3, <3>4 DEF FlightSucceeds, FlightFails, TypeOK
    <3>6. CASE FlightSucceeds(f)
      <4>1. f \in issued /\ token' = f /\ Result(f)' = "ok"
        BY <3>2, <3>6 DEF FlightSucceeds, Finish, Result, TypeOK
      <4>2. \A g \in Flights : Result(g)' = "ok" => g <= f
        BY <3>2, <3>3, <3>4
      <4>3. accepted \in {NoToken, f} \/ Result(accepted) # "ok"
        BY <3>2, <4>1 DEF NewestAccepted
      <4>4. accepted \in {NoToken, f} \/ Result(accepted)' # "ok"
        BY <3>2, <3>5, <4>3 DEF TypeOK
      <4> QED
        BY <3>2, <3>5, <4>1, <4>2, <4>4 DEF NewestCached, NewestAccepted
    <3>7. CASE FlightFails(f)
      <4>1. token' = token /\ Result(f)' # "ok"
        <5>1. PICK d \in Errors : Finish(f, d)
          BY <3>7 DEF FlightFails
        <5>2. Result(f)' = d /\ d # "ok"
          BY <5>1 DEF Finish, Result, TypeOK, Errors
        <5> QED
          BY <3>7, <5>2 DEF FlightFails
      <4>2. \A g \in Flights : Result(g)' = "ok" <=> Result(g) = "ok"
        BY <3>2, <4>1
      <4> QED
        BY <3>2, <3>5, <4>1, <4>2 DEF NewestCached, NewestAccepted, TypeOK
    <3> QED
      BY <2>3, <3>6, <3>7
  <2>4. CASE CloseDone(f) \/ Report(f)
    <3>1. \A g \in Flights : Result(g)' = Result(g)
      BY <2>4 DEF CloseDone, Report, Result, TypeOK
    <3>2. UNCHANGED <<token, accepted, issued, inflight>>
      BY <2>4 DEF CloseDone, Report
    <3> QED
      BY <3>1, <3>2 DEF NewestCached, NewestAccepted, TypeOK
  <2> QED
    BY <2>1, <2>2, <2>3, <2>4 DEF Flight
<1>4. CASE \E c \in Calls : Invalidate(c)
  BY <1>4 DEF Invalidate, NewestCached, NewestAccepted, Result
<1> QED
  BY <1>1, <1>2, <1>3, <1>4, Steps

LEMMA ReportsStep ==
  ASSUME IInv, Next
  PROVE  ReportsOwed'
<1> USE DEF IInv, Shared, cache, failure, refresh, broker
<1>1. CASE Apart \/ Revoke \/ Age \/ \E c \in Calls : Invalidate(c)
  BY <1>1 DEF Apart, Revoke, Age, Invalidate, ReportsOwed, Owed, Result
<1>2. CASE Begins
  <2>1. \A g \in Flights : /\ Result(g)' = Result(g)
                           /\ g = inflight' \/ flights'[g].at = flights[g].at
    BY <1>2, BeginFacts DEF TypeOK, Result
  <2>2. Result(inflight') = "none" /\ inflight' \in Flights
    BY <1>2, BeginFacts DEF FlightsOK, Started
  <2>3. Owed' = Owed
    BY <2>1, <2>2 DEF Owed, Errors
  <2> QED
    BY <1>2, <2>3 DEF Begins, ReportsOwed
<1> QED
  BY <1>1, <1>2, ReportsCounted, Steps

\* A flight that was overtaken by none leaves a token that is of use; every way to lose
\* it is an event.
LEMMA SlackStep ==
  ASSUME IInv, Next
  PROVE  Slack'
<1> USE DEF IInv, Shared, cache, failure, refresh, broker
<1>1. Cardinality(Started) \in Nat /\ events \in Nat
  BY OwedIsFinite, FS_CardinalityType DEF TypeOK
<1>2. Event /\ Started' = Started => Slack'
  BY <1>1 DEF Event, Slack
<1>3. CASE Apart
  BY <1>3 DEF Apart, Slack, Started, Asks, Serves, Valid
<1>4. CASE Begins
  <2>1. Cardinality(Started) <= events
    BY <1>4 DEF Begins, Slack, Asks, Serves
  <2>2. Cardinality(Started') = Cardinality(Started) + 1 /\ events' = events
    BY <1>4, BeginFacts DEF Begins
  <2>3. inflight' # 0 /\ inflight' \notin issued'
    BY <1>4, BeginFacts, FlightsAre DEF Begins, FlightsOK
  <2> QED
    BY <1>1, <2>1, <2>2, <2>3 DEF Slack, Asks
<1>5. CASE \E f \in Flights : Flight(f)
  <2>1. PICK f \in Flights : Flight(f)
    BY <1>5
  <2>2. Started' = Started
    BY <2>1 DEF Flight, Issue, FlightSucceeds, FlightFails, CloseDone, Report, Finish, Started,
                TypeOK
  <2>3. CASE Issue(f)
    <3>1. CASE flights[f].at = "asking"
      <4>1. inflight = f /\ f # 0
        BY <3>1, FlightsAre DEF FlightsOK
      <4>2. Asks'
        BY <2>3, <4>1 DEF Issue, Asks
      <4>3. events' = events /\ Cardinality(Started) <= events + 1
        BY <1>1, <2>3, <3>1 DEF Issue, Slack
      <4> QED
        BY <1>1, <2>2, <4>2, <4>3 DEF Slack
    <3>2. CASE flights[f].at # "asking"
      BY <1>2, <2>2, <2>3, <3>2 DEF Issue
    <3> QED
      BY <3>1, <3>2
  <2>4. CASE FlightSucceeds(f)
    <3>1. inflight = f /\ inflight' = 0 /\ f \in issued /\ f # 0
      BY <2>4, FlightsAre DEF FlightSucceeds, Finish, FlightsOK
    <3>2. token' = f /\ Valid' /\ accepted' = accepted /\ events' = events
      BY <2>4, <3>1 DEF FlightSucceeds, Valid, NoToken
    <3>3. Asks => Serves'
      BY <3>1, <3>2 DEF Asks, Serves
    <3>4. ~Serves
      BY <3>1 DEF Serves
    <3> QED
      BY <2>2, <3>2, <3>3, <3>4 DEF Slack
  <2>5. CASE FlightFails(f)
    BY <1>2, <2>2, <2>5 DEF FlightFails
  <2>6. CASE CloseDone(f) \/ Report(f)
    <3>1. UNCHANGED <<token, age, inflight, accepted, issued, events>>
      BY <2>6 DEF CloseDone, Report
    <3> QED
      BY <2>2, <3>1 DEF Slack, Asks, Serves, Valid
  <2> QED
    BY <2>1, <2>3, <2>4, <2>5, <2>6 DEF Flight
<1>6. CASE Revoke \/ Age
  BY <1>2, <1>6 DEF Revoke, Age, Started
<1>7. CASE \E c \in Calls : Invalidate(c)
  <2>1. PICK c \in Calls : Invalidate(c)
    BY <1>7
  <2>2. UNCHANGED <<inflight, flights, accepted, issued, events>> /\ Started' = Started
    BY <2>1 DEF Invalidate, Started
  <2>3. Serves => Serves'
    <3>1. calls[c].token # accepted
      BY <2>1 DEF Invalidate, CallOK, At
    <3> QED
      BY <2>1, <3>1 DEF Invalidate, Serves, Valid
  <2> QED
    BY <2>2, <2>3 DEF Slack, Asks
<1> QED
  BY <1>3, <1>4, <1>5, <1>6, <1>7, Steps
-----------------------------------------------------------------------------
(* The calls *)

LEMMA CallKept ==
  ASSUME IInv, Next, NEW d \in Calls, calls'[d] = calls[d]
  PROVE  CallOK(d)'
<1>1. PICK r : calls[d] = r /\ calls'[d] = r
  OBVIOUS
<1>2. /\ r.token \in {NoToken} \cup Flights /\ r.refused \in {NoToken} \cup Flights
      /\ r.flight \in {0} \cup Flights
  BY <1>1 DEF IInv, TypeOK
<1>3. /\ r.at \in Waiting => r.flight \in Started
      /\ r.at \in Waiting => r.flight # r.refused
      /\ r.at \in {"send", "refused"} => r.token # NoToken /\ Result(r.token) = "ok"
      /\ r.at = "send" => r.token # r.refused
      /\ r.at = "refused" => r.token # accepted
      /\ r.refused # NoToken => Result(r.refused) = "ok" /\ token # r.refused
  BY <1>1 DEF IInv, CallOK, At
<1>4. \A g \in Flights : Result(g) = "ok" => g \in issued
  BY DEF IInv, Shared, FlightsOK
<1>5. /\ r.at \in Waiting => r.flight \in Started'
      /\ r.at \in {"send", "refused"} => Result(r.token)' = "ok"
      /\ r.refused # NoToken => Result(r.refused)' = "ok"
  BY <1>2, <1>3, World
<1>6. r.at = "refused" => r.token # accepted'
  BY <1>2, <1>3, <1>4, <1>5, World
<1>7. r.refused # NoToken => token' # r.refused
  BY <1>2, <1>3, World
<1> QED
  BY <1>1, <1>3, <1>5, <1>6, <1>7 DEF CallOK, At

LEMMA CallMoved ==
  ASSUME NEW c \in Calls, NEW pc, NEW f, NEW t, NEW g, NEW s, NEW u,
         Moved(c, pc, f, t, g, s, u),
         pc \in Waiting => f \in Started' /\ f # u,
         pc \in {"send", "refused"} => t # NoToken /\ Result(t)' = "ok",
         pc = "send" => t # u, pc = "refused" => t # accepted',
         u # NoToken => Result(u)' = "ok" /\ token' # u
  PROVE  CallOK(c)'
  BY DEF Moved, CallOK, At

LEMMA CallStep ==
  ASSUME IInv, Next, NEW c \in Calls, Call(c) \/ Cancel(c) \/ BeginCall(c)
  PROVE  CallOK(c)'
<1>1. PICK r \in CallStates : calls[c] = r
  BY DEF IInv, TypeOK, CallStates, Ats, Named, Counts, NoToken
<1>2. calls \in [Calls -> CallStates]
  BY DEF IInv, TypeOK, CallStates, Ats, Named, Counts, NoToken
<1>3. /\ r.flight \in Named /\ r.token \in Named /\ r.refused \in Named
      /\ r.gets \in Counts /\ r.sends \in Counts
  BY DEF CallStates
<1>4. /\ r.at \in Waiting => r.flight \in Started /\ r.flight # r.refused
      /\ r.at \in {"send", "refused"} => r.token # NoToken /\ Result(r.token) = "ok"
      /\ r.at = "refused" => r.token # accepted
      /\ r.refused # NoToken => Result(r.refused) = "ok" /\ token # r.refused
  BY <1>1 DEF IInv, CallOK, At
<1>5. \A g \in Flights : Result(g) = "ok" => Result(g)' = "ok"
  BY World
<1>6. r.refused # NoToken => Result(r.refused)' = "ok" /\ token' # r.refused
  BY <1>3, <1>4, World DEF Named, NoToken
<1>7. inflight' \in Named /\ (inflight' # 0 => inflight' \in Started' /\ inflight' # r.refused)
  <2>1. inflight' \in Named
    BY TypeStep DEF TypeOK, Named
  <2>2. \A g \in Flights : inflight' = g => g \in Started' /\ Result(g)' = "none"
    BY FlightsStep DEF FlightsOK, Started
  <2> QED
    BY <1>6, <2>1, <2>2 DEF Named, NoToken
<1>8. PICK k \in Named : token = k
  BY DEF IInv, TypeOK, Named, NoToken
<1>9. k # NoToken => Result(k)' = "ok" /\ k # r.refused
  BY <1>4, <1>5, <1>8 DEF IInv, Shared, NewestCached, Named, NoToken
<1>10. {"idle", "get", "send", "refused", "wait", "waitStale", "waitLate"} = Ats
  BY DEF Ats, CallPcs, Waiting
<1>11. Return(c) => CallOK(c)'
  <2> SUFFICES ASSUME Return(c) PROVE CallOK(c)'
    OBVIOUS
  <2>1. Moved(c, "idle", 0, NoToken, 0, 0, NoToken)
    BY <1>2, ReturnMoves
  <2> QED
    BY <2>1 DEF Moved, CallOK, At, Waiting
<1>12. ASSUME NEW t \in Flights, Serve(c, t), Result(t)' = "ok", t # r.refused PROVE CallOK(c)'
  <2>1. Moved(c, "send", 0, t, r.gets, r.sends, r.refused)
    BY <1>1, <1>2, <1>12, ServeMoves DEF Named
  <2> QED
    BY <1>6, <1>12, <2>1, FlightsAre, CallMoved DEF Waiting, NoToken
<1>13. ASSUME NEW pc \in Waiting, inflight' # 0, Join(c, pc) PROVE CallOK(c)'
  <2>1. Moved(c, pc, inflight', r.token, r.gets, r.sends, r.refused)
    BY <1>1, <1>2, <1>7, <1>13, JoinMoves DEF Ats, CallPcs
  <2> QED
    BY <1>6, <1>7, <1>13, <2>1 DEF Moved, CallOK, At, Waiting
<1>14. ASSUME NEW e, Fail(c, e) PROVE CallOK(c)'
  <2>1. \/ Moved(c, "idle", 0, NoToken, 0, 0, NoToken)
        \/ Moved(c, "get", 0, r.token, r.gets + 1, r.sends, r.refused)
    BY <1>1, <1>2, <1>14, FailMoves
  <2> QED
    BY <1>6, <2>1 DEF Moved, CallOK, At, Waiting
<1>15. ASSUME NEW n \in Counts, NEW t \in Named, Again(c, n, t),
              t # NoToken => Result(t)' = "ok" /\ token' # t
       PROVE  CallOK(c)'
  <2>1. Moved(c, "get", r.flight, NoToken, 0, n, t)
    BY <1>1, <1>2, <1>15, AgainMoves
  <2> QED
    BY <1>15, <2>1 DEF Moved, CallOK, At, Waiting
<1>16. \A t \in Named : t # NoToken => t \in Flights
  BY DEF Named, NoToken
<1>17. CASE GetValid(c)
  BY <1>8, <1>9, <1>12, <1>16, <1>17 DEF GetValid, Valid
<1>18. CASE GetStale(c)
  BY <1>8, <1>9, <1>11, <1>12, <1>13, <1>16, <1>18 DEF GetStale, Stale, Waiting
<1>19. CASE GetNone(c)
  <2>1. StartFlight => inflight' # 0
    BY FlightsAre DEF StartFlight
  <2> QED
    BY <1>11, <1>13, <1>14, <1>19, <2>1 DEF GetNone, Waiting
<1>20. CASE TakeResult(c)
  <2>1. r.flight \in Flights /\ r.flight # r.refused
    BY <1>1, <1>4, <1>20 DEF TakeResult, Started
  <2>2. Result(r.flight) = "ok" => Result(r.flight)' = "ok"
    BY <1>5, <2>1
  <2>3. \/ Serve(c, r.flight) /\ Result(r.flight) = "ok"
        \/ Serve(c, token) /\ token # NoToken
        \/ \E e : Fail(c, e)
    BY <1>1, <1>20 DEF TakeResult, Stale, Result
  <2> QED
    BY <1>8, <1>9, <1>12, <1>14, <1>16, <2>1, <2>2, <2>3
<1>21. CASE BudgetElapses(c)
  <2>1. CASE Stale
    BY <1>8, <1>9, <1>12, <1>16, <1>21, <2>1 DEF BudgetElapses, Stale
  <2>2. CASE ~Stale
    <3>1. Moved(c, "waitLate", r.flight, r.token, r.gets, r.sends, r.refused)
      BY <1>1, <1>2, <1>10, <1>21, <2>2, GoMoves DEF BudgetElapses
    <3>2. r.flight \in Started' /\ r.flight # r.refused
      BY <1>1, <1>4, <1>21, World DEF BudgetElapses, At, Waiting
    <3> QED
      BY <1>6, <3>1, <3>2 DEF Moved, CallOK, At
  <2> QED
    BY <2>1, <2>2
<1>22. CASE Answered(c)
  <2>1. CASE Return(c)
    BY <1>11, <2>1
  <2>2. CASE ~Return(c)
    <3>1. r.token # accepted /\ Go(c, "refused") /\ accepted' = accepted /\ r.at = "send"
      BY <1>1, <1>22, <2>2 DEF Answered, At, broker
    <3>2. Moved(c, "refused", r.flight, r.token, r.gets, r.sends, r.refused)
      BY <1>1, <1>2, <1>10, <3>1, GoMoves
    <3>3. r.token # NoToken /\ Result(r.token)' = "ok"
      BY <1>3, <1>4, <1>5, <1>16, <3>1
    <3> QED
      BY <1>6, <3>1, <3>2, <3>3 DEF Moved, CallOK, At, Waiting
  <2> QED
    BY <2>1, <2>2
<1>23. CASE Unavailable(c)
  <2>1. r.sends < maxRetries => r.sends + 1 \in Counts
    BY <1>3, TokenAssumption DEF Counts
  <2> QED
    BY <1>1, <1>3, <1>6, <1>11, <1>15, <1>23, <2>1 DEF Unavailable
<1>24. CASE Invalidate(c)
  <2>1. r.token # NoToken /\ Result(r.token)' = "ok"
    BY <1>1, <1>3, <1>4, <1>5, <1>16, <1>24 DEF Invalidate, At
  <2>2. token' # r.token
    BY <1>1, <1>24, <2>1 DEF Invalidate, cache
  <2> QED
    BY <1>1, <1>3, <1>11, <1>15, <1>24, <2>1, <2>2 DEF Invalidate
<1>25. CASE Cancel(c)
  BY <1>11, <1>25 DEF Cancel
<1>26. CASE BeginCall(c)
  <2>1. Moved(c, "get", r.flight, r.token, r.gets, r.sends, r.refused)
    BY <1>1, <1>2, <1>10, <1>26, GoMoves DEF BeginCall
  <2> QED
    BY <1>6, <2>1 DEF Moved, CallOK, At, Waiting
<1> QED
  BY <1>17, <1>18, <1>19, <1>20, <1>21, <1>22, <1>23, <1>24, <1>25, <1>26 DEF Call

LEMMA InvStep == IInv /\ [Next]_vars => IInv'
<1> SUFFICES ASSUME IInv, [Next]_vars PROVE IInv'
  OBVIOUS
<1>1. CASE Next
  <2>1. TypeOK' /\ Shared'
    BY <1>1, TypeStep, FlightsStep, NewestStep, ReportsStep, SlackStep DEF Shared
  <2>2. ASSUME NEW d \in Calls PROVE CallOK(d)'
    <3>1. CASE calls'[d] = calls[d]
      BY <1>1, <3>1, CallKept
    <3>2. CASE \E c \in Calls : Call(c) \/ Cancel(c) \/ BeginCall(c)
      <4>1. PICK c \in Calls : Call(c) \/ Cancel(c) \/ BeginCall(c)
        BY <3>2
      <4>2. c # d => calls'[d] = calls[d]
        <5>1. \A e \in Calls : calls[e].at \in Waiting => calls[e].flight \in Flights
          BY DEF IInv, CallOK, Started
        <5> QED
          BY <4>1, <5>1, CallTypes DEF IInv
      <4> QED
        BY <1>1, <3>1, <4>1, <4>2, CallStep
    <3>3. CASE ~\E c \in Calls : Call(c) \/ Cancel(c) \/ BeginCall(c)
      <4>1. calls' = calls
        BY <1>1, <3>3 DEF Next, Flight, Issue, FlightSucceeds, FlightFails, CloseDone, Report,
           Revoke, HoldEnds, Age, BeginQuiescence, Look, FlightDone, GiveUp, Wait
      <4> QED
        BY <3>1, <4>1
    <3> QED
      BY <3>2, <3>3
  <2> QED
    BY <2>1, <2>2 DEF IInv
<1>2. CASE UNCHANGED vars
  BY <1>2 DEF vars, cache, failure, refresh, broker, IInv, Shared, TypeOK, FlightsOK, InOrder,
     NewestCached, NewestAccepted, ReportsOwed, Slack, CallOK, Result, Owed, Started, Asks,
     Serves, Valid, At
<1> QED
  BY <1>1, <1>2

-----------------------------------------------------------------------------
(* Theorems *)

\* What the other theorems rest on.
THEOREM Invariance == Spec => []IInv
<1> QED
  BY Initial, InvStep, PTL DEF Spec

\* The types of the manager's state, of the calls and of the broker.
THEOREM TypeCorrect == Spec => []TypeOK
<1>1. IInv => TypeOK
  BY DEF IInv
<1> QED
  BY <1>1, Invariance, PTL

\* However many calls share the client, they begin no more flights than there were causes
\* (getBlocking, getStaleLocked and invalidate of token.go).
THEOREM NoHerdSafety == Spec => []NoHerd
<1>1. IInv => NoHerd
  <2> SUFFICES ASSUME IInv PROVE NoHerd
    OBVIOUS
  <2>1. Cardinality(Started) \in Nat /\ events \in Nat
    BY OwedIsFinite, FS_CardinalityType DEF IInv, TypeOK
  <2> QED
    BY <2>1 DEF IInv, Shared, Slack, NoHerd
<1> QED
  BY <1>1, Invariance, PTL

\* The cache never keeps a token that a later answered issuance replaced (finishLocked).
THEOREM CacheIsCurrentSafety == Spec => []CacheIsCurrent
<1>1. IInv => CacheIsCurrent
  <2> SUFFICES ASSUME IInv, token # NoToken, accepted \notin {token, NoToken, inflight}
               PROVE  Result(accepted) \in Errors
    BY DEF CacheIsCurrent, Result
  <2>1. token \in Flights /\ accepted \in issued /\ accepted \in Flights
    BY DEF IInv, Shared, TypeOK, FlightsOK
  <2>2. Result(accepted) # "ok"
    <3>1. Result(token) = "ok" /\ (Result(accepted) = "ok" => accepted <= token /\ token <= accepted)
      BY <2>1 DEF IInv, Shared, NewestCached, NewestAccepted
    <3> QED
      BY <2>1, <3>1, FlightsAre
  <2>3. Result(accepted) # "none"
    BY <2>1 DEF IInv, Shared, FlightsOK, Started
  <2> QED
    BY <2>1, <2>2, <2>3 DEF IInv, TypeOK, Result
<1> QED
  BY <1>1, Invariance, PTL

\* No call carries a token to the broker that refused it (doGet, getStaleLocked).
THEOREM RefusedNotResentSafety == Spec => []RefusedNotResent
<1>1. IInv => RefusedNotResent
  BY DEF IInv, CallOK, RefusedNotResent
<1> QED
  BY <1>1, Invariance, PTL

\* invalidate drops no token the broker still accepts, whoever replaced the refused one.
THEOREM DropsOnlyRefusedSafety == Spec => DropsOnlyRefused
<1>1. IInv /\ [Next]_vars => [token # NoToken /\ token' = NoToken => token # accepted]_vars
  <2> SUFFICES ASSUME IInv, Next, token # NoToken, token' = NoToken PROVE token # accepted
    OBVIOUS
  <2>1. PICK c \in Calls : Invalidate(c)
    <3>1. CASE \E f \in Flights : Flight(f)
      BY <3>1, FlightsAre DEF Flight, Issue, FlightSucceeds, FlightFails, CloseDone, Report,
         cache, NoToken
    <3> QED
      BY <3>1, Steps DEF Apart, Begins, Revoke, Age, cache
  <2>2. token = calls[c].token /\ calls[c].token # accepted
    BY <2>1 DEF Invalidate, cache, IInv, CallOK, At
  <2> QED
    BY <2>2
<1> QED
  BY <1>1, Invariance, PTL DEF Spec, DropsOnlyRefused

\* The shutdown's wait does not return quiet while a report is owed or a flight asks
\* (waitForRefreshQuiescence, finishLocked).
THEOREM QuietIsReportedSafety == Spec => QuietIsReported
<1> DEFINE Quiet == quiesce.at = "look" /\ quiesce'.at = "idle" =>
                      \A f \in Started : flights[f].result = "ok" \/ flights[f].at = "over"
<1>1. IInv /\ [Next]_vars => [Quiet]_vars
  <2> SUFFICES ASSUME IInv, Next, quiesce.at = "look", quiesce'.at = "idle", NEW f \in Started,
                      flights[f].result # "ok"
               PROVE  flights[f].at = "over"
    OBVIOUS
  <2>1. Look
    <3>1. quiesce'.at # quiesce.at => Look \/ \E g \in Flights : Report(g)
      BY DEF Next, Call, GetValid, GetStale, GetNone, TakeResult, BudgetElapses, Answered,
         Unavailable, Invalidate, Cancel, BeginCall, Flight, Issue, FlightSucceeds, FlightFails,
         CloseDone, Revoke, HoldEnds, Age, BeginQuiescence, Look, FlightDone, GiveUp, Wait
    <3>2. \A g \in Flights : ~Report(g)
      BY DEF Report, IInv, TypeOK
    <3> QED
      BY <3>1, <3>2
  <2>2. inflight = 0 /\ pending = 0
    BY <2>1 DEF Look, Wait
  <2>3. Owed = {}
    BY <2>2, OwedIsFinite, FS_EmptySet DEF IInv, Shared, ReportsOwed
  <2>4. f \in Flights /\ flights[f].at # "asking" /\ flights[f].at # "new"
    BY <2>2, FlightsAre DEF IInv, Shared, FlightsOK, Started
  <2>5. flights[f].result \in Errors
    BY <2>4 DEF IInv, Shared, FlightsOK, TypeOK, Result
  <2> QED
    BY <2>3, <2>4, <2>5 DEF Owed, Result
<1>2. Spec => [][Quiet]_vars
  BY <1>1, Invariance, PTL DEF Spec
<1> QED
  BY <1>2 DEF QuietIsReported
=============================================================================
