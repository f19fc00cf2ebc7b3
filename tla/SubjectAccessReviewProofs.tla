---------------------- MODULE SubjectAccessReviewProofs ----------------------
(***************************************************************************)
(* Proofs about SubjectAccessReview, for every set of requests, users and  *)
(* headers, and every value of the TTLs, the budget and the cache size.    *)
(***************************************************************************)
EXTENDS SubjectAccessReview, TLAPS

-----------------------------------------------------------------------------
(* Type correctness.                                                       *)

\* What is left of the headers can be asked for.
HeadersAskable ==
  \A r \in Requests, k \in Resources: \A i \in DOMAIN left[r][k]:
    ReviewSpec(inbound[r].user, k, left[r][k][i]) \in Questions

\* A flight is led by a request.
FlightsHaveLeaders ==
  \A q \in Questions: flight[q] # NoFlight => flight[q].leader \in Requests

\* The inductive form of TypeOK.
TypeInv == TypeOK /\ HeadersAskable /\ FlightsHaveLeaders

\* What the loop will consume of the headers of a request can be asked for.
LEMMA ConsumedAskable ==
  ASSUME NEW u \in Users, NEW h \in Shapes
  PROVE  /\ Consumed(h) \in [HeaderKeys -> Seq(Names)]
         /\ \A k \in Resources: \A i \in DOMAIN Consumed(h)[k]:
              ReviewSpec(u, k, Consumed(h)[k][i]) \in Questions
<1>1. h \in [HeaderKeys -> Seq(Names)]
  BY ConstantsAssumption
<1>2. ASSUME NEW k \in HeaderKeys
      PROVE  /\ Consumed(h)[k] \in Seq(Names)
             /\ \A i \in DOMAIN Consumed(h)[k]:
                  i \in DOMAIN h[k] /\ Consumed(h)[k][i] = h[k][i]
  <2>1. CASE k \in {"users", "uids"} /\ h[k] # <<>>
    <3>1. Consumed(h)[k] = <<Head(h[k])>> /\ Head(h[k]) = h[k][1] /\ 1 \in DOMAIN h[k]
      BY <1>1, <2>1 DEF Consumed
    <3> QED BY <1>1, <2>1, <3>1
  <2>2. CASE ~(k \in {"users", "uids"} /\ h[k] # <<>>)
    BY <1>1, <2>2 DEF Consumed
  <2> QED BY <2>1, <2>2
<1>3. Consumed(h) \in [HeaderKeys -> Seq(Names)]
  BY <1>2 DEF Consumed
<1>4. ASSUME NEW k \in Resources, NEW i \in DOMAIN Consumed(h)[k]
      PROVE  ReviewSpec(u, k, Consumed(h)[k][i]) \in Questions
  BY <1>2, ConstantsAssumption DEF HeaderKeys
<1> QED BY <1>3, <1>4

\* The initial values of the records have their types.
LEMMA InitialValues ==
  {Idle, Sent} \subseteq Calls /\ NoResult \in Results /\ NoEntry \in Entries /\ NoFlight \in Flights
BY DEF Idle, Sent, Calls, Stages, NoResult, Results, NoEntry, Entries, NoFlight, Flights

\* TypeInv holds initially.
LEMMA TypeInit == Init => TypeInv
<1> SUFFICES ASSUME Init PROVE TypeInv
  OBVIOUS
<1>1. left \in [Requests -> [HeaderKeys -> Seq(Names)]] /\ HeadersAskable
  BY ConsumedAskable DEF Init, HeadersAskable
<1>2. question \in [Requests -> Questions]
  BY ConstantsAssumption DEF Init
<1>3. Never \in Int
  BY ConstantsAssumption DEF Never
<1>4. TypeOK
  BY <1>1, <1>2, <1>3, InitialValues DEF Init, TypeOK, NoAnswer, CtxErrors, PCs, Outcomes, Reasons
<1>5. FlightsHaveLeaders
  BY DEF Init, FlightsHaveLeaders
<1> QED BY <1>1, <1>4, <1>5 DEF TypeInv

\* Only the loop over the headers changes what is left of them.
LEMMA HeadersStep == TypeInv /\ [Next]_vars => HeadersAskable'
<1> SUFFICES ASSUME TypeInv, [Next]_vars PROVE HeadersAskable'
  OBVIOUS
<1>1. ASSUME NEW r \in Requests, NextHeaderValue(r) PROVE HeadersAskable'
  <2>1. PICK k \in NextKeys(r) \ {"unknown"}:
          left' = [left EXCEPT ![r][k] = Tail(left[r][k])]
    BY <1>1 DEF NextHeaderValue
  <2>2. k \in Resources /\ k \in HeaderKeys /\ left[r][k] # <<>>
    BY <2>1 DEF NextKeys, PartlyWalked, HeaderKeys
  <2>3. left \in [Requests -> [HeaderKeys -> Seq(Names)]] /\ inbound' = inbound
    BY <1>1 DEF TypeInv, TypeOK, NextHeaderValue
  <2> SUFFICES ASSUME NEW s \in Requests, NEW j \in Resources, NEW i \in DOMAIN left'[s][j]
               PROVE  ReviewSpec(inbound[s].user, j, left'[s][j][i]) \in Questions
    BY <2>3 DEF HeadersAskable
  <2>4. CASE s = r /\ j = k
    <3>1. left[r][k] \in Seq(Names) /\ left'[s][j] = Tail(left[r][k])
      BY <2>1, <2>2, <2>3, <2>4
    <3>2. i + 1 \in DOMAIN left[r][k] /\ left'[s][j][i] = left[r][k][i + 1]
      BY <2>2, <3>1
    <3> QED BY <2>2, <2>4, <3>2 DEF TypeInv, HeadersAskable
  <2>5. CASE ~(s = r /\ j = k)
    <3>1. left'[s][j] = left[s][j]
      BY <2>1, <2>2, <2>3, <2>5 DEF HeaderKeys
    <3> QED BY <3>1 DEF TypeInv, HeadersAskable
  <2> QED BY <2>4, <2>5
<1>2. ASSUME UNCHANGED <<left, inbound>> PROVE HeadersAskable'
  BY <1>2 DEF TypeInv, HeadersAskable
<1>3. \/ \E r \in Requests: NextHeaderValue(r)
      \/ UNCHANGED <<left, inbound>>
  BY DEF Next, RequestStep, AtRest, vars, walkVars, Arrive, EndWalk, UseVerdict, Bypass, CacheHit,
     CacheMiss, DoChan, OwnContextDone, FlightResult, DirectResult, FlightStore, FlightDeliver,
     Evaluate, Answered, ApiError, ContextEndsCall, ClientGone, Grant, Revoke, Tick
<1> QED BY <1>1, <1>2, <1>3

\* A flight is created by the request that leads it.
LEMMA LeadersStep == TypeInv /\ [Next]_vars => FlightsHaveLeaders'
<1> SUFFICES ASSUME TypeInv, [Next]_vars PROVE FlightsHaveLeaders'
  OBVIOUS
<1> USE DEF TypeInv, FlightsHaveLeaders
<1>0. flight \in [Questions -> Flights]
  BY DEF TypeOK
<1>1. ASSUME NEW r \in Requests, DoChan(r) PROVE FlightsHaveLeaders'
  <2> DEFINE q == question[r]
  <2>1. q \in Questions
    BY DEF TypeOK
  <2>2. CASE flight' = [flight EXCEPT ![q] = [leader |-> r, members |-> {r}]]
    BY <1>0, <2>1, <2>2 DEF Flights
  <2>3. CASE flight[q] # NoFlight /\ flight' = [flight EXCEPT ![q].members = @ \cup {r}]
    BY <1>0, <2>1, <2>3 DEF Flights
  <2> QED BY <1>1, <2>2, <2>3 DEF DoChan
<1>2. ASSUME NEW q \in Questions, FlightDeliver(q) PROVE FlightsHaveLeaders'
  BY <1>0, <1>2 DEF FlightDeliver
<1>3. ASSUME UNCHANGED flight PROVE FlightsHaveLeaders'
  BY <1>3
<1>4. \/ \E r \in Requests: DoChan(r)
      \/ \E q \in Questions: FlightDeliver(q)
      \/ UNCHANGED flight
  BY DEF Next, RequestStep, AtRest, vars, Arrive, NextHeaderValue, EndWalk, UseVerdict, Bypass,
     CacheHit, CacheMiss, OwnContextDone, FlightResult, DirectResult, FlightStore, Evaluate,
     Answered, ApiError, ContextEndsCall, ClientGone, Grant, Revoke, Tick
<1> QED BY <1>1, <1>2, <1>3, <1>4

\* CheckAuthorizedForImpersonation returns a value of its type.
LEMMA FinishType ==
  ASSUME TypeOK, NEW r \in Requests, NEW o \in Outcomes, Finish(r, o)
  PROVE  /\ pc' \in [Requests -> PCs]
         /\ outcome' \in [Requests -> Outcomes]
         /\ ctx' \in [Requests -> {"live"} \cup CtxErrors]
BY DEF TypeOK, Finish, PCs, CtxErrors

\* A terminal record has its type, whatever answer it is about.
LEMMA ObserveType ==
  ASSUME TypeOK, NEW r \in Requests, NEW a \in Answers \cup {NoAnswer},
         ObserveLiveCheck(r, a), Return(r, a)
  PROVE  /\ recorded' \in [Requests -> Nat]
         /\ reason' \in [Requests -> Reasons]
         /\ verdict' \in [Requests -> Answers \cup {NoAnswer}]
         /\ pc' \in [Requests -> PCs]
<1>1. recorded' \in [Requests -> Nat] /\ reason' \in [Requests -> Reasons]
  BY DEF TypeOK, ObserveLiveCheck, Reasons
<1>2. verdict' \in [Requests -> Answers \cup {NoAnswer}] /\ pc' \in [Requests -> PCs]
  BY DEF TypeOK, Return, PCs
<1> QED BY <1>1, <1>2

\* TypeInv is inductive.
LEMMA TypeStep == TypeInv /\ [Next]_vars => TypeInv'
<1> SUFFICES ASSUME TypeInv, [Next]_vars PROVE TypeOK'
  BY HeadersStep, LeadersStep DEF TypeInv
<1>0. TypeOK
  BY DEF TypeInv
<1>1. ASSUME NEW r \in Requests, Arrive(r) PROVE TypeOK'
  <2>1. /\ pc' \in [Requests -> PCs]
        /\ outcome' \in [Requests -> Outcomes]
        /\ ctx' \in [Requests -> {"live"} \cup CtxErrors]
    <3>1. CASE Finish(r, "too_many_values") \/ Finish(r, "no_impersonation_user")
      BY <1>0, <3>1, FinishType DEF Outcomes
    <3>2. CASE pc' = [pc EXCEPT ![r] = "walk"] /\ UNCHANGED <<outcome, ctx>>
      BY <1>0, <3>2 DEF TypeOK, PCs
    <3> QED BY <1>1, <3>1, <3>2 DEF Arrive
  <2>2. SarTimeout \in Nat
    BY ConstantsAssumption
  <2>3. arrived' \in [Requests -> Nat] /\ deadline' \in [Requests -> Nat]
    BY <1>0, <1>1, <2>2 DEF TypeOK, Arrive
  <2> QED BY <1>0, <1>1, <2>1, <2>3 DEF TypeOK, Arrive, envVars, obsVars
<1>2. ASSUME NEW r \in Requests, NextHeaderValue(r) PROVE TypeOK'
  <2>1. PICK k \in NextKeys(r) \ {"unknown"}:
          /\ question' = [question EXCEPT ![r] =
                            ReviewSpec(inbound[r].user, k, Head(left[r][k]))]
          /\ left' = [left EXCEPT ![r][k] = Tail(left[r][k])]
    BY <1>2 DEF NextHeaderValue
  <2>2. k \in Resources /\ k \in HeaderKeys /\ left[r][k] # <<>>
    BY <2>1 DEF NextKeys, PartlyWalked, HeaderKeys
  <2>3. left \in [Requests -> [HeaderKeys -> Seq(Names)]]
    BY <1>0 DEF TypeOK
  <2>4. /\ left[r][k] \in Seq(Names) /\ Tail(left[r][k]) \in Seq(Names)
        /\ Head(left[r][k]) = left[r][k][1] /\ 1 \in DOMAIN left[r][k]
    BY <2>2, <2>3
  <2>5. question' \in [Requests -> Questions]
    <3>1. ReviewSpec(inbound[r].user, k, Head(left[r][k])) \in Questions
      BY <2>2, <2>4 DEF TypeInv, HeadersAskable
    <3> QED BY <1>0, <2>1, <3>1 DEF TypeOK
  <2>6. left' \in [Requests -> [HeaderKeys -> Seq(Names)]]
    BY <2>1, <2>2, <2>3, <2>4
  <2>7. pc' \in [Requests -> PCs]
    BY <1>0, <1>2 DEF NextHeaderValue, TypeOK, PCs
  <2> QED BY <1>0, <1>2, <2>5, <2>6, <2>7 DEF NextHeaderValue, TypeOK, envVars, obsVars
<1>3. ASSUME NEW r \in Requests, EndWalk(r) PROVE TypeOK'
  BY <1>0, <1>3 DEF EndWalk, Finish, TypeOK, envVars, obsVars, PCs, Outcomes, CtxErrors
<1>4. ASSUME NEW r \in Requests, UseVerdict(r) PROVE TypeOK'
  <2>1. /\ pc' \in [Requests -> PCs]
        /\ outcome' \in [Requests -> Outcomes]
        /\ ctx' \in [Requests -> {"live"} \cup CtxErrors]
    <3>1. CASE Finish(r, "denied") \/ (verdict[r] \in {"api"} \cup CtxErrors /\ Finish(r, verdict[r]))
      BY <1>0, <3>1, FinishType DEF Outcomes
    <3>2. CASE pc' = [pc EXCEPT ![r] = "walk"] /\ UNCHANGED <<outcome, ctx>>
      BY <1>0, <3>2 DEF TypeOK, PCs
    <3> QED BY <1>4, <3>1, <3>2 DEF UseVerdict
  <2>2. target' \in [Requests -> SUBSET Questions]
    BY <1>0, <1>4 DEF TypeOK, UseVerdict
  <2>3. verdict' \in [Requests -> Answers \cup {NoAnswer}]
    BY <1>0, <1>4 DEF TypeOK, UseVerdict
  <2> QED BY <1>0, <1>4, <2>1, <2>2, <2>3 DEF TypeOK, UseVerdict, envVars, obsVars
<1>5. ASSUME NEW r \in Requests, Bypass(r) PROVE TypeOK'
  BY <1>0, <1>5, InitialValues DEF Bypass, TypeOK, envVars, walkVars, PCs
<1>6. ASSUME NEW r \in Requests, CacheHit(r) PROVE TypeOK'
  BY <1>0, <1>6 DEF CacheHit, Return, TypeOK, envVars, walkVars, obsVars, PCs, Answers
<1>7. ASSUME NEW r \in Requests, CacheMiss(r) PROVE TypeOK'
  BY <1>0, <1>7, InitialValues DEF CacheMiss, TypeOK, envVars, walkVars, PCs
<1>8. ASSUME NEW r \in Requests, DoChan(r) PROVE TypeOK'
  <2> DEFINE q == question[r]
  <2>1. q \in Questions /\ flight \in [Questions -> Flights]
    BY <1>0 DEF TypeOK
  <2>2. PICK f \in Flights: flight' = [flight EXCEPT ![q] = f]
    BY <1>8, <2>1 DEF DoChan, Flights
  <2>3. flight' \in [Questions -> Flights]
    BY <2>1, <2>2
  <2>4. call' \in [Requests -> Calls]
    BY <1>0, <1>8, InitialValues DEF DoChan, TypeOK
  <2>5. pc' \in [Requests -> PCs]
    BY <1>0, <1>8 DEF DoChan, TypeOK, PCs
  <2> QED BY <1>0, <1>8, <2>3, <2>4, <2>5 DEF TypeOK, DoChan, envVars, walkVars, obsVars
<1>9. ASSUME NEW r \in Requests, OwnContextDone(r) PROVE TypeOK'
  <2>1. ctx[r] \in Answers
    BY <1>0, <1>9 DEF OwnContextDone, TypeOK, Answers
  <2>2. inbox' \in [Requests -> Results]
    BY <1>0, <1>9, InitialValues DEF OwnContextDone, TypeOK
  <2> QED BY <1>0, <1>9, <2>1, <2>2, ObserveType DEF OwnContextDone, TypeOK, envVars, walkVars
<1>10. ASSUME NEW r \in Requests, FlightResult(r) PROVE TypeOK'
  <2>1. CASE MustRetry(r)
    <3>1. /\ call' = [call EXCEPT ![r] = Sent] /\ pc' = [pc EXCEPT ![r] = "direct"]
          /\ inbox' = [inbox EXCEPT ![r] = NoResult] /\ UNCHANGED <<verdict, recorded, reason>>
      BY <1>10, <2>1 DEF FlightResult
    <3> QED BY <1>0, <1>10, <3>1, InitialValues DEF TypeOK, FlightResult, envVars, walkVars, PCs
  <2>2. CASE ~MustRetry(r)
    <3>1. /\ ObserveLiveCheck(r, inbox[r].answer) /\ Return(r, inbox[r].answer)
          /\ inbox' = [inbox EXCEPT ![r] = NoResult] /\ UNCHANGED call
      BY <1>10, <2>2 DEF FlightResult
    <3>2. inbox[r].answer \in Answers \cup {NoAnswer}
      BY <1>0 DEF TypeOK, Results
    <3>3. inbox' \in [Requests -> Results]
      BY <1>0, <3>1, InitialValues DEF TypeOK
    <3> QED BY <1>0, <1>10, <3>1, <3>2, <3>3, ObserveType DEF TypeOK, FlightResult, envVars, walkVars
  <2> QED BY <2>1, <2>2
<1>11. ASSUME NEW r \in Requests, DirectResult(r) PROVE TypeOK'
  <2>1. call[r].answer \in Answers \cup {NoAnswer}
    BY <1>0 DEF TypeOK, Calls
  <2>2. call' \in [Requests -> Calls]
    BY <1>0, <1>11, InitialValues DEF DirectResult, TypeOK
  <2> QED BY <1>0, <1>11, <2>1, <2>2, ObserveType DEF DirectResult, TypeOK, envVars, walkVars
<1>12. ASSUME NEW q \in Questions, FlightStore(q) PROVE TypeOK'
  <2>1. PICK a \in BOOLEAN: Put(q, a)
    BY <1>12 DEF FlightStore
  <2> DEFINE e == [allowed |-> a, expires |-> now + TTL(a)]
  <2>2. e \in Entries
    BY <1>0, ConstantsAssumption DEF TypeOK, TTL, Entries
  <2>3. \/ cache' = cache
        \/ cache' = [cache EXCEPT ![q] = e]
        \/ \E p \in Questions: cache' = [cache EXCEPT ![q] = e, ![p] = NoEntry]
    BY <2>1 DEF Put
  <2>4. cache \in [Questions -> Entries]
    BY <1>0 DEF TypeOK
  <2> HIDE DEF e
  <2>5. cache' \in [Questions -> Entries]
    BY <2>2, <2>3, <2>4, InitialValues
  <2>6. call' \in [Requests -> Calls]
    <3>1. call \in [Requests -> Calls] /\ flight[q].leader \in Requests
      BY <1>0, <1>12 DEF FlightStore, TypeInv, TypeOK, FlightsHaveLeaders
    <3>2. PICK c \in Calls: call' = [call EXCEPT ![flight[q].leader] = c]
      BY <1>12, <3>1 DEF FlightStore, Calls, Stages
    <3> QED BY <3>1, <3>2
  <2> QED BY <1>0, <1>12, <2>5, <2>6 DEF FlightStore, TypeOK, envVars, walkVars, obsVars
<1>13. ASSUME NEW q \in Questions, FlightDeliver(q) PROVE TypeOK'
  <2>1. flight[q].leader \in Requests
    BY <1>13 DEF FlightDeliver, TypeInv, FlightsHaveLeaders
  <2>2. inbox' \in [Requests -> Results]
    BY <1>0, <1>13, <2>1 DEF FlightDeliver, TypeOK, Results, Calls
  <2>3. flight' \in [Questions -> Flights] /\ call' \in [Requests -> Calls]
    BY <1>0, <1>13, InitialValues DEF FlightDeliver, TypeOK
  <2> QED BY <1>0, <1>13, <2>2, <2>3 DEF FlightDeliver, TypeOK, envVars, walkVars, obsVars
<1>14. ASSUME NEW r \in Requests, Evaluate(r) \/ ApiError(r) \/ ContextEndsCall(r) PROVE TypeOK'
  <2>1. PICK c \in Calls: call' = [call EXCEPT ![r] = c]
    <3>1. ctx[r] # "live" => ctx[r] \in Answers
      BY <1>0 DEF TypeOK, Answers
    <3> QED BY <1>14, <3>1 DEF Evaluate, ApiError, ContextEndsCall, Calls, Stages, Answers
  <2> QED BY <1>0, <1>14, <2>1 DEF Evaluate, ApiError, ContextEndsCall, TypeOK, envVars, walkVars, obsVars
<1>15. ASSUME NEW r \in Requests, Answered(r) PROVE TypeOK'
  <2>1. call' \in [Requests -> Calls]
    BY <1>0, <1>15 DEF Answered, TypeOK, Calls, Stages
  <2> QED BY <1>0, <1>15, <2>1 DEF Answered, TypeOK, envVars, walkVars, obsVars
<1>16. ASSUME NEW r \in Requests, ClientGone(r) PROVE TypeOK'
  BY <1>0, <1>16 DEF ClientGone, TypeOK, envVars, walkVars, obsVars, CtxErrors
<1>17. ASSUME NEW q \in Questions, Grant(q) \/ Revoke(q) PROVE TypeOK'
  BY <1>0, <1>17 DEF Grant, Revoke, TypeOK, walkVars, obsVars
<1>18. ASSUME Tick PROVE TypeOK'
  BY <1>0, <1>18 DEF Tick, TypeOK, walkVars, obsVars, CtxErrors
<1>19. ASSUME UNCHANGED vars PROVE TypeOK'
  BY <1>0, <1>19 DEF TypeOK, vars
<1> QED
  BY <1>1, <1>2, <1>3, <1>4, <1>5, <1>6, <1>7, <1>8, <1>9, <1>10, <1>11, <1>12, <1>13, <1>14,
     <1>15, <1>16, <1>17, <1>18, <1>19 DEF Next, RequestStep, AtRest

\* The reviewer's state keeps its type.
THEOREM TypeCorrect == Spec => []TypeOK
<1>1. TypeInv => TypeOK
  BY DEF TypeInv
<1> QED BY <1>1, TypeInit, TypeStep, PTL DEF Spec

-----------------------------------------------------------------------------
(* The invariants.  ErrorsWhenDone is about when a request may see a       *)
(* context error, Sharing about who waits for which flight, Timing about the     *)
(* clock, the others about how old an answer can be.                       *)

\* A request that holds a context error, other than in the result of a flight
\* that was shared, has a context that is done.
ErrorsWhenDone ==
  \A r \in Requests:
    /\ call[r].answer \in CtxErrors => ctx[r] # "live"
    /\ (inbox[r].answer \in CtxErrors /\ ~inbox[r].shared) => ctx[r] # "live"
    /\ verdict[r] \in CtxErrors => ctx[r] # "live"

\* The members of a flight wait for the answer to its question, or have given
\* up for good.
FlightsMatch ==
  \A q \in Questions:
    /\ flight[q] # NoFlight =>
         flight[q].leader \in flight[q].members /\ call[flight[q].leader].stage # "idle"
    /\ \A m \in flight[q].members:
         /\ question[m] = q /\ inbox[m] = NoResult
         /\ \/ pc[m] \in {"waiting", "done"}
            \/ pc[m] = "verdict" /\ verdict[m] \in CtxErrors

\* A call in progress is the request's direct check or the flight it leads;
\* results and verdicts exist only while they are awaited.
CallsOwned ==
  \A r \in Requests:
    /\ call[r].stage # "idle" => pc[r] = "direct" \/ flight[question[r]].leader = r
    /\ call[r].stage = "idle" => call[r] = Idle
    /\ call[r].stage \in {"decided", "answered", "stored"} => call[r].answer \in {"allow", "deny"}
    /\ inbox[r] # NoResult => pc[r] = "waiting"
    /\ verdict[r] # NoAnswer => pc[r] = "verdict"

Sharing == FlightsMatch /\ CallsOwned

\* Who is in the check, or has a call in progress, is within the budget.
Timing ==
  \A r \in Requests:
    /\ arrived[r] <= now
    /\ pc[r] = "done" => ctx[r] # "live"
    /\ pc[r] # "new" => deadline[r] = arrived[r] + SarTimeout
    /\ (Active(r) /\ ctx[r] = "live") => now < deadline[r]
    /\ (Active(r) \/ call[r].stage # "idle") => now <= arrived[r] + SarTimeout

\* The history variables say when the rules last agreed with an answer.
History ==
  \A q \in Questions:
    /\ lastTrue[q] <= now /\ lastFalse[q] <= now
    /\ IF q \in grants THEN lastTrue[q] = now ELSE lastFalse[q] = now

\* The rules agreed with the answer of a call at an instant since the arrival
\* of the request that made it ...
CallEvidence ==
  \A r \in Requests:
    /\ call[r].answer = "allow" => lastTrue[question[r]] >= arrived[r]
    /\ call[r].answer = "deny" => lastFalse[question[r]] >= arrived[r]

\* ... with the result of a flight at most a budget ago ...
ResultEvidence ==
  \A r \in Requests:
    /\ inbox[r].answer = "allow" => now - lastTrue[question[r]] <= SarTimeout
    /\ inbox[r].answer = "deny" => now - lastFalse[question[r]] <= SarTimeout

\* ... and with an entry of the cache at most a TTL and a budget before it
\* expires.
CacheEvidence ==
  \A q \in Questions: cache[q] # NoEntry =>
    IF cache[q].allowed THEN cache[q].expires - lastTrue[q] <= AllowTTL + SarTimeout
                        ELSE cache[q].expires - lastFalse[q] <= DenyTTL + SarTimeout

Bounds == RevocationBound /\ GrantBound

IInv == TypeInv /\ ErrorsWhenDone /\ Sharing /\ Timing /\ History
        /\ CallEvidence /\ ResultEvidence /\ CacheEvidence /\ Bounds

-----------------------------------------------------------------------------
(* A waiter fails only by its own context.                                 *)

\* A context that is done stays done.
LEMMA ContextStep ==
  ASSUME TypeInv, [Next]_vars, NEW r \in Requests, ctx[r] # "live"
  PROVE  ctx'[r] # "live"
<1>1. ctx \in [Requests -> {"live"} \cup CtxErrors]
  BY DEF TypeInv, TypeOK
<1>2. ASSUME NEW s \in Requests, Arrive(s) \/ EndWalk(s) \/ UseVerdict(s) PROVE ctx'[r] # "live"
  BY <1>1, <1>2 DEF Arrive, EndWalk, UseVerdict, Finish
<1>3. ASSUME NEW s \in Requests, ClientGone(s) PROVE ctx'[r] # "live"
  BY <1>1, <1>3 DEF ClientGone
<1>4. ASSUME Tick PROVE ctx'[r] # "live"
  BY <1>1, <1>4 DEF Tick
<1>5. \/ \E s \in Requests: Arrive(s) \/ EndWalk(s) \/ UseVerdict(s) \/ ClientGone(s)
      \/ Tick \/ UNCHANGED ctx
  BY DEF Next, RequestStep, AtRest, vars, NextHeaderValue, Bypass, CacheHit, CacheMiss, DoChan,
     OwnContextDone, FlightResult, DirectResult, FlightStore, FlightDeliver, Evaluate, Answered,
     ApiError, ContextEndsCall, Grant, Revoke
<1> QED BY <1>2, <1>3, <1>4, <1>5

\* Every step keeps ErrorsWhenDone: a context error of another request reaches a
\* verdict only when the request's own context is done as well, since otherwise
\* MustRetry turns it into a retry.
LEMMA ErrorsStep == TypeInv /\ ErrorsWhenDone /\ [Next]_vars => ErrorsWhenDone'
<1> SUFFICES ASSUME TypeInv, ErrorsWhenDone, [Next]_vars PROVE ErrorsWhenDone'
  OBVIOUS
<1>0. /\ call \in [Requests -> Calls] /\ inbox \in [Requests -> Results]
      /\ verdict \in [Requests -> Answers \cup {NoAnswer}]
      /\ \A r \in Requests: ctx[r] # "live" => ctx'[r] # "live"
  BY ContextStep DEF TypeInv, TypeOK
<1> USE <1>0 DEF ErrorsWhenDone
<1>1. ASSUME NEW r \in Requests, UseVerdict(r) PROVE ErrorsWhenDone'
  BY <1>1 DEF UseVerdict, NoAnswer, CtxErrors
<1>2. ASSUME NEW r \in Requests, Bypass(r) \/ DoChan(r) PROVE ErrorsWhenDone'
  BY <1>2 DEF Bypass, DoChan, Sent, NoAnswer, CtxErrors
<1>3. ASSUME NEW r \in Requests, CacheHit(r) PROVE ErrorsWhenDone'
  BY <1>3 DEF CacheHit, Return, CtxErrors
<1>4. ASSUME NEW r \in Requests, OwnContextDone(r) PROVE ErrorsWhenDone'
  BY <1>4 DEF OwnContextDone, Return, NoResult, NoAnswer, CtxErrors
<1>5. ASSUME NEW r \in Requests, FlightResult(r) PROVE ErrorsWhenDone'
  <2>1. CASE MustRetry(r)
    BY <1>5, <2>1 DEF FlightResult, NoResult, Sent, NoAnswer, CtxErrors
  <2>2. CASE ~MustRetry(r)
    BY <1>5, <2>2 DEF FlightResult, MustRetry, Return, NoResult, NoAnswer, CtxErrors
  <2> QED BY <2>1, <2>2
<1>6. ASSUME NEW r \in Requests, DirectResult(r) PROVE ErrorsWhenDone'
  BY <1>6 DEF DirectResult, Return, Idle, NoAnswer, CtxErrors
<1>7. ASSUME NEW q \in Questions, FlightStore(q) PROVE ErrorsWhenDone'
  <2>1. \A r \in Requests: call'[r].answer = call[r].answer
    BY <1>7 DEF FlightStore, Calls
  <2> QED BY <1>7, <2>1 DEF FlightStore
<1>8. ASSUME NEW q \in Questions, FlightDeliver(q) PROVE ErrorsWhenDone'
  <2> DEFINE l == flight[q].leader
  <2>1. l \in Requests
    BY <1>8 DEF FlightDeliver, TypeInv, FlightsHaveLeaders
  <2>2. ASSUME NEW r \in Requests, inbox'[r].answer \in CtxErrors, ~inbox'[r].shared
        PROVE  ctx[r] # "live"
    <3>1. CASE r \in flight[q].members /\ pc[r] = "waiting"
      <4>1. inbox'[r] = [answer |-> call[l].answer, shared |-> flight[q].members # {l}]
        BY <1>8, <3>1 DEF FlightDeliver
      <4>2. inbox'[r].answer = call[l].answer /\ inbox'[r].shared = (flight[q].members # {l})
        BY <4>1
      <4>3. flight[q].members = {l}
        BY <2>2, <4>2, Zenon
      <4> QED BY <2>1, <2>2, <3>1, <4>2, <4>3
    <3>2. CASE ~(r \in flight[q].members /\ pc[r] = "waiting")
      BY <1>8, <2>2, <3>2 DEF FlightDeliver
    <3> QED BY <3>1, <3>2
  <2> QED BY <1>8, <2>1, <2>2 DEF FlightDeliver, Idle, NoAnswer, CtxErrors
<1>9. ASSUME NEW r \in Requests, Evaluate(r) \/ ApiError(r) PROVE ErrorsWhenDone'
  BY <1>9 DEF Evaluate, ApiError, CtxErrors
<1>10. ASSUME NEW r \in Requests, Answered(r) PROVE ErrorsWhenDone'
  <2>1. \A s \in Requests: call'[s].answer = call[s].answer
    BY <1>10 DEF Answered, Calls
  <2> QED BY <1>10, <2>1 DEF Answered
<1>11. ASSUME NEW r \in Requests, ContextEndsCall(r) PROVE ErrorsWhenDone'
  BY <1>11 DEF ContextEndsCall
<1>12. ASSUME UNCHANGED <<call, inbox, verdict>> PROVE ErrorsWhenDone'
  BY <1>12
<1>13. \/ \E r \in Requests: \/ UseVerdict(r) \/ Bypass(r) \/ DoChan(r) \/ CacheHit(r)
                             \/ OwnContextDone(r) \/ FlightResult(r) \/ DirectResult(r)
                             \/ Evaluate(r) \/ ApiError(r) \/ Answered(r) \/ ContextEndsCall(r)
       \/ \E q \in Questions: FlightStore(q) \/ FlightDeliver(q)
       \/ UNCHANGED <<call, inbox, verdict>>
  BY DEF Next, RequestStep, AtRest, vars, Arrive, NextHeaderValue, EndWalk, CacheMiss, ClientGone,
     Grant, Revoke, Tick
<1> QED BY <1>1, <1>2, <1>3, <1>4, <1>5, <1>6, <1>7, <1>8, <1>9, <1>10, <1>11, <1>12, <1>13

\* sharedLiveCheck: no request fails with a context error while its own context
\* is live, however many share a flight and whenever its leader hangs up.
THEOREM FailsOnlyWhenDoneHolds == Spec => []FailsOnlyWhenDone
<1>1. Init => ErrorsWhenDone
  BY DEF Init, ErrorsWhenDone, Idle, NoResult, NoAnswer, CtxErrors
<1>2. ErrorsWhenDone => FailsOnlyWhenDone
  BY DEF ErrorsWhenDone, FailsOnlyWhenDone
<1> QED BY <1>1, <1>2, TypeInit, TypeStep, ErrorsStep, PTL DEF Spec

-----------------------------------------------------------------------------
(* One terminal record per live check.                                     *)

\* Every step keeps the count of terminal records: a question is counted when
\* the cache misses and recorded when its live check returns.
LEMMA RecordStep == TypeInv /\ OneTerminalRecord /\ [Next]_vars => OneTerminalRecord'
<1> SUFFICES ASSUME TypeInv, OneTerminalRecord, [Next]_vars PROVE OneTerminalRecord'
  OBVIOUS
<1>0. /\ pc \in [Requests -> PCs] /\ gone \in [Requests -> BOOLEAN]
      /\ asked \in [Requests -> Nat] /\ recorded \in [Requests -> Nat]
      /\ reason \in [Requests -> Reasons]
  BY DEF TypeInv, TypeOK
<1> USE <1>0 DEF OneTerminalRecord
<1>1. ASSUME NEW r \in Requests, UNCHANGED <<gone, obsVars>>,
             pc[r] \notin {"miss", "waiting", "direct"},
             \E p \in {"walk", "lookup", "verdict", "done"}: pc' = [pc EXCEPT ![r] = p]
      PROVE  OneTerminalRecord'
  BY <1>1 DEF obsVars
<1>2. ASSUME NEW r \in Requests, Arrive(r) \/ NextHeaderValue(r) \/ EndWalk(r) \/ UseVerdict(r)
      PROVE  OneTerminalRecord'
  BY <1>1, <1>2 DEF Arrive, NextHeaderValue, EndWalk, UseVerdict, Finish
<1>3. ASSUME NEW r \in Requests, CacheHit(r) PROVE OneTerminalRecord'
  BY <1>1, <1>3 DEF CacheHit, Return
<1>4. ASSUME NEW r \in Requests, Bypass(r) \/ CacheMiss(r) PROVE OneTerminalRecord'
  BY <1>4 DEF Bypass, CacheMiss
<1>5. ASSUME NEW r \in Requests, UNCHANGED <<gone, obsVars>>,
             pc[r] \in {"miss", "waiting"},
             \E p \in {"waiting", "direct"}: pc' = [pc EXCEPT ![r] = p]
      PROVE  OneTerminalRecord'
  BY <1>5 DEF obsVars
<1>6. ASSUME NEW r \in Requests, DoChan(r) PROVE OneTerminalRecord'
  BY <1>5, <1>6 DEF DoChan
<1>7. ASSUME NEW r \in Requests, NEW a, pc[r] \in {"waiting", "direct"}, UNCHANGED <<gone, asked>>,
             ObserveLiveCheck(r, a), Return(r, a)
      PROVE  OneTerminalRecord'
  BY <1>7 DEF ObserveLiveCheck, Return
<1>8. ASSUME NEW r \in Requests, OwnContextDone(r) \/ DirectResult(r) PROVE OneTerminalRecord'
  BY <1>7, <1>8 DEF OwnContextDone, DirectResult
<1>9. ASSUME NEW r \in Requests, FlightResult(r) PROVE OneTerminalRecord'
  BY <1>5, <1>7, <1>9 DEF FlightResult, obsVars
<1>10. ASSUME NEW r \in Requests, ClientGone(r) PROVE OneTerminalRecord'
  BY <1>10 DEF ClientGone, obsVars
<1>11. ASSUME UNCHANGED <<pc, gone, obsVars>> PROVE OneTerminalRecord'
  BY <1>11 DEF obsVars
<1>12. \/ \E r \in Requests: \/ Arrive(r) \/ RequestStep(r) \/ ClientGone(r)
       \/ UNCHANGED <<pc, gone, obsVars>>
  BY DEF Next, AtRest, vars, obsVars, FlightStore, FlightDeliver, Evaluate, Answered, ApiError,
     ContextEndsCall, Grant, Revoke, Tick
<1> QED
  BY <1>2, <1>3, <1>4, <1>6, <1>8, <1>9, <1>10, <1>11, <1>12 DEF RequestStep

\* timedLiveCheck, observeLiveCheck: every question that needs a live check is
\* recorded exactly once, and the client is blamed only when it left.
THEOREM OneTerminalRecordHolds == Spec => []OneTerminalRecord
<1>1. Init => OneTerminalRecord
  BY DEF Init, OneTerminalRecord
<1> QED BY <1>1, TypeInit, TypeStep, RecordStep, PTL DEF Spec

-----------------------------------------------------------------------------
(* Who waits for which flight.                                             *)

\* What the types say about flights, calls and answers.
SharingTypes ==
  /\ flight \in [Questions -> Flights] /\ call \in [Requests -> Calls]
  /\ inbox \in [Requests -> Results] /\ pc \in [Requests -> PCs]
  /\ question \in [Requests -> Questions] /\ verdict \in [Requests -> Answers \cup {NoAnswer}]

\* A request that is between questions, or makes a direct check, is in no
\* flight, and has no call in progress unless it is the direct check.
LEMMA NotFlying ==
  ASSUME TypeInv, Sharing, NEW r \in Requests,
         \/ pc[r] \in {"new", "walk", "lookup", "miss", "direct"}
         \/ pc[r] = "verdict" /\ verdict[r] \notin CtxErrors
         \/ inbox[r] # NoResult
  PROVE  /\ \A q \in Questions: r \notin flight[q].members /\ flight[q].leader # r
         /\ pc[r] # "direct" => call[r] = Idle
<1>1. ASSUME NEW q \in Questions PROVE r \notin flight[q].members
  BY DEF Sharing, FlightsMatch
<1>2. ASSUME NEW q \in Questions PROVE flight[q].leader # r
  <2>1. CASE flight[q] = NoFlight
    BY <2>1, ConstantsAssumption DEF NoFlight, NoRequest
  <2>2. CASE flight[q] # NoFlight
    BY <1>1, <2>2 DEF Sharing, FlightsMatch
  <2> QED BY <2>1, <2>2
<1>3. question[r] \in Questions
  BY DEF TypeInv, TypeOK
<1> QED BY <1>1, <1>2, <1>3 DEF Sharing, CallsOwned

\* Every step keeps the flights of singleflight and the requests in them
\* consistent: the leader of a flight has the flight's question and a call.
LEMMA FlightsMatchStep == TypeInv /\ Sharing /\ [Next]_vars => FlightsMatch'
<1> SUFFICES ASSUME TypeInv, Sharing, [Next]_vars PROVE FlightsMatch'
  OBVIOUS
<1>0. SharingTypes /\ FlightsMatch
  BY DEF TypeInv, TypeOK, Sharing, SharingTypes
<1> USE <1>0 DEF SharingTypes, FlightsMatch
<1>1. ASSUME NEW r \in Requests, Arrive(r) \/ NextHeaderValue(r) \/ EndWalk(r) \/ Bypass(r)
                                 \/ CacheHit(r) \/ CacheMiss(r)
      PROVE  FlightsMatch'
  <2>1. \A q \in Questions: r \notin flight[q].members /\ flight[q].leader # r
    BY <1>1, NotFlying DEF Arrive, NextHeaderValue, EndWalk, Bypass, CacheHit, CacheMiss
  <2>2. /\ UNCHANGED <<flight, inbox>>
        /\ \A s \in Requests: s # r => /\ pc'[s] = pc[s] /\ question'[s] = question[s]
                                       /\ verdict'[s] = verdict[s] /\ call'[s] = call[s]
    BY <1>1 DEF Arrive, NextHeaderValue, EndWalk, Bypass, CacheHit, CacheMiss, Finish, Return, walkVars
  <2>3. \A q \in Questions: flight[q].members \subseteq Requests
    BY DEF Flights
  <2> QED BY <2>1, <2>2, <2>3
<1>2. ASSUME NEW r \in Requests, UseVerdict(r) PROVE FlightsMatch'
  <2>1. \A q \in Questions: r \in flight[q].members => pc'[r] = "done"
    <3>1. CASE verdict[r] \in CtxErrors
      BY <1>2, <3>1 DEF UseVerdict, Finish, CtxErrors
    <3>2. CASE verdict[r] \notin CtxErrors
      BY <1>2, <3>2, NotFlying DEF UseVerdict
    <3> QED BY <3>1, <3>2
  <2>2. /\ UNCHANGED <<flight, inbox, question, call>>
        /\ \A s \in Requests: s # r => pc'[s] = pc[s] /\ verdict'[s] = verdict[s]
    BY <1>2 DEF UseVerdict, Finish
  <2>3. \A q \in Questions: flight[q].members \subseteq Requests
    BY DEF Flights
  <2> QED BY <2>1, <2>2, <2>3
<1>3. ASSUME NEW r \in Requests, DoChan(r) PROVE FlightsMatch'
  <2> DEFINE p == question[r]
  <2>1. p \in Questions /\ \A q \in Questions: r \notin flight[q].members /\ flight[q].leader # r
    BY <1>3, NotFlying DEF DoChan
  <2>2. inbox[r] = NoResult
    BY <1>3 DEF DoChan, Sharing, CallsOwned
  <2>3. /\ UNCHANGED <<inbox, question, verdict>> /\ pc' = [pc EXCEPT ![r] = "waiting"]
        /\ \A q \in Questions \ {p}: flight'[q] = flight[q]
        /\ \A s \in Requests: s # r => call'[s] = call[s]
    BY <1>3, <2>1 DEF DoChan, walkVars
  <2>4. /\ flight'[p].leader \in flight'[p].members /\ call'[flight'[p].leader].stage # "idle"
        /\ flight'[p].members = flight[p].members \cup {r}
    <3>1. CASE flight[p] = NoFlight
      <4>1. flight'[p] = [leader |-> r, members |-> {r}] /\ call'[r] = Sent /\ flight[p].members = {}
        BY <1>3, <2>1, <3>1 DEF DoChan, NoFlight
      <4> QED BY <4>1 DEF Sent
    <3>2. CASE flight[p] # NoFlight
      <4>1. flight'[p].leader = flight[p].leader /\ flight'[p].members = flight[p].members \cup {r}
        BY <1>3, <2>1, <3>2 DEF DoChan, Flights
      <4>2. UNCHANGED call
        BY <1>3, <3>2 DEF DoChan
      <4> QED BY <2>1, <3>2, <4>1, <4>2
    <3> QED BY <3>1, <3>2
  <2>5. \A q \in Questions: flight[q].members \subseteq Requests
    BY DEF Flights
  <2>6. ASSUME NEW q \in Questions
        PROVE  /\ flight'[q] # NoFlight => /\ flight'[q].leader \in flight'[q].members
                                           /\ call'[flight'[q].leader].stage # "idle"
               /\ \A m \in flight'[q].members:
                    /\ question'[m] = q /\ inbox'[m] = NoResult
                    /\ \/ pc'[m] \in {"waiting", "done"}
                       \/ pc'[m] = "verdict" /\ verdict'[m] \in CtxErrors
    <3>1. CASE q = p
      BY <2>1, <2>2, <2>3, <2>4, <2>5, <3>1
    <3>2. CASE q # p
      BY <2>1, <2>2, <2>3, <2>5, <3>2
    <3> QED BY <3>1, <3>2
  <2> QED BY <2>6
<1>4. ASSUME NEW r \in Requests, OwnContextDone(r) PROVE FlightsMatch'
  <2>1. ctx[r] \in CtxErrors
    BY <1>4 DEF OwnContextDone, TypeInv, TypeOK
  <2>2. /\ UNCHANGED <<flight, question, call>> /\ inbox' = [inbox EXCEPT ![r] = NoResult]
        /\ pc' = [pc EXCEPT ![r] = "verdict"] /\ verdict' = [verdict EXCEPT ![r] = ctx[r]]
    BY <1>4 DEF OwnContextDone, Return, walkVars
  <2>3. \A q \in Questions: flight[q].members \subseteq Requests
    BY DEF Flights
  <2> QED BY <2>1, <2>2, <2>3
<1>5. ASSUME NEW r \in Requests, FlightResult(r) \/ DirectResult(r) PROVE FlightsMatch'
  <2>1. \A q \in Questions: r \notin flight[q].members /\ flight[q].leader # r
    BY <1>5, NotFlying DEF FlightResult, DirectResult
  <2>2. /\ UNCHANGED <<flight, question>>
        /\ \A s \in Requests: s # r => /\ pc'[s] = pc[s] /\ inbox'[s] = inbox[s]
                                       /\ verdict'[s] = verdict[s] /\ call'[s] = call[s]
    BY <1>5 DEF FlightResult, DirectResult, Return, walkVars
  <2>3. \A q \in Questions: flight[q].members \subseteq Requests
    BY DEF Flights
  <2> QED BY <2>1, <2>2, <2>3
<1>6. ASSUME NEW p \in Questions, FlightDeliver(p) PROVE FlightsMatch'
  <2> DEFINE l == flight[p].leader
  <2>1. l \in flight[p].members
    BY <1>6 DEF FlightDeliver
  <2>2. UNCHANGED <<question, pc, verdict>> /\ flight' = [flight EXCEPT ![p] = NoFlight]
    BY <1>6 DEF FlightDeliver, walkVars
  <2>3. ASSUME NEW q \in Questions \ {p}
        PROVE  \A m \in flight[q].members: inbox'[m] = inbox[m] /\ call'[m] = call[m]
    BY <1>6, <2>1, <2>3 DEF FlightDeliver, Flights
  <2>4. flight'[p] = NoFlight /\ NoFlight.members = {}
    BY <2>2 DEF NoFlight
  <2> QED BY <2>2, <2>3, <2>4
<1>7. ASSUME UNCHANGED <<flight, inbox, question, pc, verdict>>,
             \A s \in Requests: call[s].stage # "idle" => call'[s].stage # "idle"
      PROVE  FlightsMatch'
  BY <1>7 DEF Flights
<1>8. ASSUME NEW q \in Questions, FlightStore(q) PROVE FlightsMatch'
  <2>1. \A s \in Requests: call[s].stage # "idle" => call'[s].stage # "idle"
    BY <1>8 DEF FlightStore, Calls
  <2> QED BY <1>7, <1>8, <2>1 DEF FlightStore, walkVars
<1>9. ASSUME NEW r \in Requests, Evaluate(r) \/ Answered(r) \/ ApiError(r) \/ ContextEndsCall(r)
      PROVE  FlightsMatch'
  <2>1. \A s \in Requests: call[s].stage # "idle" => call'[s].stage # "idle"
    <3>1. CASE Answered(r)
      BY <3>1 DEF Answered, Calls
    <3>2. CASE Evaluate(r) \/ ApiError(r) \/ ContextEndsCall(r)
      BY <3>2 DEF Evaluate, ApiError, ContextEndsCall
    <3> QED BY <1>9, <3>1, <3>2
  <2> QED BY <1>7, <1>9, <2>1 DEF Evaluate, Answered, ApiError, ContextEndsCall, walkVars
<1>10. ASSUME UNCHANGED <<flight, inbox, question, pc, verdict, call>> PROVE FlightsMatch'
  BY <1>7, <1>10
<1>11. \/ \E r \in Requests: \/ Arrive(r) \/ RequestStep(r)
                             \/ Evaluate(r) \/ Answered(r) \/ ApiError(r) \/ ContextEndsCall(r)
       \/ \E q \in Questions: FlightStore(q) \/ FlightDeliver(q)
       \/ UNCHANGED <<flight, inbox, question, pc, verdict, call>>
  BY DEF Next, AtRest, vars, walkVars, ClientGone, Grant, Revoke, Tick
<1> QED
  BY <1>1, <1>2, <1>3, <1>4, <1>5, <1>6, <1>8, <1>9, <1>10, <1>11 DEF RequestStep

\* Every call in progress is the direct check of its request or belongs to the
\* flight that the request leads.
LEMMA CallsOwnedStep == TypeInv /\ Sharing /\ [Next]_vars => CallsOwned'
<1> SUFFICES ASSUME TypeInv, Sharing, [Next]_vars PROVE CallsOwned'
  OBVIOUS
<1>0. SharingTypes /\ CallsOwned
  BY DEF TypeInv, TypeOK, Sharing, SharingTypes
<1> USE <1>0 DEF SharingTypes, CallsOwned
<1>1. ASSUME NEW r \in Requests, Arrive(r) \/ NextHeaderValue(r) \/ EndWalk(r) \/ CacheMiss(r)
      PROVE  CallsOwned'
  <2>1. call[r] = Idle /\ inbox[r] = NoResult /\ verdict[r] = NoAnswer
    BY <1>1, NotFlying DEF Arrive, NextHeaderValue, EndWalk, CacheMiss
  <2>2. /\ UNCHANGED <<flight, call, inbox, verdict>>
        /\ \A s \in Requests: s # r => pc'[s] = pc[s] /\ question'[s] = question[s]
    BY <1>1 DEF Arrive, NextHeaderValue, EndWalk, CacheMiss, Finish, walkVars
  <2> QED BY <2>1, <2>2 DEF Idle
<1>2. ASSUME NEW r \in Requests, UseVerdict(r) PROVE CallsOwned'
  <2>1. /\ UNCHANGED <<flight, call, inbox, question>>
        /\ verdict' = [verdict EXCEPT ![r] = NoAnswer]
        /\ pc[r] = "verdict" /\ \A s \in Requests: s # r => pc'[s] = pc[s]
    BY <1>2 DEF UseVerdict, Finish
  <2> QED BY <2>1
<1>3. ASSUME NEW r \in Requests, Bypass(r) PROVE CallsOwned'
  <2>1. inbox[r] = NoResult /\ verdict[r] = NoAnswer
    BY <1>3 DEF Bypass
  <2>2. /\ UNCHANGED <<flight, inbox, verdict, question>>
        /\ call' = [call EXCEPT ![r] = Sent] /\ pc' = [pc EXCEPT ![r] = "direct"]
    BY <1>3 DEF Bypass, walkVars
  <2> QED BY <2>1, <2>2 DEF Sent
<1>4. ASSUME NEW r \in Requests, CacheHit(r) PROVE CallsOwned'
  <2>1. call[r] = Idle /\ inbox[r] = NoResult
    BY <1>4, NotFlying DEF CacheHit
  <2>2. /\ UNCHANGED <<flight, inbox, call, question>>
        /\ \A s \in Requests: s # r => verdict'[s] = verdict[s]
        /\ pc' = [pc EXCEPT ![r] = "verdict"]
    BY <1>4 DEF CacheHit, Return, walkVars
  <2> QED BY <2>1, <2>2 DEF Idle
<1>5. ASSUME NEW r \in Requests, DoChan(r) PROVE CallsOwned'
  <2> DEFINE p == question[r]
  <2>1. call[r] = Idle /\ verdict[r] = NoAnswer /\ p \in Questions
    BY <1>5, NotFlying DEF DoChan
  <2>2. UNCHANGED <<inbox, verdict, question>> /\ pc' = [pc EXCEPT ![r] = "waiting"]
    BY <1>5 DEF DoChan, walkVars
  <2>3. CASE flight[p] = NoFlight
    <3>1. /\ flight' = [flight EXCEPT ![p] = [leader |-> r, members |-> {r}]]
          /\ call' = [call EXCEPT ![r] = Sent]
      BY <1>5, <2>3 DEF DoChan
    <3>2. \A s \in Requests: flight[p].leader # s
      BY <2>3, ConstantsAssumption DEF NoFlight, NoRequest
    <3>3. flight'[p].leader = r /\ \A q \in Questions: q # p => flight'[q] = flight[q]
      BY <2>1, <3>1
    <3> QED BY <1>5, <2>1, <2>2, <3>1, <3>2, <3>3 DEF Sent, DoChan
  <2>4. CASE flight[p] # NoFlight
    <3>1. UNCHANGED call /\ \A q \in Questions: flight'[q].leader = flight[q].leader
      BY <1>5, <2>1, <2>4 DEF DoChan, Flights
    <3> QED BY <2>1, <2>2, <3>1 DEF Idle
  <2> QED BY <2>3, <2>4
<1>6. ASSUME NEW r \in Requests, OwnContextDone(r) PROVE CallsOwned'
  <2>1. /\ UNCHANGED <<flight, question, call>> /\ inbox' = [inbox EXCEPT ![r] = NoResult]
        /\ pc[r] = "waiting" /\ pc' = [pc EXCEPT ![r] = "verdict"]
        /\ \A s \in Requests: s # r => verdict'[s] = verdict[s]
    BY <1>6 DEF OwnContextDone, Return, walkVars
  <2> QED BY <2>1
<1>7. ASSUME NEW r \in Requests, FlightResult(r) PROVE CallsOwned'
  <2>1. pc[r] = "waiting" /\ call[r] = Idle /\ verdict[r] = NoAnswer
    BY <1>7, NotFlying DEF FlightResult
  <2>2. UNCHANGED <<flight, question>> /\ inbox' = [inbox EXCEPT ![r] = NoResult]
    BY <1>7 DEF FlightResult, walkVars
  <2>3. CASE MustRetry(r)
    <3>1. /\ call' = [call EXCEPT ![r] = Sent] /\ pc' = [pc EXCEPT ![r] = "direct"]
          /\ UNCHANGED verdict
      BY <1>7, <2>3 DEF FlightResult
    <3> QED BY <2>1, <2>2, <3>1 DEF Sent
  <2>4. CASE ~MustRetry(r)
    <3>1. /\ UNCHANGED call /\ pc' = [pc EXCEPT ![r] = "verdict"]
          /\ \A s \in Requests: s # r => verdict'[s] = verdict[s]
      BY <1>7, <2>4 DEF FlightResult, Return
    <3> QED BY <2>1, <2>2, <3>1 DEF Idle
  <2> QED BY <2>3, <2>4
<1>8. ASSUME NEW r \in Requests, DirectResult(r) PROVE CallsOwned'
  <2>1. inbox[r] = NoResult
    BY <1>8 DEF DirectResult
  <2>2. /\ UNCHANGED <<flight, question, inbox>> /\ call' = [call EXCEPT ![r] = Idle]
        /\ pc' = [pc EXCEPT ![r] = "verdict"]
        /\ \A s \in Requests: s # r => verdict'[s] = verdict[s]
    BY <1>8 DEF DirectResult, Return, walkVars
  <2> QED BY <2>1, <2>2 DEF Idle
<1>9. ASSUME NEW p \in Questions, FlightStore(p) PROVE CallsOwned'
  <2> DEFINE l == flight[p].leader
  <2>1. l \in Requests /\ call[l].stage = "answered"
    BY <1>9 DEF FlightStore, TypeInv, FlightsHaveLeaders
  <2>2. /\ UNCHANGED <<flight, question, inbox, pc, verdict>>
        /\ call'[l].stage = "stored" /\ call'[l].answer = call[l].answer
        /\ \A s \in Requests: s # l => call'[s] = call[s]
    BY <1>9, <2>1 DEF FlightStore, walkVars, Calls
  <2> QED BY <2>1, <2>2
<1>10. ASSUME NEW p \in Questions, FlightDeliver(p) PROVE CallsOwned'
  <2> DEFINE l == flight[p].leader
  <2>1. l \in Requests /\ l \in flight[p].members /\ question[l] = p
    BY <1>10 DEF FlightDeliver, TypeInv, FlightsHaveLeaders, Sharing, FlightsMatch
  <2>2. /\ UNCHANGED <<question, pc, verdict>> /\ call' = [call EXCEPT ![l] = Idle]
        /\ flight' = [flight EXCEPT ![p] = NoFlight]
        /\ \A s \in Requests: inbox'[s] # NoResult => inbox[s] # NoResult \/ pc[s] = "waiting"
    BY <1>10 DEF FlightDeliver, walkVars
  <2>3. ASSUME NEW s \in Requests, call'[s].stage # "idle"
        PROVE  pc[s] = "direct" \/ flight'[question[s]].leader = s
    <3>1. s # l /\ call'[s] = call[s]
      BY <2>1, <2>2, <2>3 DEF Idle
    <3>2. question[s] = p => flight[question[s]].leader # s
      BY <3>1
    <3> QED BY <2>2, <2>3, <3>1, <3>2
  <2> QED BY <2>1, <2>2, <2>3 DEF Idle
<1>11. ASSUME NEW r \in Requests, Evaluate(r) \/ Answered(r) \/ ApiError(r) \/ ContextEndsCall(r)
       PROVE  CallsOwned'
  <2>1. UNCHANGED <<flight, question, inbox, pc, verdict>>
    BY <1>11 DEF Evaluate, Answered, ApiError, ContextEndsCall, walkVars
  <2>2. /\ call[r].stage # "idle" /\ call'[r].stage # "idle"
        /\ call'[r].stage \in {"decided", "answered", "stored"} => call'[r].answer \in {"allow", "deny"}
        /\ \A s \in Requests: s # r => call'[s] = call[s]
    <3>1. CASE Answered(r)
      BY <3>1 DEF Answered, Calls
    <3>2. CASE Evaluate(r) \/ ApiError(r) \/ ContextEndsCall(r)
      BY <3>2 DEF Evaluate, ApiError, ContextEndsCall, Pending
    <3> QED BY <1>11, <3>1, <3>2
  <2> QED BY <2>1, <2>2
<1>12. ASSUME UNCHANGED <<flight, inbox, question, pc, verdict, call>> PROVE CallsOwned'
  BY <1>12
<1>13. \/ \E r \in Requests: \/ Arrive(r) \/ RequestStep(r)
                             \/ Evaluate(r) \/ Answered(r) \/ ApiError(r) \/ ContextEndsCall(r)
       \/ \E q \in Questions: FlightStore(q) \/ FlightDeliver(q)
       \/ UNCHANGED <<flight, inbox, question, pc, verdict, call>>
  BY DEF Next, AtRest, vars, walkVars, ClientGone, Grant, Revoke, Tick
<1> QED
  BY <1>1, <1>2, <1>3, <1>4, <1>5, <1>6, <1>7, <1>8, <1>9, <1>10, <1>11, <1>12, <1>13
     DEF RequestStep

\* Sharing is inductive.
LEMMA SharingStep == TypeInv /\ Sharing /\ [Next]_vars => Sharing'
BY FlightsMatchStep, CallsOwnedStep DEF Sharing

-----------------------------------------------------------------------------
(* The clock and the budgets.                                              *)

\* A step that takes no time, and lets no one into the check.
TimingFrame ==
  /\ UNCHANGED <<now, arrived, deadline>>
  /\ \A s \in Requests:
       /\ pc[s] = "new" => pc'[s] = "new"
       /\ pc[s] = "done" => pc'[s] = "done"
       /\ pc'[s] = "done" => ctx'[s] # "live"
       /\ ctx[s] # "live" => ctx'[s] # "live"
       /\ call'[s].stage # "idle" => call[s].stage # "idle" \/ Active(s)

\* Every step keeps Timing: a live context has not passed its deadline, which
\* is one budget after the arrival, and only Tick can let time pass.
LEMMA TimingStep == TypeInv /\ Sharing /\ Timing /\ [Next]_vars => Timing'
<1> SUFFICES ASSUME TypeInv, Sharing, Timing, [Next]_vars PROVE Timing'
  OBVIOUS
<1>0. /\ now \in Nat /\ arrived \in [Requests -> Nat] /\ deadline \in [Requests -> Nat]
      /\ pc \in [Requests -> PCs] /\ ctx \in [Requests -> {"live"} \cup CtxErrors]
      /\ call \in [Requests -> Calls] /\ SarTimeout \in Nat /\ SarTimeout > 0
      /\ \A s \in Requests: ctx[s] # "live" => ctx'[s] # "live"
  BY ConstantsAssumption, ContextStep DEF TypeInv, TypeOK
<1>1. TimingFrame => Timing'
  BY <1>0 DEF TimingFrame, Timing, Active
<1> USE <1>0, <1>1
<1>2. ASSUME NEW r \in Requests, Arrive(r) PROVE Timing'
  <2>1. /\ arrived' = [arrived EXCEPT ![r] = now]
        /\ deadline' = [deadline EXCEPT ![r] = now + SarTimeout]
        /\ UNCHANGED <<now, call>>
        /\ \A s \in Requests: s # r => pc'[s] = pc[s] /\ ctx'[s] = ctx[s]
        /\ pc'[r] = "done" => ctx'[r] # "live"
    BY <1>2 DEF Arrive, Finish, envVars
  <2> QED BY <2>1 DEF Timing, Active
<1>3. ASSUME NEW r \in Requests, NextHeaderValue(r) \/ CacheHit(r) \/ CacheMiss(r) PROVE Timing'
  BY <1>3 DEF NextHeaderValue, CacheHit, CacheMiss, Return, TimingFrame, Timing, envVars, walkVars
<1>4. ASSUME NEW r \in Requests, EndWalk(r) \/ UseVerdict(r) PROVE Timing'
  BY <1>4 DEF EndWalk, UseVerdict, Finish, TimingFrame, Timing, envVars
<1>5. ASSUME NEW r \in Requests, Bypass(r) \/ DoChan(r) PROVE Timing'
  BY <1>5 DEF Bypass, DoChan, TimingFrame, Timing, Active, envVars, walkVars
<1>6. ASSUME NEW r \in Requests, OwnContextDone(r) \/ DirectResult(r) PROVE Timing'
  BY <1>6 DEF OwnContextDone, DirectResult, Return, Idle, TimingFrame, Timing, envVars, walkVars
<1>7. ASSUME NEW r \in Requests, FlightResult(r) PROVE Timing'
  BY <1>7 DEF FlightResult, Return, TimingFrame, Timing, Active, envVars, walkVars
<1>8. ASSUME NEW q \in Questions, FlightStore(q) PROVE Timing'
  <2>1. \A s \in Requests: call'[s].stage # "idle" => call[s].stage # "idle"
    BY <1>8 DEF FlightStore, Calls
  <2> QED BY <1>8, <2>1 DEF FlightStore, TimingFrame, Timing, envVars, walkVars
<1>9. ASSUME NEW q \in Questions, FlightDeliver(q) PROVE Timing'
  BY <1>9 DEF FlightDeliver, Idle, TimingFrame, Timing, envVars, walkVars
<1>10. ASSUME NEW r \in Requests, Evaluate(r) \/ Answered(r) \/ ApiError(r) \/ ContextEndsCall(r)
       PROVE  Timing'
  <2>1. \A s \in Requests: call'[s].stage # "idle" => call[s].stage # "idle"
    BY <1>10 DEF Evaluate, Answered, ApiError, ContextEndsCall, Pending
  <2> QED BY <1>10, <2>1 DEF Evaluate, Answered, ApiError, ContextEndsCall, TimingFrame, Timing,
             envVars, walkVars
<1>11. ASSUME NEW r \in Requests, ClientGone(r) PROVE Timing'
  BY <1>11 DEF ClientGone, TimingFrame, Timing, envVars, walkVars
<1>12. ASSUME NEW q \in Questions, Grant(q) \/ Revoke(q) PROVE Timing'
  BY <1>12 DEF Grant, Revoke, TimingFrame, Timing, walkVars
<1>13. ASSUME Tick PROVE Timing'
  <2>1. /\ UNCHANGED <<call, pc, arrived, deadline>> /\ now' = now + 1
        /\ ctx' = [r \in Requests |->
             IF Active(r) /\ ctx[r] = "live" /\ deadline[r] <= now + 1 THEN "expired" ELSE ctx[r]]
    BY <1>13 DEF Tick, walkVars
  <2>2. ASSUME NEW s \in Requests, Active(s) PROVE ctx[s] = "live"
    BY <1>13, <2>2 DEF Tick, Quiet, Blocked
  <2>3. ASSUME NEW s \in Requests, call[s].stage # "idle" PROVE Active(s)
    <3>1. CASE pc[s] = "direct"
      BY <3>1 DEF Active
    <3>2. CASE flight[question[s]].leader = s
      <4>1. question[s] \in Questions /\ flight[question[s]] # NoFlight
        BY <3>2, ConstantsAssumption DEF TypeInv, TypeOK, NoFlight, NoRequest
      <4>2. ctx[s] = "live" /\ pc[s] # "new"
        BY <1>13, <3>2, <4>1 DEF Tick, Quiet, Sharing, FlightsMatch
      <4> QED BY <4>2 DEF Timing, Active
    <3> QED BY <2>3, <3>1, <3>2 DEF Sharing, CallsOwned
  <2>4. ASSUME NEW s \in Requests, Active(s) PROVE now + 1 <= arrived[s] + SarTimeout
    <3>1. now < deadline[s] /\ deadline[s] = arrived[s] + SarTimeout
      BY <2>2, <2>4 DEF Timing, Active
    <3> QED BY <3>1
  <2>5. ASSUME NEW s \in Requests, Active(s), ctx'[s] = "live" PROVE now + 1 < deadline[s]
    BY <2>1, <2>2, <2>5
  <2>6. \A s \in Requests: Active(s)' = Active(s)
    BY <2>1 DEF Active
  <2> QED BY <2>1, <2>3, <2>4, <2>5, <2>6 DEF Timing
<1>14. ASSUME UNCHANGED vars PROVE Timing'
  BY <1>14 DEF TimingFrame, Timing, vars
<1> QED
  BY <1>2, <1>3, <1>4, <1>5, <1>6, <1>7, <1>8, <1>9, <1>10, <1>11, <1>12, <1>13, <1>14
     DEF Next, RequestStep, AtRest

-----------------------------------------------------------------------------
(* The age of answers.                                                     *)

\* The history variables only grow, and History is inductive.
LEMMA HistoryStep ==
  ASSUME TypeInv, History, [Next]_vars
  PROVE  /\ History'
         /\ \A q \in Questions: lastTrue'[q] >= lastTrue[q] /\ lastFalse'[q] >= lastFalse[q]
<1>0. /\ now \in Nat /\ grants \subseteq Questions
      /\ lastTrue \in [Questions -> Int] /\ lastFalse \in [Questions -> Int]
  BY DEF TypeInv, TypeOK
<1>1. CASE \E q \in Questions: Grant(q) \/ Revoke(q)
  <2>1. PICK q \in Questions: Grant(q) \/ Revoke(q)
    BY <1>1
  <2>2. /\ now' = now
        /\ lastTrue' = [lastTrue EXCEPT ![q] = now] /\ lastFalse' = [lastFalse EXCEPT ![q] = now]
        /\ \A p \in Questions: p # q => (p \in grants' <=> p \in grants)
    BY <2>1 DEF Grant, Revoke
  <2> QED BY <1>0, <2>2 DEF History
<1>2. CASE Tick
  BY <1>0, <1>2 DEF Tick, History
<1>3. CASE UNCHANGED vars \/ UNCHANGED envVars
  BY <1>0, <1>3 DEF History, vars, envVars
<1>4. \/ \E q \in Questions: Grant(q) \/ Revoke(q)
      \/ Tick
      \/ UNCHANGED vars \/ UNCHANGED envVars
  BY DEF Next, RequestStep, AtRest, Arrive, NextHeaderValue, EndWalk, UseVerdict,
     Bypass, CacheHit, CacheMiss, DoChan, OwnContextDone, FlightResult, DirectResult, FlightStore,
     FlightDeliver, Evaluate, Answered, ApiError, ContextEndsCall, ClientGone
<1> QED BY <1>1, <1>2, <1>3, <1>4

\* The answer of a call in progress was true of the RBAC rules at an instant
\* since the call's request arrived.
LEMMA CallEvidenceStep ==
  TypeInv /\ Sharing /\ Timing /\ History /\ CallEvidence /\ [Next]_vars => CallEvidence'
<1> SUFFICES ASSUME TypeInv, Sharing, Timing, History, CallEvidence, [Next]_vars
             PROVE  CallEvidence'
  OBVIOUS
<1>0. /\ now \in Nat /\ lastTrue \in [Questions -> Int] /\ lastFalse \in [Questions -> Int]
      /\ lastTrue' \in [Questions -> Int] /\ lastFalse' \in [Questions -> Int]
      /\ arrived \in [Requests -> Nat] /\ question \in [Requests -> Questions]
      /\ call \in [Requests -> Calls]
      /\ \A q \in Questions: lastTrue'[q] >= lastTrue[q] /\ lastFalse'[q] >= lastFalse[q]
  BY HistoryStep, TypeStep DEF TypeInv, TypeOK
<1> USE <1>0
<1>1. ASSUME \A r \in Requests:
               \/ call'[r].answer \notin {"allow", "deny"}
               \/ call'[r].answer = call[r].answer /\ UNCHANGED <<arrived[r], question[r]>>
      PROVE  CallEvidence'
  <2> SUFFICES ASSUME NEW r \in Requests, call'[r].answer \in {"allow", "deny"}
               PROVE  /\ call'[r].answer = "allow" => lastTrue'[question'[r]] >= arrived'[r]
                      /\ call'[r].answer = "deny" => lastFalse'[question'[r]] >= arrived'[r]
    BY DEF CallEvidence
  <2>1. call'[r].answer = call[r].answer /\ arrived'[r] = arrived[r] /\ question'[r] = question[r]
    BY <1>1
  <2> QED BY <2>1 DEF CallEvidence
<1>2. ASSUME NEW r \in Requests, Arrive(r) \/ NextHeaderValue(r) PROVE CallEvidence'
  <2>1. call'[r].answer = NoAnswer
    <3>1. pc[r] \in {"new", "walk"} /\ call' = call
      BY <1>2 DEF Arrive, NextHeaderValue
    <3> QED BY <3>1, NotFlying DEF Idle
  <2>2. \A s \in Requests: s # r => UNCHANGED <<call[s], arrived[s], question[s]>>
    BY <1>2 DEF Arrive, NextHeaderValue
  <2> QED BY <1>1, <2>1, <2>2 DEF NoAnswer
<1>3. ASSUME NEW r \in Requests, Bypass(r) \/ DoChan(r) \/ FlightResult(r) \/ DirectResult(r)
                                 \/ ApiError(r) \/ ContextEndsCall(r)
      PROVE  CallEvidence'
  <2>1. call'[r].answer \notin {"allow", "deny"} \/ call'[r] = call[r]
    <3>1. ctx[r] \notin {"allow", "deny"}
      BY DEF TypeInv, TypeOK, CtxErrors
    <3> QED BY <1>3, <3>1 DEF Bypass, DoChan, FlightResult, DirectResult, ApiError,
               ContextEndsCall, Sent, Idle, NoAnswer
  <2>2. /\ \A s \in Requests: s # r => call'[s] = call[s]
        /\ UNCHANGED <<arrived, question>>
    BY <1>3 DEF Bypass, DoChan, FlightResult, DirectResult, ApiError, ContextEndsCall, walkVars
  <2> QED BY <1>1, <2>1, <2>2
<1>4. ASSUME NEW r \in Requests, Evaluate(r) PROVE CallEvidence'
  <2>1. /\ UNCHANGED <<arrived, question, lastTrue, lastFalse>>
        /\ call'[r].answer = IF question[r] \in grants THEN "allow" ELSE "deny"
        /\ \A s \in Requests: s # r => call'[s] = call[s]
    BY <1>4 DEF Evaluate, walkVars, envVars
  <2>2. IF question[r] \in grants THEN lastTrue[question[r]] >= arrived[r]
                                  ELSE lastFalse[question[r]] >= arrived[r]
    BY DEF History, Timing
  <2> QED BY <2>1, <2>2 DEF CallEvidence
<1>5. ASSUME NEW r \in Requests, Answered(r) PROVE CallEvidence'
  <2>1. \A s \in Requests: call'[s].answer = call[s].answer
    BY <1>5 DEF Answered, Calls
  <2> QED BY <1>1, <1>5, <2>1 DEF Answered, walkVars
<1>6. ASSUME NEW q \in Questions, FlightStore(q) PROVE CallEvidence'
  <2>1. \A s \in Requests: call'[s].answer = call[s].answer
    BY <1>6 DEF FlightStore, Calls
  <2> QED BY <1>1, <1>6, <2>1 DEF FlightStore, walkVars
<1>7. ASSUME NEW q \in Questions, FlightDeliver(q) PROVE CallEvidence'
  <2>1. \A s \in Requests: call'[s].answer = NoAnswer \/ call'[s] = call[s]
    BY <1>7 DEF FlightDeliver, Idle
  <2> QED BY <1>1, <1>7, <2>1 DEF FlightDeliver, walkVars, NoAnswer
<1>8. ASSUME UNCHANGED <<call, arrived, question>> PROVE CallEvidence'
  BY <1>1, <1>8
<1>9. \/ \E r \in Requests: \/ Arrive(r) \/ NextHeaderValue(r) \/ Bypass(r) \/ DoChan(r)
                            \/ FlightResult(r) \/ DirectResult(r) \/ ApiError(r)
                            \/ ContextEndsCall(r) \/ Evaluate(r) \/ Answered(r)
      \/ \E q \in Questions: FlightStore(q) \/ FlightDeliver(q)
      \/ UNCHANGED <<call, arrived, question>>
  BY DEF Next, RequestStep, AtRest, vars, walkVars, EndWalk, UseVerdict, CacheHit, CacheMiss,
     OwnContextDone, ClientGone, Grant, Revoke, Tick
<1> QED BY <1>2, <1>3, <1>4, <1>5, <1>6, <1>7, <1>8, <1>9

\* The answer of a call is at most a budget old.
LEMMA FreshCall ==
  ASSUME TypeInv, Timing, CallEvidence, NEW r \in Requests, call[r].stage # "idle"
  PROVE  /\ call[r].answer = "allow" => now - lastTrue[question[r]] <= SarTimeout
         /\ call[r].answer = "deny" => now - lastFalse[question[r]] <= SarTimeout
<1>1. /\ now \in Nat /\ arrived[r] \in Nat /\ SarTimeout \in Nat
      /\ lastTrue[question[r]] \in Int /\ lastFalse[question[r]] \in Int
  BY ConstantsAssumption DEF TypeInv, TypeOK
<1>2. now <= arrived[r] + SarTimeout
  BY DEF Timing
<1> QED BY <1>1, <1>2 DEF CallEvidence

\* What a request that leads a flight knows about its call.
LEMMA Leading ==
  ASSUME TypeInv, Sharing, NEW q \in Questions, flight[q] # NoFlight
  PROVE  /\ flight[q].leader \in Requests /\ question[flight[q].leader] = q
         /\ call[flight[q].leader].stage # "idle"
BY DEF TypeInv, FlightsHaveLeaders, Sharing, FlightsMatch

\* A result handed to the waiters of a flight is at most a budget old.
LEMMA ResultEvidenceStep ==
  TypeInv /\ Sharing /\ Timing /\ History /\ CallEvidence /\ ResultEvidence /\ [Next]_vars
    => ResultEvidence'
<1> SUFFICES ASSUME TypeInv, Sharing, Timing, History, CallEvidence, ResultEvidence, [Next]_vars
             PROVE  ResultEvidence'
  OBVIOUS
<1>0. /\ now \in Nat /\ SarTimeout \in Nat
      /\ lastTrue \in [Questions -> Int] /\ lastFalse \in [Questions -> Int]
      /\ lastTrue' \in [Questions -> Int] /\ lastFalse' \in [Questions -> Int]
      /\ question \in [Requests -> Questions] /\ inbox \in [Requests -> Results]
      /\ \A q \in Questions: lastTrue'[q] >= lastTrue[q] /\ lastFalse'[q] >= lastFalse[q]
  BY HistoryStep, TypeStep, ConstantsAssumption DEF TypeInv, TypeOK
<1> USE <1>0
<1>1. ASSUME \A r \in Requests:
               \/ inbox'[r].answer = NoAnswer
               \/ inbox'[r] = inbox[r] /\ UNCHANGED <<now, question[r]>>
      PROVE  ResultEvidence'
  <2> SUFFICES ASSUME NEW r \in Requests, inbox'[r].answer # NoAnswer
               PROVE  /\ inbox'[r].answer = "allow" => now' - lastTrue'[question'[r]] <= SarTimeout
                      /\ inbox'[r].answer = "deny" => now' - lastFalse'[question'[r]] <= SarTimeout
    BY DEF ResultEvidence, NoAnswer
  <2>1. inbox'[r] = inbox[r] /\ now' = now /\ question'[r] = question[r]
    BY <1>1
  <2> QED BY <2>1 DEF ResultEvidence
<1>2. ASSUME NEW r \in Requests, NextHeaderValue(r) PROVE ResultEvidence'
  <2>1. pc[r] = "walk" /\ UNCHANGED <<now, inbox>>
    BY <1>2 DEF NextHeaderValue, envVars
  <2>2. inbox'[r].answer = NoAnswer
    BY <2>1 DEF Sharing, CallsOwned, NoResult
  <2>3. \A s \in Requests: s # r => question'[s] = question[s]
    BY <1>2 DEF NextHeaderValue
  <2> QED BY <1>1, <2>1, <2>2, <2>3
<1>3. ASSUME NEW r \in Requests, OwnContextDone(r) \/ FlightResult(r) PROVE ResultEvidence'
  <2>1. inbox' = [inbox EXCEPT ![r] = NoResult] /\ UNCHANGED <<now, question>>
    BY <1>3 DEF OwnContextDone, FlightResult, envVars, walkVars
  <2> QED BY <1>1, <2>1 DEF NoResult
<1>4. ASSUME NEW q \in Questions, FlightDeliver(q) PROVE ResultEvidence'
  <2> DEFINE l == flight[q].leader
  <2>1. l \in Requests /\ question[l] = q /\ call[l].stage # "idle"
    BY <1>4, Leading DEF FlightDeliver
  <2>2. /\ call[l].answer = "allow" => now - lastTrue[q] <= SarTimeout
        /\ call[l].answer = "deny" => now - lastFalse[q] <= SarTimeout
    BY <2>1, FreshCall
  <2>3. UNCHANGED <<now, lastTrue, lastFalse, question>>
    BY <1>4 DEF FlightDeliver, envVars, walkVars
  <2>4. ASSUME NEW r \in Requests
        PROVE  /\ inbox'[r].answer = "allow" => now - lastTrue[question[r]] <= SarTimeout
               /\ inbox'[r].answer = "deny" => now - lastFalse[question[r]] <= SarTimeout
    <3>1. CASE r \in flight[q].members /\ pc[r] = "waiting"
      <4>1. inbox'[r].answer = call[l].answer
        BY <1>4, <3>1 DEF FlightDeliver
      <4>2. question[r] = q
        BY <3>1 DEF Sharing, FlightsMatch
      <4> QED BY <2>2, <4>1, <4>2
    <3>2. CASE ~(r \in flight[q].members /\ pc[r] = "waiting")
      <4>1. inbox'[r] = inbox[r]
        BY <1>4, <3>2 DEF FlightDeliver
      <4> QED BY <4>1 DEF ResultEvidence
    <3> QED BY <3>1, <3>2
  <2> QED BY <2>3, <2>4 DEF ResultEvidence
<1>5. ASSUME Tick PROVE ResultEvidence'
  <2>1. ASSUME NEW r \in Requests PROVE inbox'[r].answer = NoAnswer
    <3>1. inbox[r] = NoResult
      BY <1>5 DEF Tick, Quiet, Blocked, Active, Sharing, CallsOwned
    <3>2. inbox' = inbox
      BY <1>5 DEF Tick
    <3> QED BY <3>1, <3>2 DEF NoResult
  <2> QED BY <1>1, <2>1
<1>6. ASSUME UNCHANGED <<now, inbox, question>> PROVE ResultEvidence'
  BY <1>1, <1>6
<1>7. \/ \E r \in Requests: NextHeaderValue(r) \/ OwnContextDone(r) \/ FlightResult(r)
      \/ \E q \in Questions: FlightDeliver(q)
      \/ Tick
      \/ UNCHANGED <<now, inbox, question>>
  <2>1. CASE UNCHANGED vars
    BY <2>1 DEF vars
  <2>2. CASE Next
    BY <2>2 DEF Next, RequestStep, AtRest, vars, envVars, walkVars, Arrive, EndWalk, UseVerdict,
       Bypass, CacheHit, CacheMiss, DoChan, DirectResult, FlightStore, Evaluate, Answered,
       ApiError, ContextEndsCall, ClientGone, Grant, Revoke
  <2> QED BY <2>1, <2>2
<1> QED BY <1>2, <1>3, <1>4, <1>5, <1>6, <1>7

\* A cached entry expires at most its TTL and one budget after the instant at
\* which it was true.
LEMMA CacheEvidenceStep ==
  TypeInv /\ Sharing /\ Timing /\ History /\ CallEvidence /\ CacheEvidence /\ [Next]_vars
    => CacheEvidence'
<1> SUFFICES ASSUME TypeInv, Sharing, Timing, History, CallEvidence, CacheEvidence, [Next]_vars
             PROVE  CacheEvidence'
  OBVIOUS
<1>0. /\ now \in Nat /\ SarTimeout \in Nat /\ AllowTTL \in Nat /\ DenyTTL \in Nat
      /\ lastTrue \in [Questions -> Int] /\ lastFalse \in [Questions -> Int]
      /\ lastTrue' \in [Questions -> Int] /\ lastFalse' \in [Questions -> Int]
      /\ cache \in [Questions -> Entries]
      /\ \A q \in Questions: lastTrue'[q] >= lastTrue[q] /\ lastFalse'[q] >= lastFalse[q]
  BY HistoryStep, TypeStep, ConstantsAssumption DEF TypeInv, TypeOK
<1> USE <1>0
<1>1. ASSUME NEW q \in Questions, cache'[q] = NoEntry \/ cache'[q] = cache[q]
      PROVE  cache'[q] # NoEntry =>
               IF cache'[q].allowed THEN cache'[q].expires - lastTrue'[q] <= AllowTTL + SarTimeout
                                    ELSE cache'[q].expires - lastFalse'[q] <= DenyTTL + SarTimeout
  <2> SUFFICES ASSUME cache'[q] # NoEntry
               PROVE  IF cache[q].allowed THEN cache[q].expires - lastTrue'[q] <= AllowTTL + SarTimeout
                                          ELSE cache[q].expires - lastFalse'[q] <= DenyTTL + SarTimeout
    BY <1>1
  <2>1. cache[q].expires \in Int
    BY DEF Entries
  <2>2. IF cache[q].allowed THEN cache[q].expires - lastTrue[q] <= AllowTTL + SarTimeout
                            ELSE cache[q].expires - lastFalse[q] <= DenyTTL + SarTimeout
    BY <1>1 DEF CacheEvidence
  <2> QED BY <2>1, <2>2
<1>2. ASSUME NEW p \in Questions, FlightStore(p) PROVE CacheEvidence'
  <2> DEFINE l == flight[p].leader
             a == call[l].answer = "allow"
             e == [allowed |-> a, expires |-> now + TTL(a)]
  <2>1. /\ l \in Requests /\ question[l] = p /\ call[l].stage = "answered"
        /\ call[l].answer \in {"allow", "deny"}
    BY <1>2, Leading DEF FlightStore, Sharing, CallsOwned
  <2>2. /\ call[l].answer = "allow" => now - lastTrue[p] <= SarTimeout
        /\ call[l].answer = "deny" => now - lastFalse[p] <= SarTimeout
    BY <2>1, FreshCall
  <2>3. UNCHANGED <<lastTrue, lastFalse>>
    BY <1>2 DEF FlightStore, envVars
  <2>4. \A q \in Questions: \/ cache'[q] = NoEntry \/ cache'[q] = cache[q]
                            \/ q = p /\ cache'[q] = e
    <3>1. \/ cache' = cache
          \/ cache' = [cache EXCEPT ![p] = e]
          \/ \E o \in Questions: cache' = [cache EXCEPT ![p] = e, ![o] = NoEntry]
      BY <1>2 DEF FlightStore, Put
    <3> HIDE DEF e
    <3> QED BY <3>1
  <2>5. CASE a
    <3>1. e.allowed = TRUE /\ e.expires = now + AllowTTL
      BY <2>5 DEF TTL
    <3>2. e.expires - lastTrue[p] <= AllowTTL + SarTimeout
      BY <2>2, <2>5, <3>1
    <3> HIDE DEF e
    <3> QED BY <1>1, <2>3, <2>4, <3>1, <3>2 DEF CacheEvidence
  <2>6. CASE ~a
    <3>1. e.allowed = FALSE /\ e.expires = now + DenyTTL
      BY <2>6 DEF TTL
    <3>2. e.expires - lastFalse[p] <= DenyTTL + SarTimeout
      BY <2>1, <2>2, <2>6, <3>1
    <3> HIDE DEF e
    <3> QED BY <1>1, <2>3, <2>4, <3>1, <3>2 DEF CacheEvidence
  <2> QED BY <2>5, <2>6
<1>3. ASSUME NEW r \in Requests, CacheMiss(r) PROVE CacheEvidence'
  <2>1. \A q \in Questions: cache'[q] = NoEntry \/ cache'[q] = cache[q]
    BY <1>3 DEF CacheMiss
  <2> QED BY <1>1, <2>1 DEF CacheEvidence
<1>4. ASSUME UNCHANGED cache PROVE CacheEvidence'
  BY <1>1, <1>4 DEF CacheEvidence
<1>5. \/ \E r \in Requests: CacheMiss(r)
      \/ \E q \in Questions: FlightStore(q)
      \/ UNCHANGED cache
  BY DEF Next, RequestStep, AtRest, vars, Arrive, NextHeaderValue, EndWalk, UseVerdict, Bypass,
     CacheHit, DoChan, OwnContextDone, FlightResult, DirectResult, FlightDeliver, Evaluate,
     Answered, ApiError, ContextEndsCall, ClientGone, Grant, Revoke, Tick
<1> QED BY <1>2, <1>3, <1>4, <1>5

\* Every step keeps the staleness bounds of the verdicts.
LEMMA BoundsStep == IInv /\ [Next]_vars => Bounds'
<1> SUFFICES ASSUME IInv, [Next]_vars PROVE Bounds'
  OBVIOUS
<1>0. /\ now \in Nat /\ SarTimeout \in Nat /\ AllowTTL \in Nat /\ DenyTTL \in Nat
      /\ lastTrue \in [Questions -> Int] /\ lastFalse \in [Questions -> Int]
      /\ lastTrue' \in [Questions -> Int] /\ lastFalse' \in [Questions -> Int]
      /\ question \in [Requests -> Questions]
      /\ verdict \in [Requests -> Answers \cup {NoAnswer}]
      /\ \A q \in Questions: lastTrue'[q] >= lastTrue[q] /\ lastFalse'[q] >= lastFalse[q]
  BY HistoryStep, TypeStep, ConstantsAssumption DEF IInv, TypeInv, TypeOK
<1> USE <1>0
<1>1. ASSUME \A r \in Requests:
               \/ verdict'[r] \notin {"allow", "deny"}
               \/ UNCHANGED <<now, verdict[r], question[r]>>
      PROVE  Bounds'
  <2> SUFFICES ASSUME NEW r \in Requests, verdict'[r] \in {"allow", "deny"}
               PROVE  /\ verdict'[r] = "allow" =>
                           now' - lastTrue'[question'[r]] <= AllowTTL + SarTimeout
                      /\ verdict'[r] = "deny" =>
                           now' - lastFalse'[question'[r]] <= DenyTTL + SarTimeout
    BY DEF Bounds, RevocationBound, GrantBound
  <2>1. now' = now /\ verdict'[r] = verdict[r] /\ question'[r] = question[r]
    BY <1>1
  <2> QED BY <2>1 DEF IInv, Bounds, RevocationBound, GrantBound
<1>2. ASSUME NEW r \in Requests, NEW a, Return(r, a), UNCHANGED <<now, question, lastTrue, lastFalse>>,
             a = "allow" => now - lastTrue[question[r]] <= AllowTTL + SarTimeout,
             a = "deny" => now - lastFalse[question[r]] <= DenyTTL + SarTimeout
      PROVE  Bounds'
  BY <1>2 DEF Return, IInv, Bounds, RevocationBound, GrantBound
<1>3. ASSUME NEW r \in Requests, CacheHit(r) PROVE Bounds'
  <2> DEFINE q == question[r]
  <2>1. cache[q] # NoEntry /\ now <= cache[q].expires /\ q \in Questions /\ cache[q].expires \in Int
    BY <1>3 DEF CacheHit, Hit, IInv, TypeInv, TypeOK, Entries
  <2>2. IF cache[q].allowed THEN now - lastTrue[q] <= AllowTTL + SarTimeout
                            ELSE now - lastFalse[q] <= DenyTTL + SarTimeout
    BY <2>1 DEF IInv, CacheEvidence
  <2>3. /\ UNCHANGED <<now, question, lastTrue, lastFalse>>
        /\ Return(r, IF cache[q].allowed THEN "allow" ELSE "deny")
    BY <1>3 DEF CacheHit, envVars, walkVars
  <2> QED BY <1>2, <2>2, <2>3
<1>4. ASSUME NEW r \in Requests, OwnContextDone(r) PROVE Bounds'
  <2>1. ctx[r] \notin {"allow", "deny"}
    BY DEF IInv, TypeInv, TypeOK, CtxErrors
  <2>2. UNCHANGED <<now, question, lastTrue, lastFalse>> /\ Return(r, ctx[r])
    BY <1>4 DEF OwnContextDone, envVars, walkVars
  <2> QED BY <1>2, <2>1, <2>2
<1>5. ASSUME NEW r \in Requests, FlightResult(r) PROVE Bounds'
  <2>1. UNCHANGED <<now, question, lastTrue, lastFalse>>
    BY <1>5 DEF FlightResult, envVars, walkVars
  <2>2. CASE MustRetry(r)
    BY <1>1, <1>5, <2>1, <2>2 DEF FlightResult
  <2>3. CASE ~MustRetry(r)
    <3>1. Return(r, inbox[r].answer)
      BY <1>5, <2>3 DEF FlightResult
    <3>2. /\ inbox[r].answer = "allow" => now - lastTrue[question[r]] <= AllowTTL + SarTimeout
          /\ inbox[r].answer = "deny" => now - lastFalse[question[r]] <= DenyTTL + SarTimeout
      BY DEF IInv, ResultEvidence
    <3> QED BY <1>2, <2>1, <3>1, <3>2
  <2> QED BY <2>2, <2>3
<1>6. ASSUME NEW r \in Requests, DirectResult(r) PROVE Bounds'
  <2>1. UNCHANGED <<now, question, lastTrue, lastFalse>> /\ Return(r, call[r].answer)
    BY <1>6 DEF DirectResult, envVars, walkVars
  <2>2. call[r].stage # "idle"
    BY <1>6 DEF DirectResult
  <2>3. /\ call[r].answer = "allow" => now - lastTrue[question[r]] <= SarTimeout
        /\ call[r].answer = "deny" => now - lastFalse[question[r]] <= SarTimeout
    BY <2>2, FreshCall DEF IInv
  <2> QED BY <1>2, <2>1, <2>3
<1>7. ASSUME NEW r \in Requests, NextHeaderValue(r) PROVE Bounds'
  <2>1. pc[r] = "walk" /\ UNCHANGED <<now, verdict>>
    BY <1>7 DEF NextHeaderValue, envVars
  <2>2. verdict'[r] = NoAnswer
    BY <2>1 DEF IInv, Sharing, CallsOwned
  <2>3. \A s \in Requests: s # r => question'[s] = question[s]
    BY <1>7 DEF NextHeaderValue
  <2> QED BY <1>1, <2>1, <2>2, <2>3 DEF NoAnswer
<1>8. ASSUME NEW r \in Requests, UseVerdict(r) PROVE Bounds'
  <2>1. verdict' = [verdict EXCEPT ![r] = NoAnswer] /\ UNCHANGED <<now, question>>
    BY <1>8 DEF UseVerdict, envVars
  <2> QED BY <1>1, <2>1 DEF NoAnswer
<1>9. ASSUME Tick PROVE Bounds'
  <2>1. ASSUME NEW r \in Requests PROVE verdict'[r] = NoAnswer
    BY <1>9 DEF Tick, Quiet, Blocked, Active, IInv, Sharing, CallsOwned
  <2> QED BY <1>1, <2>1 DEF NoAnswer
<1>10. ASSUME UNCHANGED <<now, verdict, question>> PROVE Bounds'
  BY <1>1, <1>10
<1>11. \/ \E r \in Requests: \/ CacheHit(r) \/ OwnContextDone(r) \/ FlightResult(r)
                             \/ DirectResult(r) \/ NextHeaderValue(r) \/ UseVerdict(r)
       \/ Tick
       \/ UNCHANGED <<now, verdict, question>>
  <2>1. CASE UNCHANGED vars
    BY <2>1 DEF vars
  <2>2. CASE Next
    BY <2>2 DEF Next, RequestStep, AtRest, vars, envVars, walkVars, Arrive, EndWalk, Bypass,
       CacheMiss, DoChan, FlightStore, FlightDeliver, Evaluate, Answered, ApiError,
       ContextEndsCall, ClientGone, Grant, Revoke
  <2> QED BY <2>1, <2>2
<1> QED BY <1>3, <1>4, <1>5, <1>6, <1>7, <1>8, <1>9, <1>10, <1>11

\* The inductive invariant holds initially.
LEMMA InvInit == Init => IInv
<1> SUFFICES ASSUME Init PROVE IInv
  OBVIOUS
<1>1. TypeInv
  BY TypeInit
<1>2. ErrorsWhenDone
  BY DEF Init, ErrorsWhenDone, Idle, NoResult, NoAnswer, CtxErrors
<1>3. Sharing
  BY DEF Init, Sharing, FlightsMatch, CallsOwned, NoFlight, Idle
<1>4. Timing
  BY ConstantsAssumption DEF Init, Timing, Active, Idle
<1>5. History
  <2>1. Never \in Int /\ Never <= 0
    BY ConstantsAssumption DEF Never
  <2> QED BY <2>1 DEF Init, History
<1>6. CallEvidence /\ ResultEvidence /\ CacheEvidence
  BY DEF Init, CallEvidence, ResultEvidence, CacheEvidence, Idle, NoResult, NoAnswer
<1>7. Bounds
  BY DEF Init, Bounds, RevocationBound, GrantBound, NoAnswer
<1> QED BY <1>1, <1>2, <1>3, <1>4, <1>5, <1>6, <1>7 DEF IInv

\* Every step keeps it.
LEMMA InvStep == IInv /\ [Next]_vars => IInv'
BY TypeStep, ErrorsStep, SharingStep, TimingStep, HistoryStep, CallEvidenceStep,
   ResultEvidenceStep, CacheEvidenceStep, BoundsStep DEF IInv

\* IInv is an invariant.
THEOREM Invariance == Spec => []IInv
BY InvInit, InvStep, PTL DEF Spec

\* The decision cache: for all TTLs, budgets and cache sizes and any number of
\* concurrent requests, an allow is used at most AllowTTL + SarTimeout after
\* the RBAC rules last allowed it.
THEOREM RevocationBoundHolds == Spec => []RevocationBound
<1>1. IInv => RevocationBound
  BY DEF IInv, Bounds
<1> QED BY <1>1, Invariance, PTL

\* The decision cache: a deny is used at most DenyTTL + SarTimeout after the
\* RBAC rules last denied it.
THEOREM GrantBoundHolds == Spec => []GrantBound
<1>1. IInv => GrantBound
  BY DEF IInv, Bounds
<1> QED BY <1>1, Invariance, PTL

\* CheckAuthorizedForImpersonation: whatever the number of header values, the
\* whole check takes no more than one budget.
THEOREM BudgetSharedHolds == Spec => []BudgetShared
<1>1. IInv => BudgetShared
  <2> SUFFICES ASSUME IInv, NEW r \in Requests, Active(r)
               PROVE  now - arrived[r] <= SarTimeout
    BY DEF BudgetShared
  <2>1. now \in Nat /\ arrived[r] \in Nat /\ SarTimeout \in Nat
    BY ConstantsAssumption DEF IInv, TypeInv, TypeOK
  <2>2. now <= arrived[r] + SarTimeout
    BY DEF IInv, Timing
  <2> QED BY <2>1, <2>2
<1> QED BY <1>1, Invariance, PTL

-----------------------------------------------------------------------------
(* What was asked for, and what of it is still to be checked.              *)

InCheck == {"lookup", "miss", "waiting", "direct", "verdict"}

\* The questions that the values of headers h ask.
ValuesOf(u, h) == UNION {{ReviewSpec(u, k, h[k][i]): i \in DOMAIN h[k]}: k \in HeaderKeys}

\* The question a request is busy with.
InHand(r) == IF pc[r] \in InCheck THEN {question[r]} ELSE {}

\* Until a request is done, what it has authorized, what it is busy with and
\* what is left of its headers are together what it asked for.
Walked ==
  \A r \in Requests:
    /\ pc[r] = "new" => target[r] = {}
    /\ pc[r] # "done" =>
         /\ outcome[r] = "none"
         /\ target[r] \cup InHand(r) \cup ValuesOf(inbound[r].user, left[r]) = Requested(r)
    /\ outcome[r] \in {"admitted", "no_impersonation"} => target[r] = Requested(r)

\* Every value a request has authorized so far was allowed no longer than a
\* TTL and a budget before the request came in.
TargetEvidence ==
  \A r \in Requests: \A q \in target[r]: arrived[r] <= lastTrue[q] + (AllowTTL + SarTimeout)

\* The values the loop consumes are the ones that are asked for.
LEMMA ConsumedIsRequested ==
  ASSUME TypeOK, NEW r \in Requests
  PROVE  ValuesOf(inbound[r].user, Consumed(inbound[r].headers)) = Requested(r)
<1> DEFINE u == inbound[r].user
           h == inbound[r].headers
           Taken(k) == {j \in DOMAIN h[k]: k \in {"users", "uids"} => j = 1}
<1>1. h \in [HeaderKeys -> Seq(Names)]
  BY ConstantsAssumption DEF TypeOK
<1>2. ASSUME NEW k \in HeaderKeys
      PROVE  {ReviewSpec(u, k, Consumed(h)[k][i]): i \in DOMAIN Consumed(h)[k]}
               = {ReviewSpec(u, k, h[k][i]): i \in Taken(k)}
  <2>0. h[k] \in Seq(Names)
    BY <1>1
  <2>1. CASE k \in {"users", "uids"} /\ h[k] # <<>>
    <3>1. Consumed(h)[k] = <<Head(h[k])>> /\ Head(h[k]) = h[k][1] /\ 1 \in DOMAIN h[k]
      BY <2>0, <2>1 DEF Consumed
    <3>2. DOMAIN Consumed(h)[k] = {1} /\ Taken(k) = {1} /\ Consumed(h)[k][1] = h[k][1]
      BY <2>0, <2>1, <3>1
    <3> QED BY <3>2
  <2>2. CASE k \in {"users", "uids"} /\ h[k] = <<>>
    <3>1. Consumed(h)[k] = <<>> /\ DOMAIN h[k] = {}
      BY <2>2 DEF Consumed
    <3> QED BY <2>2, <3>1
  <2>3. CASE k \notin {"users", "uids"}
    <3>1. Consumed(h)[k] = h[k] /\ Taken(k) = DOMAIN h[k]
      BY <2>3 DEF Consumed
    <3> QED BY <3>1
  <2> QED BY <2>1, <2>2, <2>3
<1> QED BY <1>2 DEF ValuesOf, Requested

\* Taking the head of one header moves its question out of the rest.
LEMMA TakeHead ==
  ASSUME NEW u \in Users, NEW k \in HeaderKeys,
         NEW h \in [HeaderKeys -> Seq(Names)], NEW g \in [HeaderKeys -> Seq(Names)],
         h[k] # <<>>, g[k] = Tail(h[k]), \A j \in HeaderKeys: j # k => g[j] = h[j]
  PROVE  \A x: x \in ValuesOf(u, h) <=> x = ReviewSpec(u, k, Head(h[k])) \/ x \in ValuesOf(u, g)
<1>1. h[k] \in Seq(Names)
  OBVIOUS
<1>2. /\ 1 \in DOMAIN h[k] /\ Head(h[k]) = h[k][1]
      /\ \A i \in DOMAIN g[k]: i + 1 \in DOMAIN h[k] /\ g[k][i] = h[k][i + 1]
      /\ \A i \in DOMAIN h[k]: i # 1 => i - 1 \in DOMAIN g[k] /\ h[k][i] = g[k][i - 1]
  BY <1>1
<1>3. ASSUME NEW x \in ValuesOf(u, h)
      PROVE  x \in {ReviewSpec(u, k, Head(h[k]))} \cup ValuesOf(u, g)
  <2>0. PICK j \in HeaderKeys: \E i \in DOMAIN h[j]: x = ReviewSpec(u, j, h[j][i])
    BY <1>3 DEF ValuesOf
  <2>1. PICK i \in DOMAIN h[j]: x = ReviewSpec(u, j, h[j][i])
    BY <2>0
  <2>2. CASE j = k /\ i = 1
    BY <1>2, <2>1, <2>2
  <2>3. CASE ~(j = k /\ i = 1)
    <3>1. PICK m \in DOMAIN g[j]: g[j][m] = h[j][i]
      <4>1. CASE j = k
        BY <1>2, <2>3, <4>1
      <4>2. CASE j # k
        BY <1>1, <4>2
      <4> QED BY <4>1, <4>2
    <3> QED BY <2>1, <3>1 DEF ValuesOf
  <2> QED BY <2>2, <2>3
<1>4. ASSUME NEW x \in ValuesOf(u, g) PROVE x \in ValuesOf(u, h)
  <2>0. PICK j \in HeaderKeys: \E i \in DOMAIN g[j]: x = ReviewSpec(u, j, g[j][i])
    BY <1>4 DEF ValuesOf
  <2>1. PICK i \in DOMAIN g[j]: x = ReviewSpec(u, j, g[j][i])
    BY <2>0
  <2>2. PICK m \in DOMAIN h[j]: h[j][m] = g[j][i]
    <3>1. CASE j = k
      BY <1>2, <3>1
    <3>2. CASE j # k
      BY <1>1, <3>2
    <3> QED BY <3>1, <3>2
  <2> QED BY <2>1, <2>2 DEF ValuesOf
<1>5. ReviewSpec(u, k, Head(h[k])) \in ValuesOf(u, h)
  BY <1>2 DEF ValuesOf
<1> QED BY <1>3, <1>4, <1>5

\* A step in the course of one question, or of no request at all.
WalkFrame ==
  /\ UNCHANGED <<inbound, left, question, target, outcome>>
  /\ \A s \in Requests: pc'[s] = pc[s] \/ (pc[s] \in InCheck /\ pc'[s] \in InCheck)

\* All steps but those of the loop over the headers are of that kind.
LEMMA WalkFrames ==
  ASSUME TypeInv, [Next]_vars
  PROVE  \/ WalkFrame
         \/ \E r \in Requests: Arrive(r) \/ NextHeaderValue(r) \/ EndWalk(r) \/ UseVerdict(r)
<1>0. pc \in [Requests -> PCs]
  BY DEF TypeInv, TypeOK
<1>1. ASSUME NEW r \in Requests, NEW p \in InCheck, pc[r] \in InCheck, pc' = [pc EXCEPT ![r] = p],
             UNCHANGED walkVars
      PROVE  WalkFrame
  BY <1>0, <1>1 DEF WalkFrame, walkVars
<1>2. ASSUME NEW r \in Requests, \/ Bypass(r) \/ CacheHit(r) \/ CacheMiss(r) \/ DoChan(r)
                                 \/ OwnContextDone(r) \/ FlightResult(r) \/ DirectResult(r)
      PROVE  WalkFrame
  <2>1. UNCHANGED walkVars /\ pc[r] \in InCheck
    BY <1>2 DEF Bypass, CacheHit, CacheMiss, DoChan, OwnContextDone, FlightResult, DirectResult, InCheck
  <2>2. \E p \in InCheck: pc' = [pc EXCEPT ![r] = p]
    BY <1>2 DEF Bypass, CacheHit, CacheMiss, DoChan, OwnContextDone, FlightResult, DirectResult,
       Return, InCheck
  <2> QED BY <1>1, <2>1, <2>2
<1>3. ASSUME UNCHANGED <<pc, walkVars>> PROVE WalkFrame
  BY <1>3 DEF WalkFrame, walkVars
<1>4. CASE UNCHANGED vars
  BY <1>3, <1>4 DEF vars, walkVars
<1>5. CASE Next
  BY <1>2, <1>3, <1>4, <1>5 DEF Next, RequestStep, AtRest, FlightStore, FlightDeliver, Evaluate, Answered, ApiError,
     ContextEndsCall, ClientGone, Grant, Revoke, Tick
<1> QED BY <1>4, <1>5

\* Every step keeps Walked.
LEMMA WalkedStep == TypeInv /\ Walked /\ [Next]_vars => Walked'
<1> SUFFICES ASSUME TypeInv, Walked, [Next]_vars PROVE Walked'
  OBVIOUS
<1>0. /\ TypeOK /\ pc \in [Requests -> PCs] /\ left \in [Requests -> [HeaderKeys -> Seq(Names)]]
      /\ target \in [Requests -> SUBSET Questions] /\ outcome \in [Requests -> Outcomes]
      /\ question \in [Requests -> Questions]
  BY DEF TypeInv, TypeOK
<1>1. inbound' = inbound /\ \A r \in Requests: Requested(r)' = Requested(r)
  <2>1. inbound' = inbound
    BY WalkFrames DEF WalkFrame, Arrive, NextHeaderValue, EndWalk, UseVerdict
  <2> QED BY <2>1 DEF Requested
<1> DEFINE Of(s) == /\ pc[s] = "new" => target[s] = {}
                    /\ pc[s] # "done" =>
                         /\ outcome[s] = "none"
                         /\ target[s] \cup InHand(s) \cup ValuesOf(inbound[s].user, left[s]) = Requested(s)
                    /\ outcome[s] \in {"admitted", "no_impersonation"} => target[s] = Requested(s)
<1>2. ASSUME NEW r \in Requests, NEW s \in Requests, s # r,
             \/ Arrive(r) \/ NextHeaderValue(r) \/ EndWalk(r) \/ UseVerdict(r)
      PROVE  Of(s)'
  <2>1. /\ pc'[s] = pc[s] /\ target'[s] = target[s] /\ outcome'[s] = outcome[s]
        /\ left'[s] = left[s] /\ question'[s] = question[s]
    BY <1>0, <1>2 DEF Arrive, NextHeaderValue, EndWalk, UseVerdict, Finish
  <2> QED BY <1>1, <2>1 DEF Walked, InHand
<1>3. ASSUME NEW r \in Requests, Arrive(r) PROVE Of(r)'
  <2>1. /\ pc[r] = "new" /\ outcome[r] = "none" /\ target[r] = {}
        /\ target[r] \cup InHand(r) \cup ValuesOf(inbound[r].user, left[r]) = Requested(r)
    BY <1>3 DEF Arrive, Walked
  <2>2. UNCHANGED <<target, left, question>>
    BY <1>3 DEF Arrive
  <2>3. CASE pc' = [pc EXCEPT ![r] = "walk"] /\ UNCHANGED outcome
    BY <1>0, <1>1, <2>1, <2>2, <2>3 DEF InHand, InCheck
  <2>4. CASE Finish(r, "too_many_values") \/ Finish(r, "no_impersonation_user")
    BY <1>0, <2>4 DEF Finish
  <2> QED BY <1>3, <2>3, <2>4 DEF Arrive
<1>4. ASSUME NEW r \in Requests, NextHeaderValue(r) PROVE Of(r)'
  <2>1. PICK k \in NextKeys(r) \ {"unknown"}:
          /\ question' = [question EXCEPT ![r] = ReviewSpec(inbound[r].user, k, Head(left[r][k]))]
          /\ left' = [left EXCEPT ![r][k] = Tail(@)]
    BY <1>4 DEF NextHeaderValue
  <2>2. k \in HeaderKeys /\ left[r][k] # <<>>
    BY <2>1 DEF NextKeys, PartlyWalked
  <2>3. left'[r] = [left[r] EXCEPT ![k] = Tail(@)] /\ left[r] \in [HeaderKeys -> Seq(Names)]
    BY <1>0, <2>1, <2>2
  <2>4. /\ pc[r] = "walk" /\ pc'[r] = "lookup" /\ UNCHANGED <<target, outcome>>
        /\ question'[r] = ReviewSpec(inbound[r].user, k, Head(left[r][k]))
    BY <1>0, <1>4, <2>1 DEF NextHeaderValue
  <2>5. ValuesOf(inbound[r].user, left[r]) = {question'[r]} \cup ValuesOf(inbound[r].user, left'[r])
    <3>1. inbound[r].user \in Users /\ left'[r] \in [HeaderKeys -> Seq(Names)]
      BY <1>0, <2>2, <2>3 DEF TypeOK
    <3>2. /\ left'[r][k] = Tail(left[r][k])
          /\ \A j \in HeaderKeys: j # k => left'[r][j] = left[r][j]
      BY <2>2, <2>3
    <3>3. \A x: x \in ValuesOf(inbound[r].user, left[r])
                   <=> \/ x = ReviewSpec(inbound[r].user, k, Head(left[r][k]))
                       \/ x \in ValuesOf(inbound[r].user, left'[r])
      BY <2>2, <2>3, <3>1, <3>2, TakeHead
    <3> QED BY <2>4, <3>3
  <2>6. InHand(r) = {} /\ InHand(r)' = {question'[r]}
    BY <2>4 DEF InHand, InCheck
  <2> QED BY <1>1, <2>4, <2>5, <2>6 DEF Walked, ValuesOf
<1>5. ASSUME NEW r \in Requests, EndWalk(r) PROVE Of(r)'
  <2>1. pc[r] = "walk" /\ pc'[r] = "done" /\ UNCHANGED target
    BY <1>0, <1>5 DEF EndWalk, Finish
  <2>2. CASE outcome'[r] = "unknown_header"
    BY <2>1, <2>2
  <2>3. CASE NextKeys(r) = {}
    <3>1. \A k \in HeaderKeys: left[r][k] = <<>>
      BY <2>3 DEF NextKeys, PartlyWalked
    <3>2. ValuesOf(inbound[r].user, left[r]) = {}
      BY <3>1 DEF ValuesOf
    <3>3. InHand(r) = {}
      BY <2>1 DEF InHand, InCheck
    <3> QED BY <1>1, <2>1, <3>2, <3>3 DEF Walked
  <2> QED BY <1>0, <1>5, <2>2, <2>3 DEF EndWalk, Finish
<1>6. ASSUME NEW r \in Requests, UseVerdict(r) PROVE Of(r)'
  <2>1. /\ pc[r] = "verdict" /\ InHand(r) = {question[r]} /\ outcome[r] = "none"
        /\ target[r] \cup InHand(r) \cup ValuesOf(inbound[r].user, left[r]) = Requested(r)
    BY <1>6 DEF UseVerdict, Walked, InHand, InCheck
  <2>2. CASE verdict[r] = "allow"
    <3>1. /\ target'[r] = target[r] \cup {question[r]} /\ pc'[r] = "walk"
          /\ UNCHANGED <<outcome, left, question>>
      BY <1>0, <1>6, <2>2 DEF UseVerdict, CtxErrors
    <3>2. InHand(r)' = {}
      BY <3>1 DEF InHand, InCheck
    <3> QED BY <1>1, <2>1, <3>1, <3>2
  <2>3. CASE verdict[r] # "allow"
    <3>1. pc'[r] = "done" /\ outcome'[r] \notin {"admitted", "no_impersonation"}
      BY <1>0, <1>6, <2>3 DEF UseVerdict, Finish, CtxErrors
    <3> QED BY <3>1
  <2> QED BY <2>2, <2>3
<1>7. ASSUME WalkFrame, NEW s \in Requests PROVE Of(s)'
  <2>1. InHand(s)' = InHand(s) /\ (pc'[s] = pc[s] \/ {pc[s], pc'[s]} \cap {"new", "done"} = {})
    BY <1>7 DEF WalkFrame, InHand, InCheck
  <2> QED BY <1>1, <1>7, <2>1 DEF WalkFrame, Walked
<1>8. \A s \in Requests: Of(s)'
  BY <1>2, <1>3, <1>4, <1>5, <1>6, <1>7, WalkFrames
<1> QED BY <1>8 DEF Walked

\* Every step keeps TargetEvidence: a value is authorized by an allow that is
\* in use, and the evidence only becomes younger.
LEMMA TargetStep == IInv /\ Walked /\ TargetEvidence /\ [Next]_vars => TargetEvidence'
<1> SUFFICES ASSUME IInv, Walked, TargetEvidence, [Next]_vars, NEW r \in Requests, NEW q \in target'[r]
             PROVE  arrived'[r] <= lastTrue'[q] + (AllowTTL + SarTimeout)
  BY DEF TargetEvidence
<1>0. /\ TypeInv /\ History /\ TypeInv'
  BY TypeStep DEF IInv
<1>1. /\ now \in Nat /\ arrived \in [Requests -> Nat] /\ AllowTTL \in Nat /\ SarTimeout \in Nat
      /\ q \in Questions /\ lastTrue[q] \in Int /\ lastTrue'[q] \in Int
      /\ target \in [Requests -> SUBSET Questions] /\ question[r] \in Questions
  BY <1>0, ConstantsAssumption DEF TypeInv, TypeOK
<1>2. lastTrue'[q] >= lastTrue[q]
  BY <1>0, <1>1, HistoryStep
<1>3. ASSUME UseVerdict(r), q \notin target[r]
      PROVE  arrived'[r] <= lastTrue'[q] + (AllowTTL + SarTimeout)
  <2>1. verdict[r] = "allow" /\ q = question[r] /\ arrived' = arrived
    BY <1>1, <1>3 DEF UseVerdict
  <2>2. now - lastTrue[q] <= AllowTTL + SarTimeout /\ arrived[r] <= now
    BY <2>1 DEF IInv, Bounds, RevocationBound, Timing
  <2>3. arrived[r] \in Nat
    BY <1>1
  <2> QED BY <1>1, <1>2, <2>1, <2>2, <2>3
<1>4. CASE q \in target[r] /\ arrived'[r] = arrived[r]
  <2>1. arrived[r] <= lastTrue[q] + (AllowTTL + SarTimeout) /\ arrived[r] \in Nat
    BY <1>1, <1>4 DEF TargetEvidence
  <2> QED BY <1>1, <1>2, <1>4, <2>1
<1>5. ASSUME UNCHANGED <<target, arrived>> PROVE q \in target[r] /\ arrived'[r] = arrived[r]
  BY <1>5
<1>6. ASSUME NEW s \in Requests, Arrive(s) PROVE q \in target[r] /\ arrived'[r] = arrived[r]
  BY <1>1, <1>6 DEF Arrive, Walked
<1>7. ASSUME NEW s \in Requests, UseVerdict(s), ~(s = r /\ q \notin target[r])
      PROVE  q \in target[r] /\ arrived'[r] = arrived[r]
  BY <1>1, <1>7 DEF UseVerdict
<1>8. \/ \E s \in Requests: Arrive(s) \/ UseVerdict(s)
      \/ UNCHANGED <<target, arrived>>
  BY DEF Next, RequestStep, AtRest, vars, walkVars, NextHeaderValue, EndWalk, Bypass, CacheHit,
     CacheMiss, DoChan, OwnContextDone, FlightResult, DirectResult, FlightStore, FlightDeliver,
     Evaluate, Answered, ApiError, ContextEndsCall, ClientGone, Grant, Revoke, Tick
<1> QED BY <1>3, <1>4, <1>5, <1>6, <1>7, <1>8

\* At first nothing is authorized, and everything is left.
LEMMA WalkedInit == Init => Walked /\ TargetEvidence
<1> SUFFICES ASSUME Init PROVE Walked /\ TargetEvidence
  OBVIOUS
<1>1. TypeOK
  BY TypeInit DEF TypeInv
<1>2. \A r \in Requests: /\ pc[r] = "new" /\ outcome[r] = "none" /\ target[r] = {}
                         /\ left[r] = Consumed(inbound[r].headers)
  BY DEF Init
<1>3. \A r \in Requests: ValuesOf(inbound[r].user, left[r]) = Requested(r)
  BY <1>1, <1>2, ConsumedIsRequested
<1> QED BY <1>2, <1>3 DEF Walked, TargetEvidence, InHand, InCheck

WInv == IInv /\ Walked /\ TargetEvidence

\* The invariants of the walk hold with the others.
LEMMA WalkInvariance == Spec => []WInv
<1>1. Init => WInv
  BY InvInit, WalkedInit DEF WInv
<1>2. WInv /\ [Next]_vars => WInv'
  <2>1. IInv /\ [Next]_vars => IInv'
    BY InvStep
  <2> QED BY <2>1, WalkedStep, TargetStep DEF WInv, IInv
<1> QED BY <1>1, <1>2, PTL DEF Spec

\* CheckAuthorizedForImpersonation: whoever is let through is handed on with
\* exactly the values the client asked for, whatever the headers, their number
\* and the order in which the map of headers is walked.
THEOREM AdmittedInFullHolds == Spec => []AdmittedInFull
<1>1. WInv => AdmittedInFull
  BY DEF WInv, Walked, AdmittedInFull
<1> QED BY <1>1, WalkInvariance, PTL

-----------------------------------------------------------------------------
(* The refinement of DelegatedDecision.                                    *)

\* The variables of DelegatedDecision, as Decision instantiates them.
lagBar == [yes |-> AllowTTL + SarTimeout, no |-> DenyTTL + SarTimeout]
callerBar ==
  [r \in Requests |->
     IF pc[r] = "new" THEN "idle" ELSE IF pc[r] = "done" THEN "told" ELSE "asking"]
askedBar == [r \in Requests |-> IF pc[r] = "new" THEN {} ELSE Requested(r) \cap Questions]
decisionBar == [r \in Requests |-> Decided(outcome[r])]

\* An initial state is one of DelegatedDecision.
LEMMA RefinesInit == Init => Decision!Init
<1> SUFFICES ASSUME Init PROVE Decision!Init
  OBVIOUS
<1>1. /\ AllowTTL + SarTimeout \in Nat /\ DenyTTL + SarTimeout \in Nat
      /\ Never + (AllowTTL + SarTimeout) < 0 /\ Never + (DenyTTL + SarTimeout) < 0
  BY ConstantsAssumption DEF Never
<1>2. Decided("none") = "none"
  BY DEF Decided
<1> QED BY <1>1, <1>2 DEF Init, Decision!Init

\* What a request asks for does not change.
LEMMA RequestedKept ==
  ASSUME TypeInv, [Next]_vars
  PROVE  inbound' = inbound /\ \A r \in Requests: Requested(r)' = Requested(r)
<1>1. inbound' = inbound
  BY WalkFrames DEF WalkFrame, Arrive, NextHeaderValue, EndWalk, UseVerdict
<1> QED BY <1>1 DEF Requested

\* A request that comes in asks, or is told at once that it is malformed.
LEMMA RefinesArrive ==
  ASSUME WInv, [Next]_vars, NEW r \in Requests, Arrive(r)
  PROVE  Decision!Ask(r) \/ Decision!TellAtOnce(r)
<1>0. /\ TypeInv /\ pc \in [Requests -> PCs] /\ outcome \in [Requests -> Outcomes]
  BY DEF WInv, IInv, TypeInv, TypeOK
<1>1. /\ pc[r] = "new" /\ arrived' = [arrived EXCEPT ![r] = now]
      /\ UNCHANGED <<now, grants, lastTrue, lastFalse>>
  BY DEF Arrive, envVars
<1> DEFINE qs == Requested(r) \cap Questions
<1>2. askedBar' = [askedBar EXCEPT ![r] = qs]
  <2>1. \A s \in Requests: Requested(s)' = Requested(s) /\ (s # r => pc'[s] = pc[s])
    BY <1>0, RequestedKept DEF Arrive, Finish
  <2>2. pc'[r] # "new"
    BY <1>0 DEF Arrive, Finish
  <2> QED BY <2>1, <2>2 DEF askedBar
<1>3. callerBar[r] = "idle"
  BY <1>1 DEF callerBar
<1> HIDE DEF qs
<1>4. qs \in SUBSET Questions
  BY DEF qs
<1>5. CASE pc' = [pc EXCEPT ![r] = "walk"] /\ UNCHANGED outcome
  <2>1. callerBar' = [callerBar EXCEPT ![r] = "asking"]
    BY <1>0, <1>5 DEF callerBar
  <2>2. UNCHANGED decisionBar
    BY <1>5 DEF decisionBar
  <2> QED BY <1>1, <1>2, <1>3, <1>4, <2>1, <2>2
         DEF Decision!Ask, Decision!authVars, callerBar, askedBar, decisionBar, lagBar
<1>6. ASSUME NEW o \in {"too_many_values", "no_impersonation_user"}, Finish(r, o)
      PROVE  Decision!TellAtOnce(r)
  <2>1. callerBar' = [callerBar EXCEPT ![r] = "told"]
    BY <1>0, <1>6 DEF callerBar, Finish
  <2>2. decisionBar' = [decisionBar EXCEPT ![r] = "error"]
    BY <1>0, <1>6 DEF decisionBar, Finish, Decided
  <2>3. "error" \in Decision!Justified(qs, now)
    BY DEF Decision!Justified
  <2> QED BY <1>1, <1>2, <1>3, <1>4, <2>1, <2>2, <2>3
         DEF Decision!TellAtOnce, Decision!authVars, callerBar, askedBar, decisionBar, lagBar
<1> QED BY <1>5, <1>6 DEF Arrive

\* A request whose check returns is told, if what it is told is justified.
LEMMA RefinesFinish ==
  ASSUME WInv, [Next]_vars, NEW r \in Requests, NEW o \in Outcomes, Finish(r, o),
         pc[r] \notin {"new", "done"}, UNCHANGED <<now, grants, lastTrue, lastFalse, arrived>>,
         o # "none",
         o \in {"admitted", "no_impersonation"} =>
           \A q \in Requested(r): arrived[r] <= lastTrue[q] + (AllowTTL + SarTimeout),
         o = "denied" => \E q \in Requested(r) \cap Questions:
                           arrived[r] <= lastFalse[q] + (DenyTTL + SarTimeout)
  PROVE  Decision!Tell(r)
<1>0. /\ TypeInv /\ pc \in [Requests -> PCs] /\ outcome \in [Requests -> Outcomes]
  BY DEF WInv, IInv, TypeInv, TypeOK
<1>1. callerBar[r] = "asking" /\ callerBar' = [callerBar EXCEPT ![r] = "told"]
  BY <1>0 DEF callerBar, Finish
<1>2. UNCHANGED askedBar
  <2>1. \A s \in Requests: Requested(s)' = Requested(s) /\ (s # r => pc'[s] = pc[s])
    BY <1>0, RequestedKept DEF Finish
  <2>2. pc'[r] = "done"
    BY <1>0 DEF Finish
  <2> QED BY <2>1, <2>2 DEF askedBar
<1>3. decisionBar' = [decisionBar EXCEPT ![r] = Decided(o)]
  BY <1>0 DEF decisionBar, Finish
<1>4. askedBar[r] = Requested(r) \cap Questions
  BY DEF askedBar
<1>5. Decided(o) \in Decision!Justified(Requested(r) \cap Questions, arrived[r])
  <2>1. CASE o \in {"admitted", "no_impersonation"}
    BY <2>1 DEF Decided, Decision!Justified
  <2>2. CASE o = "denied"
    BY <2>2 DEF Decided, Decision!Justified
  <2>3. CASE o \notin {"admitted", "no_impersonation", "denied"}
    BY <2>3 DEF Decided, Decision!Justified
  <2> QED BY <2>1, <2>2, <2>3
<1>6. UNCHANGED lagBar
  BY DEF lagBar
<1> QED
  BY <1>1, <1>2, <1>3, <1>4, <1>5, <1>6
     DEF Decision!Tell, Decision!authVars, callerBar, askedBar, decisionBar, lagBar

\* A walk that ends has authorized every value, or met an unknown header.
LEMMA RefinesEndWalk ==
  ASSUME WInv, [Next]_vars, NEW r \in Requests, EndWalk(r)
  PROVE  Decision!Tell(r)
<1>1. /\ pc[r] = "walk" /\ UNCHANGED <<now, grants, lastTrue, lastFalse, arrived>>
  BY DEF EndWalk, envVars
<1>2. CASE Finish(r, "unknown_header")
  BY <1>1, <1>2, RefinesFinish DEF Outcomes
<1>3. ASSUME NEW o \in {"admitted", "no_impersonation"}, Finish(r, o)
      PROVE  Decision!Tell(r)
  <2>1. outcome'[r] = o /\ UNCHANGED target
    BY <1>3 DEF Finish, EndWalk, WInv, IInv, TypeInv, TypeOK
  <2>2. target[r] = Requested(r)
    <3>1. Walked' /\ Requested(r)' = Requested(r)
      BY WalkedStep, RequestedKept DEF WInv, IInv
    <3> QED BY <2>1, <3>1 DEF Walked
  <2>3. \A q \in Requested(r): arrived[r] <= lastTrue[q] + (AllowTTL + SarTimeout)
    BY <2>2 DEF WInv, TargetEvidence
  <2> QED BY <1>1, <1>3, <2>3, RefinesFinish DEF Outcomes
<1> QED BY <1>2, <1>3 DEF EndWalk

\* A caller is shown nothing of a step that leaves it where it was.
LEMMA RefinesStutter ==
  ASSUME WInv, [Next]_vars,
         UNCHANGED <<now, grants, lastTrue, lastFalse, outcome, arrived>>,
         \A s \in Requests: \/ pc'[s] = pc[s]
                            \/ {pc[s], pc'[s]} \cap {"new", "done"} = {}
  PROVE  UNCHANGED Decision!dvars
<1>1. UNCHANGED callerBar
  BY DEF callerBar
<1>2. \A s \in Requests: Requested(s)' = Requested(s)
  BY RequestedKept DEF WInv, IInv
<1>3. UNCHANGED <<askedBar, decisionBar, lagBar>>
  BY <1>2 DEF askedBar, decisionBar, lagBar
<1> QED BY <1>1, <1>3 DEF Decision!dvars, callerBar, askedBar, decisionBar, lagBar

\* An allow goes on with the walk; a denial and an error end it.
LEMMA RefinesUse ==
  ASSUME WInv, [Next]_vars, NEW r \in Requests, UseVerdict(r)
  PROVE  Decision!Tell(r) \/ UNCHANGED Decision!dvars
<1>0. /\ pc \in [Requests -> PCs] /\ question[r] \in Questions
      /\ now \in Nat /\ arrived[r] \in Nat /\ DenyTTL \in Nat /\ SarTimeout \in Nat
      /\ lastFalse[question[r]] \in Int
  BY ConstantsAssumption DEF WInv, IInv, TypeInv, TypeOK
<1>1. pc[r] = "verdict" /\ UNCHANGED <<now, grants, lastTrue, lastFalse, arrived>>
  BY DEF UseVerdict, envVars
<1>2. CASE verdict[r] = "allow"
  <2>1. pc' = [pc EXCEPT ![r] = "walk"] /\ UNCHANGED outcome
    BY <1>2 DEF UseVerdict, CtxErrors
  <2>2. \A s \in Requests: pc'[s] = pc[s] \/ {pc[s], pc'[s]} \cap {"new", "done"} = {}
    BY <1>0, <1>1, <2>1
  <2> QED BY <1>1, <2>1, <2>2, RefinesStutter
<1>3. CASE verdict[r] = "deny"
  <2>1. Finish(r, "denied")
    BY <1>3 DEF UseVerdict, CtxErrors
  <2>2. now - lastFalse[question[r]] <= DenyTTL + SarTimeout /\ arrived[r] <= now
    BY <1>3 DEF WInv, IInv, Bounds, GrantBound, Timing
  <2>3. question[r] \in Requested(r)
    BY <1>1 DEF WInv, Walked, InHand, InCheck
  <2>4. arrived[r] <= lastFalse[question[r]] + (DenyTTL + SarTimeout)
    BY <1>0, <2>2
  <2> QED BY <1>0, <1>1, <2>1, <2>3, <2>4, RefinesFinish DEF Outcomes
<1>4. CASE verdict[r] \in {"api"} \cup CtxErrors
  <2>1. Finish(r, verdict[r])
    BY <1>4 DEF UseVerdict, CtxErrors
  <2>2. verdict[r] \in Outcomes \ {"none", "admitted", "no_impersonation", "denied"}
    BY <1>4 DEF Outcomes, CtxErrors
  <2> QED BY <1>1, <2>1, <2>2, RefinesFinish
<1> QED BY <1>2, <1>3, <1>4 DEF UseVerdict

\* Time passes only while those in the check are within their budget.
LEMMA RefinesTick ==
  ASSUME WInv, [Next]_vars, Tick
  PROVE  Decision!Tick
<1>1. UNCHANGED <<grants, pc, inbound, outcome, arrived>>
  BY DEF Tick, walkVars
<1>2. UNCHANGED <<callerBar, askedBar, decisionBar, lagBar>>
  <2>1. \A s \in Requests: Requested(s)' = Requested(s)
    BY RequestedKept DEF WInv, IInv
  <2> QED BY <1>1, <2>1 DEF callerBar, askedBar, decisionBar, lagBar
<1>3. ASSUME NEW r \in Requests, callerBar[r] = "asking" PROVE now < arrived[r] + SarTimeout
  <2>1. Active(r)
    BY <1>3 DEF callerBar, Active
  <2>2. ctx[r] = "live"
    BY <2>1 DEF Tick, Quiet, Blocked
  <2> QED BY <2>1, <2>2 DEF WInv, IInv, Timing, Active
<1>4. /\ now' = now + 1
      /\ lastTrue' = [q \in Questions |-> IF q \in grants THEN now + 1 ELSE lastTrue[q]]
      /\ lastFalse' = [q \in Questions |-> IF q \in grants THEN lastFalse[q] ELSE now + 1]
  BY DEF Tick
<1> QED
  BY <1>1, <1>2, <1>3, <1>4
     DEF Decision!Tick, Decision!callVars, callerBar, askedBar, decisionBar, lagBar

\* A change of the RBAC rules is a change of the authority's mind.
LEMMA RefinesChange ==
  ASSUME WInv, [Next]_vars, NEW q \in Questions, Grant(q) \/ Revoke(q)
  PROVE  Decision!Change(q)
<1>1. UNCHANGED <<now, pc, outcome, arrived>>
  BY DEF Grant, Revoke, walkVars
<1>2. UNCHANGED <<callerBar, askedBar, decisionBar, lagBar>>
  <2>1. \A s \in Requests: Requested(s)' = Requested(s)
    BY RequestedKept DEF WInv, IInv
  <2> QED BY <1>1, <2>1 DEF callerBar, askedBar, decisionBar, lagBar
<1>3. /\ grants' = IF q \in grants THEN grants \ {q} ELSE grants \cup {q}
      /\ lastTrue' = [lastTrue EXCEPT ![q] = now] /\ lastFalse' = [lastFalse EXCEPT ![q] = now]
  BY DEF Grant, Revoke
<1> QED
  BY <1>1, <1>2, <1>3
     DEF Decision!Change, Decision!callVars, callerBar, askedBar, decisionBar, lagBar

\* Every step is a step of DelegatedDecision, or none.
LEMMA RefinesStep == WInv /\ [Next]_vars => [Decision!Next]_(Decision!dvars)
<1> SUFFICES ASSUME WInv, [Next]_vars PROVE Decision!Next \/ UNCHANGED Decision!dvars
  OBVIOUS
<1>1. ASSUME NEW r \in Requests, Arrive(r) \/ EndWalk(r) PROVE Decision!Next
  BY <1>1, RefinesArrive, RefinesEndWalk DEF Decision!Next
<1>2. ASSUME NEW r \in Requests, UseVerdict(r) PROVE Decision!Next \/ UNCHANGED Decision!dvars
  BY <1>2, RefinesUse DEF Decision!Next
<1>3. CASE Tick
  BY <1>3, RefinesTick DEF Decision!Next
<1>4. ASSUME NEW q \in Questions, Grant(q) \/ Revoke(q) PROVE Decision!Next
  BY <1>4, RefinesChange DEF Decision!Next
<1>5. ASSUME UNCHANGED <<now, grants, lastTrue, lastFalse, outcome, arrived>>,
             \A s \in Requests: \/ pc'[s] = pc[s]
                                \/ {pc[s], pc'[s]} \cap {"new", "done"} = {}
      PROVE  UNCHANGED Decision!dvars
  BY <1>5, RefinesStutter
<1>6. ASSUME NEW r \in Requests, NextHeaderValue(r) PROVE UNCHANGED Decision!dvars
  <2>1. /\ UNCHANGED <<now, grants, lastTrue, lastFalse, outcome, arrived>>
        /\ pc[r] = "walk" /\ pc' = [pc EXCEPT ![r] = "lookup"]
    BY <1>6 DEF NextHeaderValue, envVars
  <2>2. \A s \in Requests: pc'[s] = pc[s] \/ {pc[s], pc'[s]} \cap {"new", "done"} = {}
    BY <2>1 DEF WInv, IInv, TypeInv, TypeOK
  <2> QED BY <1>5, <2>1, <2>2
<1>7. ASSUME WalkFrame, UNCHANGED <<now, grants, lastTrue, lastFalse, arrived>>
      PROVE  UNCHANGED Decision!dvars
  BY <1>5, <1>7 DEF WalkFrame, InCheck
<1>8. \/ Tick \/ (\E q \in Questions: Grant(q) \/ Revoke(q))
      \/ (\E r \in Requests: Arrive(r) \/ NextHeaderValue(r) \/ EndWalk(r) \/ UseVerdict(r))
      \/ UNCHANGED <<now, grants, lastTrue, lastFalse, arrived>>
  BY DEF Next, RequestStep, AtRest, vars, envVars, walkVars, Bypass, CacheHit,
     CacheMiss, DoChan, OwnContextDone, FlightResult, DirectResult, FlightStore, FlightDeliver,
     Evaluate, Answered, ApiError, ContextEndsCall, ClientGone
<1>9. \/ WalkFrame
      \/ \E r \in Requests: Arrive(r) \/ NextHeaderValue(r) \/ EndWalk(r) \/ UseVerdict(r)
  BY WalkFrames DEF WInv, IInv
<1> QED BY <1>1, <1>2, <1>3, <1>4, <1>6, <1>7, <1>8, <1>9

\* CheckAuthorizedForImpersonation implements DelegatedDecision, whatever the
\* cache holds, whoever shares a flight, and in whatever order the headers are
\* walked while the rules change: a request is let through only if each of its
\* values was allowed, and denied only if one was not, no longer than a TTL
\* and a budget before it came in; it is told within its budget.
THEOREM Refines == Spec => ImplementsDecision
BY RefinesInit, RefinesStep, WalkInvariance, PTL DEF Spec, ImplementsDecision, Decision!Spec
=============================================================================
