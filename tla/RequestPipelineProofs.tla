------------------------ MODULE RequestPipelineProofs ------------------------
(***************************************************************************)
(* Proofs about RequestPipeline, for any number of requests, inputs,       *)
(* targets and reserved names, and every setting of the two options.       *)
(***************************************************************************)
EXTENDS RequestPipeline, FiniteSetTheorems, TLAPS

-----------------------------------------------------------------------------
(* Type correctness.                                                       *)

Codes == {0, 401, 403, 431, 500}
Methods == {"none", "oidc", "tokenreview"}

\* What the error handler answers: a canceled request nothing, every other
\* refusal an error status, and only a canceled one is recorded as such.
LEMMA AnswerType ==
  ASSUME NEW e
  PROVE  /\ Answer(e).code \in Codes
         /\ Answer(e).why \in Denials
         /\ Answer(e).code # 0 => Answer(e).code >= 400
         /\ Answer(e).code = 0 => Answer(e).why = "client_canceled"
BY DEF Answer, Codes, Denials

\* The initial values have their types.
LEMMA InitialValues == NoUser \in Ids /\ NotSent \in Forwards
BY DEF Ids, NotSent, Forwards

\* A decision that is recorded has its type.
LEMMA RecordType ==
  ASSUME TypeOK, NEW r \in Requests, NEW allowed \in BOOLEAN, NEW why \in Denials \cup {"none"},
         NEW id \in Ids, method'[r] \in Methods, RecordDecision(r, allowed, why, id)
  PROVE  decisions' \in [Requests -> Seq(Decisions)]
<1> DEFINE d == [allowed |-> allowed, reason |-> why, method |-> method'[r], inbound |-> id]
<1>1. d \in Decisions
  BY DEF Decisions, Methods
<1>2. decisions' = [decisions EXCEPT ![r] = Append(decisions[r], d)]
  BY DEF RecordDecision
<1>3. decisions \in [Requests -> Seq(Decisions)]
  BY DEF TypeOK
<1> HIDE DEF d
<1>4. Append(decisions[r], d) \in Seq(Decisions)
  BY <1>1, <1>3
<1> QED BY <1>2, <1>3, <1>4

\* So has a status that is written.
LEMMA WriteType ==
  ASSUME TypeOK, NEW r \in Requests, NEW code \in Statuses, WriteHeader(r, code)
  PROVE  status' \in [Requests -> Statuses] /\ streams' \in Int
<1>1. CASE status[r] # 0
  BY <1>1 DEF TypeOK, WriteHeader
<1>2. CASE status[r] = 0
  <2>1. status' \in [Requests -> Statuses]
    BY <1>2 DEF TypeOK, WriteHeader
  <2>2. PICK n \in {0, 1}: streams' = streams + n
    BY <1>2 DEF WriteHeader
  <2> QED BY <2>1, <2>2 DEF TypeOK
<1> QED BY <1>1, <1>2

\* And everything a refusal changes.
LEMMA RefusalType ==
  ASSUME TypeOK, NEW r \in Requests, NEW e, user'[r] \in Ids, method'[r] \in Methods,
         HandleError(r, e)
  PROVE  /\ pc' \in [Requests -> PCs]
         /\ decisions' \in [Requests -> Seq(Decisions)]
         /\ audited' \in [Requests -> SUBSET Ids]
         /\ status' \in [Requests -> Statuses]
         /\ streams' \in Int
<1>1. pc' \in [Requests -> PCs]
  BY DEF TypeOK, HandleError, Goto, PCs
<1>2. decisions' \in [Requests -> Seq(Decisions)]
  <2>1. CASE decisions' = decisions
    BY <2>1 DEF TypeOK
  <2>2. CASE RecordDecision(r, FALSE, Answer(e).why, user'[r])
    BY <2>2, AnswerType, RecordType
  <2> QED BY <2>1, <2>2 DEF HandleError, LogDenied
<1>3. audited' \in [Requests -> SUBSET Ids]
  <2>1. AuditOf(r, e) \subseteq Ids
    BY InitialValues DEF AuditOf
  <2> QED BY <2>1 DEF TypeOK, HandleError
<1>4. status' \in [Requests -> Statuses] /\ streams' \in Int
  <2>1. CASE UNCHANGED <<status, streams>>
    BY <2>1 DEF TypeOK
  <2>2. CASE WriteHeader(r, Answer(e).code)
    BY <2>2, AnswerType, WriteType DEF Codes, Statuses
  <2> QED BY <2>1, <2>2 DEF HandleError
<1> QED BY <1>1, <1>2, <1>3, <1>4

\* TypeOK holds initially.
LEMMA TypeInit == Init => TypeOK
<1> SUFFICES ASSUME Init PROVE TypeOK
  OBVIOUS
<1>1. impHeaders \in [Requests -> BOOLEAN]
  <2>1. \A i \in Inputs: i.imp \in BOOLEAN
    BY PipelineAssumption DEF InputOK
  <2> QED BY <2>1 DEF Init
<1> QED
  BY <1>1, InitialValues DEF Init, Fresh, TypeOK, PCs, Statuses, Terminations, NotEnded

\* TypeOK is inductive.
LEMMA TypeStep == TypeOK /\ [Next]_vars => TypeOK'
<1> SUFFICES ASSUME TypeOK, [Next]_vars PROVE TypeOK'
  OBVIOUS
<1> USE DEF ctxVars, gauges
<1>1. ASSUME NEW r \in Requests, ServeRequest(r) PROVE TypeOK'
  BY <1>1 DEF ServeRequest, Goto, TypeOK, PCs
<1>2. ASSUME NEW r \in Requests, Authenticate(r) PROVE TypeOK'
  <2>1. /\ auth' \in [Requests -> {"token", "none", "empty"}]
        /\ method' \in [Requests -> Methods] /\ user' \in [Requests -> Ids]
        /\ UNCHANGED <<impHeaders, noImp, target>>
    <3>1. input[r].id \in Ids
      BY DEF TypeOK, Ids
    <3> QED BY <1>2, <3>1 DEF Authenticate, TypeOK, Methods
  <2>2. \/ \E e \in {"unauthorized", "reserved_identity"}: HandleError(r, e)
        \/ /\ Goto(r, "review") \/ Goto(r, "impersonate")
           /\ UNCHANGED <<decisions, audited, status, streams>>
    BY <1>2 DEF Authenticate
  <2>3. /\ pc' \in [Requests -> PCs] /\ decisions' \in [Requests -> Seq(Decisions)]
        /\ audited' \in [Requests -> SUBSET Ids] /\ status' \in [Requests -> Statuses]
        /\ streams' \in Int
    <3>1. CASE \E e \in {"unauthorized", "reserved_identity"}: HandleError(r, e)
      BY <2>1, <3>1, RefusalType
    <3>2. CASE /\ Goto(r, "review") \/ Goto(r, "impersonate")
               /\ UNCHANGED <<decisions, audited, status, streams>>
      BY <3>2 DEF TypeOK, Goto, PCs
    <3> QED BY <2>2, <3>1, <3>2
  <2> QED BY <1>2, <2>1, <2>3 DEF Authenticate, TypeOK, Methods
<1>3. ASSUME NEW r \in Requests, ReviewToken(r) PROVE TypeOK'
  <2>1. /\ method' \in [Requests -> Methods] /\ noImp' \in [Requests -> BOOLEAN]
        /\ UNCHANGED <<auth, impHeaders, user, target>>
    BY <1>3 DEF ReviewToken, TypeOK, Methods
  <2>2. /\ pc' \in [Requests -> PCs] /\ decisions' \in [Requests -> Seq(Decisions)]
        /\ audited' \in [Requests -> SUBSET Ids] /\ status' \in [Requests -> Statuses]
        /\ streams' \in Int
    <3>1. CASE HandleError(r, "unauthorized")
      BY <2>1, <3>1, RefusalType DEF TypeOK
    <3>2. CASE Goto(r, "impersonate") /\ UNCHANGED <<decisions, audited, status, streams>>
      BY <3>2 DEF TypeOK, Goto, PCs
    <3> QED BY <1>3, <3>1, <3>2 DEF ReviewToken
  <2> QED BY <1>3, <2>1, <2>2 DEF ReviewToken, TypeOK, Methods
<1>4. ASSUME NEW r \in Requests, Impersonate(r) PROVE TypeOK'
  <2>1. noImp' \in [Requests -> BOOLEAN] /\ UNCHANGED <<auth, impHeaders, method, user, target>>
    BY <1>4 DEF Impersonate, TypeOK
  <2>2. /\ pc' \in [Requests -> PCs] /\ decisions' \in [Requests -> Seq(Decisions)]
        /\ audited' \in [Requests -> SUBSET Ids] /\ status' \in [Requests -> Statuses]
        /\ streams' \in Int
    <3>1. CASE HandleError(r, "no_name")
      BY <2>1, <3>1, RefusalType DEF TypeOK, Methods
    <3>2. CASE /\ Goto(r, "forward") \/ Goto(r, "sar")
               /\ UNCHANGED <<decisions, audited, status, streams>>
      BY <3>2 DEF TypeOK, Goto, PCs
    <3> QED BY <1>4, <3>1, <3>2 DEF Impersonate
  <2> QED BY <1>4, <2>1, <2>2 DEF Impersonate, TypeOK
<1>5. ASSUME NEW r \in Requests, CheckImpersonation(r) PROVE TypeOK'
  <2>1. /\ user' \in [Requests -> Ids] /\ target' \in [Requests -> Targets \cup {NoUser}]
        /\ impHeaders' \in [Requests -> BOOLEAN]
        /\ UNCHANGED <<auth, method, noImp>>
    <3>1. CASE \E t \in Targets: /\ target' = [target EXCEPT ![r] = t]
                                 /\ user' = [user EXCEPT ![r] = t]
                                 /\ impHeaders' = HeadersRemoved(r)
                                 /\ UNCHANGED <<auth, method, noImp>>
      BY <3>1 DEF TypeOK, Ids, HeadersRemoved
    <3>2. CASE UNCHANGED ctxVars
      BY <3>2 DEF TypeOK
    <3> QED BY <1>5, <3>1, <3>2 DEF CheckImpersonation
  <2>2. /\ pc' \in [Requests -> PCs] /\ decisions' \in [Requests -> Seq(Decisions)]
        /\ audited' \in [Requests -> SUBSET Ids] /\ status' \in [Requests -> Statuses]
        /\ streams' \in Int
    <3>1. CASE \E e \in Refusals: HandleError(r, e)
      BY <2>1, <3>1, RefusalType DEF TypeOK, Methods
    <3>2. CASE Goto(r, "forward") /\ UNCHANGED <<decisions, audited, status, streams>>
      BY <3>2 DEF TypeOK, Goto, PCs
    <3> QED BY <1>5, <3>1, <3>2 DEF CheckImpersonation
  <2> QED BY <1>5, <2>1, <2>2 DEF CheckImpersonation, TypeOK
<1>6. ASSUME NEW r \in Requests, RefuseUpgrade(r) PROVE TypeOK'
  <2>1. decisions' \in [Requests -> Seq(Decisions)]
    <3>1. CASE decisions' = decisions
      BY <3>1 DEF TypeOK
    <3>2. CASE RecordDecision(r, FALSE, Answer("bad_upgrade").why, user'[r])
      <4>1. user'[r] \in Ids /\ method'[r] \in Methods
        BY <1>6 DEF RefuseUpgrade, TypeOK, Methods
      <4> QED BY <3>2, <4>1, AnswerType, RecordType
    <3> QED BY <1>6, <3>1, <3>2 DEF RefuseUpgrade, LogDenied
  <2>2. status' \in [Requests -> Statuses] /\ streams' \in Int
    BY <1>6, AnswerType, WriteType DEF RefuseUpgrade, Codes, Statuses
  <2>3. pc' \in [Requests -> PCs] /\ audited' \in [Requests -> SUBSET Ids]
    BY <1>6 DEF RefuseUpgrade, TypeOK, Goto, PCs
  <2> QED BY <1>6, <2>1, <2>2, <2>3 DEF RefuseUpgrade, TypeOK
<1>7. ASSUME NEW r \in Requests, RoundTrip(r) PROVE TypeOK'
  <2>1. auth' \in [Requests -> {"token", "none", "empty"}]
    BY <1>7 DEF RoundTrip, TypeOK, BearerToken
  <2>2. decisions' \in [Requests -> Seq(Decisions)]
    <3> DEFINE id == IF target[r] = NoUser THEN user[r] ELSE input[r].id
    <3>1. id \in Ids /\ method'[r] \in Methods
      BY <1>7 DEF RoundTrip, TypeOK, Methods, Ids
    <3>2. RecordDecision(r, TRUE, "none", id)
      BY <1>7 DEF RoundTrip
    <3> HIDE DEF id
    <3> QED BY <3>1, <3>2, RecordType
  <2>3. sent' \in [Requests -> Forwards]
    <3>1. PICK f: /\ sent' = [sent EXCEPT ![r] = f]
                  /\ f = [as |-> Transport(r), user |-> Impersonated(r), token |-> auth'[r]]
      BY <1>7 DEF RoundTrip
    <3>2. user[r] \in Ids
      BY DEF TypeOK
    <3>3. f \in Forwards
      BY <2>1, <3>1, <3>2 DEF Forwards, Transport, Impersonated
    <3> QED BY <3>1, <3>3 DEF TypeOK
  <2>4. pc' \in [Requests -> PCs] /\ audited' \in [Requests -> SUBSET Ids]
    BY <1>7 DEF RoundTrip, TypeOK, Goto, PCs
  <2> QED BY <1>7, <2>1, <2>2, <2>3, <2>4 DEF RoundTrip, TypeOK
<1>8. ASSUME NEW r \in Requests, UpstreamFails(r) PROVE TypeOK'
  <2>1. status' \in [Requests -> Statuses] /\ streams' \in Int
    BY <1>8, WriteType DEF UpstreamFails, Statuses
  <2>2. /\ pc' \in [Requests -> PCs] /\ broke' \in [Requests -> BOOLEAN]
        /\ classified' \in [Requests -> Terminations \cup {"none"}]
    BY <1>8 DEF UpstreamFails, TypeOK, Goto, PCs, Terminations
  <2> QED BY <1>8, <2>1, <2>2 DEF UpstreamFails, TypeOK
<1>9. ASSUME NEW r \in Requests, UpstreamCanceled(r) PROVE TypeOK'
  <2>1. user'[r] \in Ids /\ method'[r] \in Methods /\ HandleError(r, "canceled")
    BY <1>9 DEF UpstreamCanceled, TypeOK, Methods
  <2> QED BY <1>9, <2>1, RefusalType DEF UpstreamCanceled, TypeOK
<1>10. ASSUME NEW r \in Requests, UpstreamAnswers(r) PROVE TypeOK'
  <2>1. status' \in [Requests -> Statuses] /\ streams' \in Int
    BY <1>10, WriteType DEF UpstreamAnswers, Statuses
  <2>2. pc' \in [Requests -> PCs]
    BY <1>10 DEF UpstreamAnswers, TypeOK, Goto, PCs
  <2> QED BY <1>10, <2>1, <2>2 DEF UpstreamAnswers, TypeOK
<1>11. ASSUME NEW r \in Requests, Upgrade(r) PROVE TypeOK'
  <2>1. CASE HandleError(r, "hijack_failed") /\ UNCHANGED <<ctxVars, hijacked>>
    <3>1. user'[r] \in Ids /\ method'[r] \in Methods
      BY <2>1 DEF TypeOK, Methods
    <3> QED BY <1>11, <2>1, <3>1, RefusalType DEF Upgrade, TypeOK
  <2>2. CASE /\ hijacked' = [hijacked EXCEPT ![r] = TRUE]
             /\ streams' = streams + (IF input[r].long THEN 1 ELSE 0)
             /\ Goto(r, "hijacked")
             /\ UNCHANGED <<ctxVars, decisions, audited, status>>
    <3>1. PICK n \in {0, 1}: streams' = streams + n
      BY <2>2
    <3>2. streams' \in Int
      BY <3>1 DEF TypeOK
    <3>3. pc' \in [Requests -> PCs] /\ hijacked' \in [Requests -> BOOLEAN]
      BY <2>2 DEF TypeOK, Goto, PCs
    <3> QED BY <1>11, <2>2, <3>2, <3>3 DEF Upgrade, TypeOK
  <2> QED BY <1>11, <2>1, <2>2 DEF Upgrade
<1>12. ASSUME NEW r \in Requests, StreamEnds(r) \/ CopyFails(r) \/ HandlerPanics(r) PROVE TypeOK'
  <2>1. pc' \in [Requests -> PCs] /\ panicked' \in [Requests -> {"no", "abort", "fault"}]
    BY <1>12 DEF StreamEnds, CopyFails, HandlerPanics, Goto, TypeOK, PCs
  <2>2. broke' \in [Requests -> BOOLEAN]
    BY <1>12 DEF StreamEnds, CopyFails, HandlerPanics, TypeOK
  <2> QED BY <1>12, <2>1, <2>2 DEF StreamEnds, CopyFails, HandlerPanics, TypeOK
<1>13. ASSUME NEW r \in Requests, ClientGone(r) PROVE TypeOK'
  BY <1>13 DEF ClientGone, TypeOK
<1>14. ASSUME NEW r \in Requests, Complete(r) PROVE TypeOK'
  <2>1. Termination(r) \in Terminations \cup {"none"} /\ FinalStatus(r) \in Statuses
    BY DEF TypeOK, Termination, FinalStatus, Terminations, Statuses
  <2>2. ended' \in [Requests -> [term: Terminations \cup {"none"}, status: Statuses]]
    BY <1>14, <2>1 DEF Complete, TypeOK
  <2>3. PICK n \in {0, 1}: streams' = streams - n
    BY <1>14 DEF Complete
  <2>4. streams' \in Int /\ inFlight' \in Int /\ pc' \in [Requests -> PCs]
    BY <1>14, <2>3 DEF Complete, TypeOK, Goto, PCs
  <2> QED BY <1>14, <2>2, <2>4 DEF Complete, TypeOK
<1>15. ASSUME UNCHANGED vars PROVE TypeOK'
  BY <1>15 DEF TypeOK, vars
<1> QED
  BY <1>1, <1>2, <1>3, <1>4, <1>5, <1>6, <1>7, <1>8, <1>9, <1>10, <1>11, <1>12, <1>13, <1>14, <1>15
     DEF Next, AtRest

\* The state of every request keeps its type.
THEOREM TypeCorrect == Spec => []TypeOK
BY TypeInit, TypeStep, PTL DEF Spec

-----------------------------------------------------------------------------
(* The invariants, by the handler the request is in.                       *)

Before == {"new", "authn", "review", "impersonate", "sar", "forward"}
Served == {"upstream", "body", "hijacked"}

\* One decision was recorded, and it says whether the API server was asked.
DecidedOnce(r) ==
  \E d \in Decisions: decisions[r] = <<d>> /\ (d.allowed <=> sent[r] # NotSent)

\* Nothing is decided before the round trip, an allow from then on; only a
\* panic leaves the chain without a decision.
DecisionOf(r) ==
  /\ pc[r] \in Before => decisions[r] = <<>> /\ sent[r] = NotSent
  /\ pc[r] \in Served => DecidedOnce(r) /\ sent[r] # NotSent
  /\ pc[r] \in {"defer", "done"} =>
       \/ decisions[r] = <<>> /\ sent[r] = NotSent /\ panicked[r] = "fault"
       \/ DecidedOnce(r)

\* A refusal that was recorded, in a handler that did not panic, was answered
\* with an error.
RefusalAnswered(r, code) ==
  (decisions[r] # <<>> /\ ~decisions[r][1].allowed /\ panicked[r] = "no"
     /\ decisions[r][1].reason # "client_canceled") => code >= 400

UpstreamFaults == {"upstream_timeout", "upstream_reset", "proxy_error"}

\* Nothing is written before the API server answers; what is classified, and
\* what is aborted, has a cause.
ResponseOf(r) ==
  /\ pc[r] \in Before \cup {"upstream"} => status[r] = 0
  /\ pc[r] \in Before \cup {"upstream", "body"} => ~hijacked[r]
  /\ pc[r] \notin {"defer", "done"} => panicked[r] = "no"
  /\ classified[r] # "none" => broke[r] /\ classified[r] \in UpstreamFaults
  /\ panicked[r] = "abort" => broke[r] \/ gone[r]
  /\ pc[r] = "defer" => RefusalAnswered(r, status[r])

\* The caller was authenticated by OIDC and is not reserved ...
ByOIDC(r) == method[r] = "oidc" /\ ~Reserved(input[r].id)

\* ... or its token was accepted by the API server and is still on the request.
ByReview(r) == method[r] = "tokenreview" /\ auth[r] = "token" /\ noImp[r]

\* Whose identity the request carries in each handler.
IdentityOf(r) ==
  /\ pc[r] \in Before \ {"forward"} => target[r] = NoUser
  /\ pc[r] \in {"new", "authn", "review"} => ~noImp[r]
  /\ pc[r] \in {"new", "authn"} => auth[r] = (IF input[r].cred = "absent" THEN "none" ELSE "token")
  /\ pc[r] = "review" => auth[r] = "token"
  /\ pc[r] = "impersonate" =>
       \/ ByReview(r)
       \/ ByOIDC(r) /\ user[r] = input[r].id /\ ~noImp[r]
  /\ pc[r] = "sar" => ByOIDC(r) /\ user[r] = input[r].id /\ ~noImp[r]
  /\ pc[r] = "forward" =>
       \/ ByReview(r)
       \/ method[r] = "oidc" /\ noImp[r]
       \/ ByOIDC(r) /\ ~noImp[r] /\ user[r].name # NoName /\ user[r] = Principal(r)
            /\ ~impHeaders[r]

DecisionInv == \A r \in Requests: DecisionOf(r)
ResponseInv == \A r \in Requests: ResponseOf(r)
IdentityInv == \A r \in Requests: IdentityOf(r)

-----------------------------------------------------------------------------
(* What the steps have in common.                                          *)

StepOf(r) ==
  \/ ServeRequest(r) \/ Authenticate(r) \/ ReviewToken(r) \/ Impersonate(r)
  \/ CheckImpersonation(r) \/ RefuseUpgrade(r) \/ RoundTrip(r)
  \/ UpstreamFails(r) \/ UpstreamCanceled(r) \/ UpstreamAnswers(r) \/ Upgrade(r)
  \/ StreamEnds(r) \/ CopyFails(r) \/ HandlerPanics(r) \/ ClientGone(r) \/ Complete(r)

\* Everything about a request but the gauges.
StateOf(s) ==
  <<pc[s], input[s], auth[s], impHeaders[s], method[s], user[s], noImp[s], target[s], decisions[s],
    audited[s], sent[s], status[s], hijacked[s], panicked[s], classified[s], broke[s], gone[s], ended[s]>>

\* A step is a step of one request.
LEMMA NextIsLocal ==
  ASSUME [Next]_vars
  PROVE  (\E r \in Requests: StepOf(r)) \/ UNCHANGED vars
BY DEF Next, StepOf, AtRest

\* A record of a decision is the request's own ...
LEMMA RecordFrame ==
  ASSUME TypeOK, NEW r \in Requests, NEW s \in Requests \ {r}, NEW a, NEW why, NEW id,
         RecordDecision(r, a, why, id)
  PROVE  decisions'[s] = decisions[s]
BY DEF TypeOK, RecordDecision

\* ... as is a refusal.
LEMMA RefusalFrame ==
  ASSUME TypeOK, NEW r \in Requests, NEW s \in Requests \ {r}, NEW e, HandleError(r, e)
  PROVE  /\ pc'[s] = pc[s] /\ decisions'[s] = decisions[s]
         /\ audited'[s] = audited[s] /\ status'[s] = status[s]
<1>1. decisions'[s] = decisions[s]
  BY RecordFrame DEF HandleError, LogDenied
<1>2. status'[s] = status[s]
  BY DEF TypeOK, HandleError, WriteHeader
<1>3. pc'[s] = pc[s] /\ audited'[s] = audited[s]
  BY DEF TypeOK, HandleError, Goto
<1> QED BY <1>1, <1>2, <1>3

\* A step of one request changes nothing of another.
LEMMA Frame ==
  ASSUME TypeOK, NEW r \in Requests, StepOf(r), NEW s \in Requests \ {r}
  PROVE  UNCHANGED StateOf(s)
<1> USE DEF ctxVars, gauges, StateOf
<1>1. ASSUME ServeRequest(r) PROVE UNCHANGED StateOf(s)
  BY <1>1 DEF ServeRequest, Goto, TypeOK
<1>2. ASSUME Authenticate(r) PROVE UNCHANGED StateOf(s)
  <2>1. UNCHANGED <<auth[s], impHeaders[s], method[s], user[s], noImp[s], target[s]>>
    BY <1>2 DEF Authenticate, TypeOK
  <2>2. \/ HandleError(r, "unauthorized") \/ HandleError(r, "reserved_identity")
        \/ /\ Goto(r, "review") \/ Goto(r, "impersonate")
           /\ UNCHANGED <<decisions, audited, status, streams>>
    BY <1>2 DEF Authenticate
  <2>3. UNCHANGED <<pc[s], decisions[s], audited[s], status[s]>>
    BY <2>2, RefusalFrame DEF TypeOK, Goto
  <2> QED BY <1>2, <2>1, <2>3 DEF Authenticate
<1>3. ASSUME ReviewToken(r) PROVE UNCHANGED StateOf(s)
  <2>1. UNCHANGED <<auth[s], impHeaders[s], method[s], user[s], noImp[s], target[s]>>
    BY <1>3 DEF ReviewToken, TypeOK
  <2>2. UNCHANGED <<pc[s], decisions[s], audited[s], status[s]>>
    BY <1>3, RefusalFrame DEF ReviewToken, TypeOK, Goto
  <2> QED BY <1>3, <2>1, <2>2 DEF ReviewToken
<1>4. ASSUME Impersonate(r) PROVE UNCHANGED StateOf(s)
  <2>1. UNCHANGED <<auth[s], impHeaders[s], method[s], user[s], noImp[s], target[s]>>
    BY <1>4 DEF Impersonate, TypeOK
  <2>2. UNCHANGED <<pc[s], decisions[s], audited[s], status[s]>>
    <3>1. CASE HandleError(r, "no_name")
      BY <3>1, RefusalFrame
    <3>2. CASE /\ Goto(r, "forward") \/ Goto(r, "sar")
               /\ UNCHANGED <<decisions, audited, status, streams>>
      BY <3>2 DEF TypeOK, Goto
    <3> QED BY <1>4, <3>1, <3>2 DEF Impersonate
  <2> QED BY <1>4, <2>1, <2>2 DEF Impersonate
<1>5. ASSUME CheckImpersonation(r) PROVE UNCHANGED StateOf(s)
  <2>1. UNCHANGED <<auth[s], impHeaders[s], method[s], user[s], noImp[s], target[s]>>
    <3>1. CASE \E t \in Targets: /\ target' = [target EXCEPT ![r] = t]
                                 /\ user' = [user EXCEPT ![r] = t]
                                 /\ impHeaders' = HeadersRemoved(r)
                                 /\ UNCHANGED <<auth, method, noImp>>
      BY <3>1 DEF TypeOK, HeadersRemoved
    <3>2. CASE UNCHANGED ctxVars
      BY <3>2
    <3> QED BY <1>5, <3>1, <3>2 DEF CheckImpersonation
  <2>2. UNCHANGED <<pc[s], decisions[s], audited[s], status[s]>>
    <3>1. CASE \E e \in Refusals: HandleError(r, e)
      BY <3>1, RefusalFrame
    <3>2. CASE Goto(r, "forward") /\ UNCHANGED <<decisions, audited, status, streams>>
      BY <3>2 DEF TypeOK, Goto
    <3> QED BY <1>5, <3>1, <3>2 DEF CheckImpersonation
  <2> QED BY <1>5, <2>1, <2>2 DEF CheckImpersonation
<1>6. ASSUME RefuseUpgrade(r) PROVE UNCHANGED StateOf(s)
  <2>1. decisions'[s] = decisions[s]
    BY <1>6, RecordFrame DEF RefuseUpgrade, LogDenied
  <2>2. UNCHANGED <<pc[s], audited[s], status[s]>>
    BY <1>6 DEF RefuseUpgrade, TypeOK, Goto, WriteHeader
  <2> QED BY <1>6, <2>1, <2>2 DEF RefuseUpgrade
<1>7. ASSUME RoundTrip(r) PROVE UNCHANGED StateOf(s)
  <2>1. decisions'[s] = decisions[s]
    BY <1>7, RecordFrame DEF RoundTrip
  <2>2. UNCHANGED <<pc[s], auth[s], audited[s], sent[s]>>
    BY <1>7 DEF RoundTrip, TypeOK, Goto
  <2> QED BY <1>7, <2>1, <2>2 DEF RoundTrip
<1>8. ASSUME UpstreamFails(r) PROVE UNCHANGED StateOf(s)
  BY <1>8 DEF UpstreamFails, TypeOK, Goto, WriteHeader
<1>9. ASSUME UpstreamCanceled(r) PROVE UNCHANGED StateOf(s)
  BY <1>9, RefusalFrame DEF UpstreamCanceled
<1>10. ASSUME UpstreamAnswers(r) PROVE UNCHANGED StateOf(s)
  BY <1>10 DEF UpstreamAnswers, TypeOK, Goto, WriteHeader
<1>11. ASSUME Upgrade(r) PROVE UNCHANGED StateOf(s)
  <2>1. UNCHANGED <<pc[s], decisions[s], audited[s], status[s], hijacked[s]>>
    BY <1>11, RefusalFrame DEF Upgrade, TypeOK, Goto
  <2> QED BY <1>11, <2>1 DEF Upgrade
<1>12. ASSUME StreamEnds(r) \/ CopyFails(r) \/ HandlerPanics(r) \/ ClientGone(r)
       PROVE  UNCHANGED StateOf(s)
  BY <1>12 DEF StreamEnds, CopyFails, HandlerPanics, ClientGone, Goto, TypeOK
<1>13. ASSUME Complete(r) PROVE UNCHANGED StateOf(s)
  BY <1>13 DEF Complete, Goto, TypeOK
<1> QED
  BY <1>1, <1>2, <1>3, <1>4, <1>5, <1>6, <1>7, <1>8, <1>9, <1>10, <1>11, <1>12, <1>13 DEF StepOf

\* The first decision of a request.
LEMMA FirstRecord ==
  ASSUME TypeOK, NEW r \in Requests, NEW a \in BOOLEAN, NEW why \in Denials \cup {"none"},
         NEW id \in Ids, method'[r] \in Methods, decisions[r] = <<>>, RecordDecision(r, a, why, id)
  PROVE  \E d \in Decisions: decisions'[r] = <<d>> /\ d.allowed = a /\ d.reason = why
<1> DEFINE d == [allowed |-> a, reason |-> why, method |-> method'[r], inbound |-> id]
<1>1. d \in Decisions /\ d.allowed = a /\ d.reason = why
  BY DEF Decisions, Methods
<1>2. decisions'[r] = Append(<<>>, d)
  BY DEF TypeOK, RecordDecision
<1> HIDE DEF d
<1>3. Append(<<>>, d) = <<d>>
  OBVIOUS
<1> QED BY <1>1, <1>2, <1>3

\* A refusal of a request nothing was decided on is recorded and answered.
LEMMA RefusalBefore ==
  ASSUME TypeOK, NEW r \in Requests, NEW e, user'[r] \in Ids, method'[r] \in Methods,
         HandleError(r, e), decisions[r] = <<>>, status[r] = 0
  PROVE  /\ pc'[r] = "defer" /\ status'[r] = Answer(e).code
         /\ \E d \in Decisions: decisions'[r] = <<d>> /\ d.allowed = FALSE
                                                     /\ d.reason = Answer(e).why
<1>1. RecordDecision(r, FALSE, Answer(e).why, user'[r])
  BY DEF HandleError, LogDenied
<1>2. \E d \in Decisions: decisions'[r] = <<d>> /\ d.allowed = FALSE /\ d.reason = Answer(e).why
  BY <1>1, FirstRecord, AnswerType
<1>3. pc'[r] = "defer" /\ status'[r] = Answer(e).code
  BY DEF HandleError, Goto, WriteHeader, TypeOK
<1> QED BY <1>2, <1>3

\* What is a one-element sequence of decisions.
LEMMA OneDecision ==
  ASSUME NEW d
  PROVE  Len(<<d>>) = 1 /\ <<d>>[1] = d /\ <<d>> # <<>>
OBVIOUS

-----------------------------------------------------------------------------
(* One decision per request.                                               *)

\* A refusal before the round trip is the decision.
LEMMA RefusalDecides ==
  ASSUME TypeOK, NEW r \in Requests, NEW e, DecisionOf(r), pc[r] \in Before, status[r] = 0,
         user'[r] \in Ids, method'[r] \in Methods, sent' = sent, HandleError(r, e)
  PROVE  DecisionOf(r)'
<1>1. decisions[r] = <<>> /\ sent[r] = NotSent
  BY DEF DecisionOf
<1>2. PICK d \in Decisions: decisions'[r] = <<d>> /\ d.allowed = FALSE
  BY <1>1, RefusalBefore
<1>3. DecidedOnce(r)' /\ pc'[r] = "defer"
  BY <1>1, <1>2, RefusalBefore DEF DecidedOnce
<1> QED BY <1>3 DEF DecisionOf, Before, Served

\* One after it is not.
LEMMA RefusalKeepsDecision ==
  ASSUME TypeOK, NEW r \in Requests, NEW e, DecisionOf(r), pc[r] \in Served, sent' = sent,
         HandleError(r, e)
  PROVE  DecisionOf(r)'
<1>1. decisions[r] # <<>> /\ DecidedOnce(r)
  BY OneDecision DEF DecisionOf, DecidedOnce
<1>2. decisions'[r] = decisions[r] /\ pc'[r] = "defer"
  BY <1>1 DEF HandleError, LogDenied, TypeOK, Goto
<1> QED BY <1>1, <1>2 DEF DecisionOf, DecidedOnce, Before, Served

\* Every step keeps DecisionInv.
LEMMA DecisionStep ==
  TypeOK /\ DecisionInv /\ ResponseInv /\ [Next]_vars => DecisionInv'
<1> SUFFICES ASSUME TypeOK, DecisionInv, ResponseInv, [Next]_vars PROVE DecisionInv'
  OBVIOUS
<1>0. TypeOK'
  BY TypeStep
<1>1. ASSUME NEW r \in Requests, StepOf(r), user'[r] \in Ids, method'[r] \in Methods
      PROVE  DecisionOf(r)'
  <2>0. DecisionOf(r) /\ (pc[r] \in Before => status[r] = 0)
    BY DEF DecisionInv, ResponseInv, ResponseOf
  <2> USE DEF ctxVars, gauges
  <2>1. CASE ServeRequest(r)
    BY <2>0, <2>1 DEF ServeRequest, Goto, TypeOK, DecisionOf, Before, Served
  <2>2. CASE Authenticate(r)
    <3>1. CASE HandleError(r, "unauthorized") \/ HandleError(r, "reserved_identity")
      BY <1>1, <2>0, <2>2, <3>1, RefusalDecides DEF Authenticate, Before
    <3>2. CASE (Goto(r, "review") \/ Goto(r, "impersonate")) /\ UNCHANGED decisions
      BY <2>0, <2>2, <3>2 DEF Authenticate, Goto, TypeOK, DecisionOf, Before, Served
    <3> QED BY <2>2, <3>1, <3>2 DEF Authenticate
  <2>3. CASE ReviewToken(r)
    <3>1. CASE HandleError(r, "unauthorized")
      BY <1>1, <2>0, <2>3, <3>1, RefusalDecides DEF ReviewToken, Before
    <3>2. CASE Goto(r, "impersonate") /\ UNCHANGED decisions
      BY <2>0, <2>3, <3>2 DEF ReviewToken, Goto, TypeOK, DecisionOf, Before, Served
    <3> QED BY <2>3, <3>1, <3>2 DEF ReviewToken
  <2>4. CASE Impersonate(r)
    <3>1. CASE HandleError(r, "no_name")
      BY <1>1, <2>0, <2>4, <3>1, RefusalDecides DEF Impersonate, Before
    <3>2. CASE (Goto(r, "forward") \/ Goto(r, "sar")) /\ UNCHANGED decisions
      BY <2>0, <2>4, <3>2 DEF Impersonate, Goto, TypeOK, DecisionOf, Before, Served
    <3> QED BY <2>4, <3>1, <3>2 DEF Impersonate
  <2>5. CASE CheckImpersonation(r)
    <3>1. CASE \E e \in Refusals: HandleError(r, e)
      BY <1>1, <2>0, <2>5, <3>1, RefusalDecides DEF CheckImpersonation, Before
    <3>2. CASE Goto(r, "forward") /\ UNCHANGED decisions
      BY <2>0, <2>5, <3>2 DEF CheckImpersonation, Goto, TypeOK, DecisionOf, Before, Served
    <3> QED BY <2>5, <3>1, <3>2 DEF CheckImpersonation
  <2>6. CASE RefuseUpgrade(r)
    <3>1. decisions[r] = <<>> /\ sent[r] = NotSent /\ sent' = sent
      BY <2>0, <2>6 DEF RefuseUpgrade, DecisionOf, Before
    <3>2. PICK d \in Decisions: decisions'[r] = <<d>> /\ d.allowed = FALSE
      BY <1>1, <2>6, <3>1, FirstRecord, AnswerType DEF RefuseUpgrade, LogDenied
    <3>3. DecidedOnce(r)' /\ pc'[r] = "defer"
      BY <2>6, <3>1, <3>2 DEF DecidedOnce, RefuseUpgrade, Goto, TypeOK
    <3> QED BY <3>3 DEF DecisionOf, Before, Served
  <2>7. CASE RoundTrip(r)
    <3> DEFINE id == IF target[r] = NoUser THEN user[r] ELSE input[r].id
    <3>1. decisions[r] = <<>> /\ id \in Ids /\ RecordDecision(r, TRUE, "none", id)
      BY <2>0, <2>7 DEF RoundTrip, DecisionOf, Before, TypeOK, Ids
    <3> HIDE DEF id
    <3>2. PICK d \in Decisions: decisions'[r] = <<d>> /\ d.allowed = TRUE
      BY <1>1, <3>1, FirstRecord
    <3>3. sent'[r] # NotSent /\ pc'[r] = "upstream"
      BY <2>7 DEF RoundTrip, TypeOK, Goto, Transport, NotSent
    <3>4. DecidedOnce(r)'
      BY <3>2, <3>3 DEF DecidedOnce
    <3> QED BY <3>3, <3>4 DEF DecisionOf, Before, Served
  <2>8. CASE UpstreamFails(r)
    BY <2>0, <2>8 DEF UpstreamFails, Goto, TypeOK, DecisionOf, DecidedOnce, Before, Served
  <2>9. CASE UpstreamCanceled(r)
    BY <2>0, <2>9, RefusalKeepsDecision DEF UpstreamCanceled, Served
  <2>10. CASE UpstreamAnswers(r)
    BY <2>0, <2>10 DEF UpstreamAnswers, Goto, TypeOK, DecisionOf, DecidedOnce, Before, Served
  <2>11. CASE Upgrade(r)
    <3>1. CASE HandleError(r, "hijack_failed")
      BY <2>0, <2>11, <3>1, RefusalKeepsDecision DEF Upgrade, Served
    <3>2. CASE Goto(r, "hijacked") /\ UNCHANGED decisions
      BY <2>0, <2>11, <3>2 DEF Upgrade, Goto, TypeOK, DecisionOf, DecidedOnce, Before, Served
    <3> QED BY <2>11, <3>1, <3>2 DEF Upgrade
  <2>12. CASE StreamEnds(r) \/ CopyFails(r)
    BY <2>0, <2>12
       DEF StreamEnds, CopyFails, Goto, TypeOK, DecisionOf, DecidedOnce, Before, Served
  <2>13. CASE HandlerPanics(r)
    <3>1. pc[r] \in Before \cup Served
      BY <2>13 DEF HandlerPanics, InHandler, TypeOK, PCs, Before, Served
    <3>2. pc'[r] = "defer" /\ panicked'[r] = "fault" /\ UNCHANGED <<decisions, sent>>
      BY <2>13 DEF HandlerPanics, Goto, TypeOK
    <3> QED BY <2>0, <3>1, <3>2 DEF DecisionOf, DecidedOnce, Before, Served
  <2>14. CASE ClientGone(r)
    BY <2>0, <2>14 DEF ClientGone, DecisionOf, DecidedOnce
  <2>15. CASE Complete(r)
    BY <2>0, <2>15 DEF Complete, Goto, TypeOK, DecisionOf, DecidedOnce, Before, Served
  <2> QED
    BY <1>1, <2>1, <2>2, <2>3, <2>4, <2>5, <2>6, <2>7, <2>8, <2>9, <2>10, <2>11, <2>12, <2>13,
       <2>14, <2>15 DEF StepOf
<1>2. ASSUME NEW r \in Requests, StepOf(r), NEW s \in Requests \ {r} PROVE DecisionOf(s)'
  BY <1>2, Frame DEF DecisionInv, DecisionOf, DecidedOnce, StateOf
<1>3. ASSUME UNCHANGED vars PROVE DecisionInv'
  BY <1>3 DEF DecisionInv, DecisionOf, DecidedOnce, vars
<1>4. ASSUME NEW r \in Requests, StepOf(r) PROVE DecisionInv'
  <2>1. user'[r] \in Ids /\ method'[r] \in Methods
    BY <1>0 DEF TypeOK, Methods
  <2>2. \A s \in Requests: DecisionOf(s)'
    BY <1>1, <1>2, <1>4, <2>1
  <2> QED BY <2>2 DEF DecisionInv
<1> QED BY <1>3, <1>4, NextIsLocal

-----------------------------------------------------------------------------
(* Responses, and how requests end.                                        *)

\* A refusal before the round trip is answered as it was recorded.
LEMMA RefusalResponds ==
  ASSUME TypeOK, NEW r \in Requests, NEW e, DecisionOf(r), ResponseOf(r), pc[r] \in Before,
         user'[r] \in Ids, method'[r] \in Methods, HandleError(r, e),
         UNCHANGED <<sent, hijacked, panicked, classified, broke, gone>>
  PROVE  ResponseOf(r)'
<1>1. decisions[r] = <<>> /\ status[r] = 0 /\ panicked[r] = "no"
  BY DEF DecisionOf, ResponseOf, Before
<1>2. PICK d \in Decisions: decisions'[r] = <<d>> /\ d.reason = Answer(e).why
  BY <1>1, RefusalBefore
<1>3. pc'[r] = "defer" /\ status'[r] = Answer(e).code
  BY <1>1, RefusalBefore
<1>4. RefusalAnswered(r, status[r])'
  BY <1>2, <1>3, AnswerType, OneDecision DEF RefusalAnswered
<1> QED BY <1>3, <1>4 DEF ResponseOf, Before

\* Every step keeps ResponseInv.
LEMMA ResponseStep ==
  TypeOK /\ DecisionInv /\ ResponseInv /\ [Next]_vars => ResponseInv'
<1> SUFFICES ASSUME TypeOK, DecisionInv, ResponseInv, [Next]_vars PROVE ResponseInv'
  OBVIOUS
<1>0. TypeOK' /\ DecisionInv'
  BY TypeStep, DecisionStep
<1>1. ASSUME NEW r \in Requests, StepOf(r), user'[r] \in Ids, method'[r] \in Methods
      PROVE  ResponseOf(r)'
  <2>0. DecisionOf(r) /\ ResponseOf(r) /\ DecisionOf(r)'
    BY <1>0 DEF DecisionInv, ResponseInv
  <2>a. ASSUME pc[r] \in Before, pc'[r] \in Before \cup {"upstream"},
               UNCHANGED <<status, hijacked, panicked, classified, broke, gone>>
        PROVE  ResponseOf(r)'
    BY <2>0, <2>a DEF ResponseOf, Before
  <2> USE DEF ctxVars, gauges
  <2>1. CASE ServeRequest(r)
    <3>1. pc[r] \in Before /\ pc'[r] \in Before
      BY <2>1 DEF ServeRequest, Goto, TypeOK, Before
    <3> QED BY <2>1, <2>a, <3>1 DEF ServeRequest
  <2>2. CASE Authenticate(r)
    <3>1. CASE HandleError(r, "unauthorized") \/ HandleError(r, "reserved_identity")
      BY <1>1, <2>0, <2>2, <3>1, RefusalResponds DEF Authenticate, Before
    <3>2. CASE (Goto(r, "review") \/ Goto(r, "impersonate")) /\ UNCHANGED status
      <4>1. pc[r] \in Before /\ pc'[r] \in Before
        BY <2>2, <3>2 DEF Authenticate, Goto, TypeOK, Before
      <4> QED BY <2>2, <2>a, <3>2, <4>1 DEF Authenticate
    <3> QED BY <2>2, <3>1, <3>2 DEF Authenticate
  <2>3. CASE ReviewToken(r)
    <3>1. CASE HandleError(r, "unauthorized")
      BY <1>1, <2>0, <2>3, <3>1, RefusalResponds DEF ReviewToken, Before
    <3>2. CASE Goto(r, "impersonate") /\ UNCHANGED status
      <4>1. pc[r] \in Before /\ pc'[r] \in Before
        BY <2>3, <3>2 DEF ReviewToken, Goto, TypeOK, Before
      <4> QED BY <2>3, <2>a, <3>2, <4>1 DEF ReviewToken
    <3> QED BY <2>3, <3>1, <3>2 DEF ReviewToken
  <2>4. CASE Impersonate(r)
    <3>1. CASE HandleError(r, "no_name")
      BY <1>1, <2>0, <2>4, <3>1, RefusalResponds DEF Impersonate, Before
    <3>2. CASE (Goto(r, "forward") \/ Goto(r, "sar")) /\ UNCHANGED status
      <4>1. pc[r] \in Before /\ pc'[r] \in Before
        BY <2>4, <3>2 DEF Impersonate, Goto, TypeOK, Before
      <4> QED BY <2>4, <2>a, <3>2, <4>1 DEF Impersonate
    <3> QED BY <2>4, <3>1, <3>2 DEF Impersonate
  <2>5. CASE CheckImpersonation(r)
    <3>1. CASE \E e \in Refusals: HandleError(r, e)
      BY <1>1, <2>0, <2>5, <3>1, RefusalResponds DEF CheckImpersonation, Before
    <3>2. CASE Goto(r, "forward") /\ UNCHANGED status
      <4>1. pc[r] \in Before /\ pc'[r] \in Before
        BY <2>5, <3>2 DEF CheckImpersonation, Goto, TypeOK, Before
      <4> QED BY <2>5, <2>a, <3>2, <4>1 DEF CheckImpersonation
    <3> QED BY <2>5, <3>1, <3>2 DEF CheckImpersonation
  <2>6. CASE RefuseUpgrade(r)
    <3>1. status[r] = 0 /\ pc'[r] = "defer"
      BY <2>0, <2>6 DEF RefuseUpgrade, ResponseOf, Before, Goto, TypeOK
    <3>2. status'[r] >= 400
      BY <2>6, <3>1 DEF RefuseUpgrade, WriteHeader, Answer, TypeOK
    <3>3. RefusalAnswered(r, status[r])'
      BY <3>2 DEF RefusalAnswered
    <3> QED BY <2>0, <2>6, <3>1, <3>3 DEF RefuseUpgrade, ResponseOf, Before
  <2>7. CASE RoundTrip(r)
    <3>1. pc[r] \in Before /\ pc'[r] = "upstream"
      BY <2>7 DEF RoundTrip, Goto, TypeOK, Before
    <3> QED BY <2>7, <2>a, <3>1 DEF RoundTrip
  <2>8. CASE UpstreamFails(r)
    <3>1. /\ pc'[r] = "defer" /\ DecidedOnce(r)' /\ sent'[r] # NotSent
          /\ broke'[r] /\ classified'[r] \in UpstreamFaults
      BY <2>0, <2>8
         DEF UpstreamFails, Goto, TypeOK, DecisionOf, DecidedOnce, Served, UpstreamFaults
    <3>2. RefusalAnswered(r, status[r])'
      BY <3>1, OneDecision DEF DecidedOnce, RefusalAnswered
    <3> QED BY <2>0, <2>8, <3>1, <3>2 DEF UpstreamFails, ResponseOf, Before
  <2>9. CASE UpstreamCanceled(r)
    <3>1. pc'[r] = "defer" /\ DecidedOnce(r)' /\ sent'[r] # NotSent
      <4>1. DecidedOnce(r) /\ sent[r] # NotSent /\ decisions[r] # <<>> /\ sent' = sent
        BY <2>0, <2>9, OneDecision DEF UpstreamCanceled, DecisionOf, DecidedOnce, Served
      <4>2. decisions' = decisions /\ pc'[r] = "defer"
        BY <2>9, <4>1 DEF UpstreamCanceled, HandleError, LogDenied, Goto, TypeOK
      <4> QED BY <4>1, <4>2 DEF DecidedOnce
    <3>2. RefusalAnswered(r, status[r])'
      BY <3>1, OneDecision DEF DecidedOnce, RefusalAnswered
    <3> QED BY <2>0, <2>9, <3>1, <3>2 DEF UpstreamCanceled, ResponseOf, Before
  <2>10. CASE UpstreamAnswers(r)
    <3>1. pc[r] = "upstream" /\ pc'[r] = "body"
      BY <2>10 DEF UpstreamAnswers, Goto, TypeOK
    <3> QED BY <2>0, <2>10, <3>1 DEF UpstreamAnswers, ResponseOf, Before
  <2>11. CASE Upgrade(r)
    <3>1. CASE HandleError(r, "hijack_failed") /\ UNCHANGED hijacked
      <4>1. DecidedOnce(r) /\ sent[r] # NotSent /\ decisions[r] # <<>> /\ sent' = sent
        BY <2>0, <2>11, OneDecision DEF Upgrade, DecisionOf, DecidedOnce, Served
      <4>2. decisions' = decisions /\ pc'[r] = "defer"
        BY <3>1, <4>1 DEF HandleError, LogDenied, Goto, TypeOK
      <4>3. RefusalAnswered(r, status[r])'
        BY <4>1, <4>2, OneDecision DEF DecidedOnce, RefusalAnswered
      <4> QED BY <2>0, <2>11, <4>2, <4>3 DEF Upgrade, ResponseOf, Before
    <3>2. CASE Goto(r, "hijacked") /\ UNCHANGED status
      <4>1. pc'[r] = "hijacked"
        BY <3>2 DEF Goto, TypeOK
      <4> QED BY <2>0, <2>11, <4>1 DEF Upgrade, ResponseOf, Before
    <3> QED BY <2>11, <3>1, <3>2 DEF Upgrade
  <2>12. CASE StreamEnds(r) \/ CopyFails(r)
    <3>1. pc'[r] = "defer" /\ DecidedOnce(r)' /\ sent'[r] # NotSent
      BY <2>0, <2>12 DEF StreamEnds, CopyFails, Goto, TypeOK, DecisionOf, DecidedOnce, Served
    <3>2. RefusalAnswered(r, status[r])'
      BY <3>1, OneDecision DEF DecidedOnce, RefusalAnswered
    <3>3. (panicked[r] = "abort" => broke[r] \/ gone[r])'
      BY <2>0, <2>12 DEF StreamEnds, CopyFails, TypeOK, ResponseOf
    <3>4. (classified[r] # "none" => broke[r] /\ classified[r] \in UpstreamFaults)'
      BY <2>0, <2>12 DEF StreamEnds, CopyFails, TypeOK, ResponseOf
    <3> QED BY <3>1, <3>2, <3>3, <3>4 DEF ResponseOf, Before
  <2>13. CASE HandlerPanics(r)
    <3>1. pc'[r] = "defer" /\ panicked'[r] = "fault"
      BY <2>13 DEF HandlerPanics, Goto, TypeOK
    <3>2. RefusalAnswered(r, status[r])'
      BY <3>1 DEF RefusalAnswered
    <3> QED BY <2>0, <2>13, <3>1, <3>2 DEF HandlerPanics, ResponseOf, Before
  <2>14. CASE ClientGone(r)
    BY <2>0, <2>14 DEF ClientGone, ResponseOf, RefusalAnswered, TypeOK
  <2>15. CASE Complete(r)
    <3>1. pc'[r] = "done"
      BY <2>15 DEF Complete, Goto, TypeOK
    <3> QED BY <2>0, <2>15, <3>1 DEF Complete, ResponseOf, Before
  <2> QED
    BY <1>1, <2>1, <2>2, <2>3, <2>4, <2>5, <2>6, <2>7, <2>8, <2>9, <2>10, <2>11, <2>12, <2>13,
       <2>14, <2>15 DEF StepOf
<1>2. ASSUME NEW r \in Requests, StepOf(r), NEW s \in Requests \ {r} PROVE ResponseOf(s)'
  BY <1>2, Frame DEF ResponseInv, ResponseOf, RefusalAnswered, StateOf
<1>3. ASSUME UNCHANGED vars PROVE ResponseInv'
  BY <1>3 DEF ResponseInv, ResponseOf, RefusalAnswered, vars
<1>4. ASSUME NEW r \in Requests, StepOf(r) PROVE ResponseInv'
  <2>1. user'[r] \in Ids /\ method'[r] \in Methods
    BY <1>0 DEF TypeOK, Methods
  <2>2. \A s \in Requests: ResponseOf(s)'
    BY <1>1, <1>2, <1>4, <2>1
  <2> QED BY <2>2 DEF ResponseInv
<1> QED BY <1>3, <1>4, NextIsLocal

-----------------------------------------------------------------------------
(* Whose identity is forwarded.                                            *)

\* A step out of the handlers before the round trip leaves nothing to keep.
LEMMA IdentityGone ==
  ASSUME NEW r \in Requests, pc'[r] \notin Before
  PROVE  IdentityOf(r)'
BY DEF IdentityOf, Before

\* A refused request leaves them.
LEMMA RefusalLeaves ==
  ASSUME TypeOK, NEW r \in Requests, NEW e, HandleError(r, e)
  PROVE  pc'[r] = "defer" /\ pc'[r] \notin Before
BY DEF TypeOK, HandleError, Goto, Before

\* Every step keeps IdentityInv.
LEMMA IdentityStep == TypeOK /\ IdentityInv /\ [Next]_vars => IdentityInv'
<1> SUFFICES ASSUME TypeOK, IdentityInv, [Next]_vars PROVE IdentityInv'
  OBVIOUS
<1>1. ASSUME NEW r \in Requests, StepOf(r) PROVE IdentityOf(r)'
  <2>0. IdentityOf(r)
    BY DEF IdentityInv
  <2> USE DEF ctxVars, gauges
  <2>1. CASE ServeRequest(r)
    BY <2>0, <2>1 DEF ServeRequest, Goto, TypeOK, IdentityOf, Before
  <2>2. CASE Authenticate(r)
    <3>1. CASE HandleError(r, "unauthorized") \/ HandleError(r, "reserved_identity")
      BY <3>1, RefusalLeaves, IdentityGone
    <3>2. CASE Goto(r, "review") /\ UNCHANGED ctxVars /\ input[r].cred = "invalid"
      BY <2>0, <2>2, <3>2 DEF Authenticate, Goto, TypeOK, IdentityOf, Before
    <3>3. CASE /\ Goto(r, "impersonate") /\ ~Reserved(input[r].id)
               /\ method' = [method EXCEPT ![r] = "oidc"]
               /\ user' = [user EXCEPT ![r] = input[r].id]
               /\ UNCHANGED <<noImp, target>>
      <4>1. pc'[r] = "impersonate" /\ target'[r] = NoUser /\ ~noImp'[r] /\ input' = input
        BY <2>0, <2>2, <3>3 DEF Authenticate, Goto, TypeOK, IdentityOf, Before
      <4>2. ByOIDC(r)' /\ user'[r] = input'[r].id
        BY <3>3, <4>1 DEF ByOIDC, Reserved, TypeOK
      <4> QED BY <4>1, <4>2 DEF IdentityOf
    <3> QED BY <2>2, <3>1, <3>2, <3>3 DEF Authenticate
  <2>3. CASE ReviewToken(r)
    <3>1. CASE HandleError(r, "unauthorized")
      BY <3>1, RefusalLeaves, IdentityGone
    <3>2. CASE /\ method' = [method EXCEPT ![r] = "tokenreview"]
               /\ noImp' = [noImp EXCEPT ![r] = TRUE]
               /\ Goto(r, "impersonate") /\ UNCHANGED <<auth, user, target>>
      <4>1. pc'[r] = "impersonate" /\ target'[r] = NoUser /\ ByReview(r)'
        BY <2>0, <2>3, <3>2 DEF ReviewToken, Goto, TypeOK, IdentityOf, Before, ByReview
      <4> QED BY <4>1 DEF IdentityOf
    <3> QED BY <2>3, <3>1, <3>2 DEF ReviewToken
  <2>4. CASE Impersonate(r)
    <3>1. CASE HandleError(r, "no_name")
      BY <3>1, RefusalLeaves, IdentityGone
    <3>2. CASE /\ noImp' = [noImp EXCEPT ![r] = TRUE] /\ Goto(r, "forward")
               /\ UNCHANGED <<auth, method, user, target>>
      <4>1. pc'[r] = "forward" /\ noImp'[r]
        BY <3>2 DEF Goto, TypeOK
      <4>2. ByReview(r)' \/ (method'[r] = "oidc" /\ noImp'[r])
        BY <2>0, <2>4, <3>2, <4>1 DEF Impersonate, IdentityOf, ByReview, ByOIDC
      <4> QED BY <4>1, <4>2 DEF IdentityOf, Before
    <3>3. CASE /\ ~noImp[r] /\ user[r].name # NoName /\ UNCHANGED ctxVars
               /\ Goto(r, IF impHeaders[r] THEN "sar" ELSE "forward")
      <4>1. ByOIDC(r) /\ user[r] = input[r].id /\ target[r] = NoUser /\ UNCHANGED input
        BY <2>0, <2>4, <3>3 DEF Impersonate, IdentityOf, ByReview, Before
      <4>2. ByOIDC(r)'
        BY <3>3, <4>1 DEF ByOIDC, Reserved
      <4>3. pc'[r] = "sar" \/ (pc'[r] = "forward" /\ ~impHeaders[r])
        BY <3>3 DEF Goto, TypeOK
      <4> QED BY <3>3, <4>1, <4>2, <4>3 DEF IdentityOf, Before, Principal
    <3> QED BY <2>4, <3>1, <3>2, <3>3 DEF Impersonate
  <2>5. CASE CheckImpersonation(r)
    <3>1. CASE \E e \in Refusals: HandleError(r, e)
      BY <3>1, RefusalLeaves, IdentityGone
    <3>2. CASE \E t \in Targets: /\ target' = [target EXCEPT ![r] = t]
                                 /\ user' = [user EXCEPT ![r] = t]
                                 /\ impHeaders' = HeadersRemoved(r)
                                 /\ Goto(r, "forward")
                                 /\ UNCHANGED <<auth, method, noImp>>
      <4>1. PICK t \in Targets: target'[r] = t /\ user'[r] = t /\ ~impHeaders'[r]
        BY <3>2 DEF TypeOK, HeadersRemoved
      <4>2. t.name # NoName /\ t # NoUser
        BY PipelineAssumption DEF NoUser
      <4>3. ByOIDC(r)' /\ ~noImp'[r] /\ pc'[r] = "forward"
        BY <2>0, <2>5, <3>2 DEF CheckImpersonation, IdentityOf, ByOIDC, Reserved, Goto, TypeOK
      <4> QED BY <4>1, <4>2, <4>3 DEF IdentityOf, Before, Principal
    <3> QED BY <2>5, <3>1, <3>2 DEF CheckImpersonation
  <2>6. CASE RefuseUpgrade(r) \/ RoundTrip(r) \/ UpstreamFails(r) \/ UpstreamAnswers(r)
             \/ StreamEnds(r) \/ CopyFails(r) \/ HandlerPanics(r) \/ Complete(r)
    <3>1. \E p \in {"upstream", "body", "defer", "done"}: Goto(r, p)
      BY <2>6 DEF RefuseUpgrade, RoundTrip, UpstreamFails, UpstreamAnswers, StreamEnds, CopyFails,
         HandlerPanics, Complete
    <3>2. pc'[r] \notin Before
      BY <3>1 DEF Goto, TypeOK, Before
    <3> QED BY <3>2, IdentityGone
  <2>7. CASE UpstreamCanceled(r) \/ Upgrade(r)
    <3>1. HandleError(r, "canceled") \/ HandleError(r, "hijack_failed") \/ Goto(r, "hijacked")
      BY <2>7 DEF UpstreamCanceled, Upgrade
    <3>2. pc'[r] \notin Before
      BY <3>1, RefusalLeaves DEF Goto, TypeOK, Before
    <3> QED BY <3>2, IdentityGone
  <2>8. CASE ClientGone(r)
    BY <2>0, <2>8 DEF ClientGone, IdentityOf, ByOIDC, ByReview, Reserved, Principal
  <2> QED BY <1>1, <2>1, <2>2, <2>3, <2>4, <2>5, <2>6, <2>7, <2>8 DEF StepOf
<1>2. ASSUME NEW r \in Requests, StepOf(r), NEW s \in Requests \ {r} PROVE IdentityOf(s)'
  BY <1>2, Frame DEF IdentityInv, IdentityOf, ByOIDC, ByReview, Reserved, StateOf, Principal
<1>3. ASSUME UNCHANGED vars PROVE IdentityInv'
  BY <1>3 DEF IdentityInv, IdentityOf, ByOIDC, ByReview, Reserved, vars, Principal
<1> QED BY <1>1, <1>2, <1>3, NextIsLocal DEF IdentityInv

\* What ForwardedIdentity says of one request.
ForwardedOf(r) ==
  /\ sent[r].as = "proxy" =>
       /\ sent[r].user.name # NoName
       /\ sent[r].user = WithAuthenticated(Principal(r))
       /\ target[r] = NoUser =>
            /\ input[r].id.name \notin ReservedNames
            /\ sent[r].user.groups \cap ReservedGroups
                 \subseteq AllowedReservedGroups \cup {AllAuthenticated}
  /\ sent[r] # NotSent /\ method[r] = "tokenreview" =>
       sent[r].as = "client" /\ sent[r].token = "token"

\* Only the round trip sends anything, and who it is for is settled by then.
LEMMA ForwardedStep ==
  TypeOK /\ DecisionInv /\ IdentityInv /\ ForwardedIdentity /\ [Next]_vars => ForwardedIdentity'
<1> SUFFICES ASSUME TypeOK, DecisionInv, IdentityInv, ForwardedIdentity, [Next]_vars
             PROVE  ForwardedIdentity'
  OBVIOUS
<1>0. \A r \in Requests: ForwardedOf(r)
  BY DEF ForwardedIdentity, ForwardedOf
<1>1. ASSUME NEW r \in Requests, StepOf(r) PROVE ForwardedOf(r)'
  <2> USE DEF ctxVars, gauges
  <2>1. CASE RoundTrip(r)
    <3>1. IdentityOf(r) /\ pc[r] = "forward" /\ UNCHANGED <<input, method, target>>
      BY <2>1 DEF IdentityInv, RoundTrip
    <3>2. sent'[r] = [as |-> Transport(r), user |-> Impersonated(r), token |-> auth'[r]]
      BY <2>1 DEF RoundTrip, TypeOK
    <3>3. CASE noImp[r]
      <4>1. method[r] = "tokenreview" => auth'[r] = "token"
        BY <2>1, <3>1, <3>3 DEF RoundTrip, IdentityOf, ByReview, ByOIDC, TypeOK
      <4>2. sent'[r].as = "client" /\ sent'[r].token = auth'[r]
        BY <3>2, <3>3 DEF Transport
      <4> QED BY <3>1, <4>1, <4>2 DEF ForwardedOf
    <3>4. CASE ~noImp[r]
      <4>1. ByOIDC(r) /\ user[r].name # NoName /\ user[r] = Principal(r) /\ ~impHeaders[r]
        BY <3>1, <3>4 DEF IdentityOf, ByReview
      <4>2. /\ sent'[r].user = WithAuthenticated(user[r])
            /\ sent'[r].user.name = user[r].name
            /\ sent'[r].user.groups = user[r].groups \cup {AllAuthenticated}
        BY <3>2, <3>4, <4>1 DEF WithAuthenticated, Impersonated
      <4>3. target[r] = NoUser =>
              /\ input[r].id.name \notin ReservedNames
              /\ sent'[r].user.groups \cap ReservedGroups
                   \subseteq AllowedReservedGroups \cup {AllAuthenticated}
        BY <4>1, <4>2 DEF ByOIDC, Reserved, Principal
      <4>4. Principal(r)' = Principal(r)
        BY <3>1 DEF Principal
      <4> QED BY <3>1, <4>1, <4>2, <4>3, <4>4 DEF ForwardedOf, WithAuthenticated, ByOIDC
    <3> QED BY <3>3, <3>4
  <2>2. CASE Authenticate(r) \/ ReviewToken(r) \/ CheckImpersonation(r)
    <3>1. sent'[r] = NotSent
      BY <2>2 DEF Authenticate, ReviewToken, CheckImpersonation, DecisionInv, DecisionOf, Before
    <3> QED BY <3>1 DEF ForwardedOf, NotSent
  <2>3. CASE UNCHANGED <<input, method, target, sent>>
    BY <1>0, <2>3 DEF ForwardedOf, Principal, WithAuthenticated
  <2> QED
    BY <1>1, <2>1, <2>2, <2>3 DEF StepOf, ServeRequest, Impersonate, RefuseUpgrade, UpstreamFails,
       UpstreamCanceled, UpstreamAnswers, Upgrade, StreamEnds, CopyFails, HandlerPanics, ClientGone,
       Complete
<1>2. ASSUME NEW r \in Requests, StepOf(r), NEW s \in Requests \ {r} PROVE ForwardedOf(s)'
  BY <1>0, <1>2, Frame DEF ForwardedOf, StateOf, Principal, WithAuthenticated
<1>3. ASSUME UNCHANGED vars PROVE ForwardedIdentity'
  BY <1>3 DEF ForwardedIdentity, vars, Principal, WithAuthenticated
<1>4. ASSUME NEW r \in Requests, StepOf(r) PROVE ForwardedIdentity'
  <2>1. \A s \in Requests: ForwardedOf(s)'
    BY <1>1, <1>2, <1>4
  <2> QED BY <2>1 DEF ForwardedIdentity, ForwardedOf
<1> QED BY <1>3, <1>4, NextIsLocal

-----------------------------------------------------------------------------
(* The terminal record.                                                    *)

\* What TerminalRecordHonest says of one request.
HonestOf(r) ==
  pc[r] = "done" =>
    /\ ended[r].term \in UpstreamFaults => broke[r] /\ ~gone[r]
    /\ ended[r].term = "client_cancel" => gone[r]
    /\ RefusalAnswered(r, ended[r].status)

\* The deferred function writes an honest record, and nothing changes after it.
LEMMA HonestStep ==
  TypeOK /\ ResponseInv /\ TerminalRecordHonest /\ [Next]_vars => TerminalRecordHonest'
<1> SUFFICES ASSUME TypeOK, ResponseInv, TerminalRecordHonest, [Next]_vars
             PROVE  TerminalRecordHonest'
  OBVIOUS
<1>0. \A r \in Requests: HonestOf(r)
  BY DEF TerminalRecordHonest, HonestOf, RefusalAnswered, UpstreamFaults
<1>1. ASSUME NEW r \in Requests, StepOf(r) PROVE HonestOf(r)'
  <2> USE DEF ctxVars, gauges
  <2>1. CASE Complete(r)
    <3>0. ResponseOf(r) /\ pc[r] = "defer"
      BY <2>1 DEF ResponseInv, Complete
    <3>1. ended'[r].term = Termination(r) /\ ended'[r].status = FinalStatus(r)
      BY <2>1 DEF Complete, TypeOK
    <3>2. UNCHANGED <<broke, gone, decisions, panicked>>
      BY <2>1 DEF Complete
    <3>3. Termination(r) \in UpstreamFaults => broke[r] /\ ~gone[r]
      BY <3>0 DEF Termination, ResponseOf, UpstreamFaults, TypeOK
    <3>4. Termination(r) = "client_cancel" => gone[r]
      BY <3>0 DEF Termination, ResponseOf, UpstreamFaults, TypeOK
    <3>5. RefusalAnswered(r, FinalStatus(r))
      BY <3>0 DEF ResponseOf, RefusalAnswered, FinalStatus, TypeOK, Statuses
    <3> QED BY <3>1, <3>2, <3>3, <3>4, <3>5 DEF HonestOf, RefusalAnswered
  <2>2. CASE pc'[r] # "done"
    BY <2>2 DEF HonestOf
  <2>3. CASE ~Complete(r) /\ pc'[r] = "done"
    <3>1. \A e: ~HandleError(r, e)
      BY <2>3, RefusalLeaves
    <3>2. \A p: Goto(r, p) => p = "done"
      BY <2>3 DEF Goto, TypeOK
    <3>3. ClientGone(r)
      BY <1>1, <2>3, <3>1, <3>2 DEF StepOf, ServeRequest, Authenticate, ReviewToken, Impersonate,
         CheckImpersonation, RefuseUpgrade, RoundTrip, UpstreamFails, UpstreamCanceled,
         UpstreamAnswers, Upgrade, StreamEnds, CopyFails, HandlerPanics
    <3> QED BY <2>3, <3>3 DEF ClientGone, InHandler
  <2> QED BY <2>1, <2>2, <2>3
<1>2. ASSUME NEW r \in Requests, StepOf(r), NEW s \in Requests \ {r} PROVE HonestOf(s)'
  BY <1>0, <1>2, Frame DEF HonestOf, RefusalAnswered, StateOf
<1>3. ASSUME UNCHANGED vars PROVE TerminalRecordHonest'
  BY <1>3 DEF TerminalRecordHonest, vars
<1>4. ASSUME NEW r \in Requests, StepOf(r) PROVE TerminalRecordHonest'
  <2>1. \A s \in Requests: HonestOf(s)'
    BY <1>1, <1>2, <1>4
  <2> QED BY <2>1 DEF TerminalRecordHonest, HonestOf, RefusalAnswered, UpstreamFaults
<1> QED BY <1>3, <1>4, NextIsLocal

-----------------------------------------------------------------------------
(* The gauges.                                                             *)

Busy == {r \in Requests: pc[r] \notin {"new", "done"}}
Streaming ==
  {r \in Requests: /\ pc[r] \notin {"new", "done"} /\ input[r].long
                   /\ hijacked[r] \/ status[r] = 200}

\* Only finitely many requests are in the chain at any time, so that their
\* number exists; the gauges are these numbers.
GaugesInv ==
  /\ IsFiniteSet(Busy) /\ IsFiniteSet(Streaming)
  /\ inFlight = Cardinality(Busy) /\ streams = Cardinality(Streaming)

\* A gauge that goes up with an element that joins ...
LEMMA CountUp ==
  ASSUME NEW S, NEW T, NEW x, IsFiniteSet(S), x \notin S, T = S \cup {x}
  PROVE  IsFiniteSet(T) /\ Cardinality(T) = Cardinality(S) + 1 /\ Cardinality(S) \in Nat
BY FS_AddElement, FS_CardinalityType

\* ... and down with one that leaves.
LEMMA CountDown ==
  ASSUME NEW S, NEW T, NEW x, IsFiniteSet(S), x \in S, T = S \ {x}
  PROVE  IsFiniteSet(T) /\ Cardinality(T) = Cardinality(S) - 1 /\ Cardinality(S) \in Nat
BY FS_RemoveElement, FS_CardinalityType

\* The status that counts as the beginning of a stream.
LEMMA SuccessIs200 ==
  ASSUME NEW code \in Statuses
  PROVE  Success(code) <=> code = 200
BY DEF Success, Statuses

\* Whether another request is counted does not change.
LEMMA OthersCounted ==
  ASSUME TypeOK, NEW r \in Requests, StepOf(r), NEW s \in Requests \ {r}
  PROVE  (s \in Busy <=> s \in Busy') /\ (s \in Streaming <=> s \in Streaming')
BY Frame DEF Busy, Streaming, StateOf

\* Only the entry into the chain and the deferred function move a request in
\* and out of the count of the first gauge.
LEMMA BusyStep ==
  ASSUME TypeOK, GaugesInv, [Next]_vars
  PROVE  IsFiniteSet(Busy)' /\ (inFlight = Cardinality(Busy))'
<1>0. IsFiniteSet(Busy) /\ inFlight = Cardinality(Busy)
  BY DEF GaugesInv
<1> USE DEF ctxVars, gauges
<1>1. ASSUME NEW r \in Requests, ServeRequest(r)
      PROVE  IsFiniteSet(Busy)' /\ (inFlight = Cardinality(Busy))'
  <2>1. r \notin Busy /\ r \in Busy' /\ inFlight' = inFlight + 1
    BY <1>1 DEF ServeRequest, Goto, TypeOK, Busy
  <2>2. Busy' = Busy \cup {r}
    <3>1. \A s \in Requests \ {r}: s \in Busy <=> s \in Busy'
      BY <1>1, OthersCounted DEF StepOf
    <3> QED BY <2>1, <3>1 DEF Busy
  <2> QED BY <1>0, <2>1, <2>2, CountUp
<1>2. ASSUME NEW r \in Requests, Complete(r)
      PROVE  IsFiniteSet(Busy)' /\ (inFlight = Cardinality(Busy))'
  <2>1. r \in Busy /\ r \notin Busy' /\ inFlight' = inFlight - 1
    BY <1>2 DEF Complete, Goto, TypeOK, Busy
  <2>2. Busy' = Busy \ {r}
    <3>1. \A s \in Requests \ {r}: s \in Busy <=> s \in Busy'
      BY <1>2, OthersCounted DEF StepOf
    <3> QED BY <2>1, <3>1 DEF Busy
  <2> QED BY <1>0, <2>1, <2>2, CountDown
<1>3. ASSUME NEW r \in Requests, StepOf(r), ~ServeRequest(r), ~Complete(r)
      PROVE  IsFiniteSet(Busy)' /\ (inFlight = Cardinality(Busy))'
  <2>1. \/ \E p \in PCs \ {"new", "done"}: Goto(r, p)
        \/ UNCHANGED pc
        \/ \E e: HandleError(r, e)
    BY <1>3 DEF StepOf, Authenticate, ReviewToken, Impersonate, CheckImpersonation, RefuseUpgrade,
       RoundTrip, UpstreamFails, UpstreamCanceled, UpstreamAnswers, Upgrade, StreamEnds, CopyFails,
       HandlerPanics, ClientGone, PCs
  <2>2. pc'[r] \notin {"new", "done"} \/ UNCHANGED pc
    BY <2>1, RefusalLeaves DEF Goto, TypeOK
  <2>3. pc[r] \notin {"new", "done"} /\ inFlight' = inFlight
    BY <1>3 DEF StepOf, Authenticate, ReviewToken, Impersonate, CheckImpersonation, RefuseUpgrade,
       RoundTrip, UpstreamFails, UpstreamCanceled, UpstreamAnswers, Upgrade, StreamEnds, CopyFails,
       HandlerPanics, ClientGone, InHandler
  <2>4. Busy' = Busy
    <3>1. \A s \in Requests \ {r}: s \in Busy <=> s \in Busy'
      BY <1>3, OthersCounted
    <3> QED BY <2>2, <2>3, <3>1 DEF Busy
  <2> QED BY <1>0, <2>3, <2>4
<1>4. ASSUME UNCHANGED vars PROVE IsFiniteSet(Busy)' /\ (inFlight = Cardinality(Busy))'
  <2>1. Busy' = Busy /\ inFlight' = inFlight
    BY <1>4 DEF vars, Busy
  <2> QED BY <1>0, <2>1
<1> QED BY <1>1, <1>2, <1>3, <1>4, NextIsLocal

\* A step moves a request in or out of the streams together with the gauge.
Moves(r) ==
  \/ r \notin Streaming /\ r \in Streaming' /\ streams' = streams + 1
  \/ r \in Streaming /\ r \notin Streaming' /\ streams' = streams - 1
  \/ (r \in Streaming <=> r \in Streaming') /\ streams' = streams

\* Then the gauge stays exact.
LEMMA MovesExact ==
  ASSUME TypeOK, GaugesInv, NEW r \in Requests, StepOf(r), Moves(r)
  PROVE  IsFiniteSet(Streaming)' /\ (streams = Cardinality(Streaming))'
<1>0. IsFiniteSet(Streaming) /\ streams = Cardinality(Streaming)
  BY DEF GaugesInv
<1>1. \A s \in Requests \ {r}: s \in Streaming <=> s \in Streaming'
  BY OthersCounted
<1>2. Streaming \subseteq Requests /\ Streaming' \subseteq Requests
  BY DEF Streaming
<1>3. CASE r \notin Streaming /\ r \in Streaming' /\ streams' = streams + 1
  <2>1. Streaming' = Streaming \cup {r}
    BY <1>1, <1>2, <1>3
  <2> QED BY <1>0, <1>3, <2>1, CountUp
<1>4. CASE r \in Streaming /\ r \notin Streaming' /\ streams' = streams - 1
  <2>1. Streaming' = Streaming \ {r}
    BY <1>1, <1>2, <1>4
  <2> QED BY <1>0, <1>4, <2>1, CountDown
<1>5. CASE (r \in Streaming <=> r \in Streaming') /\ streams' = streams
  <2>1. Streaming' = Streaming
    BY <1>1, <1>2, <1>5
  <2> QED BY <1>0, <1>5, <2>1
<1> QED BY <1>3, <1>4, <1>5 DEF Moves

\* The first status of a request that is not hijacked moves it in when it is a
\* success and the request is long-running.
LEMMA WriteMoves ==
  ASSUME TypeOK, NEW r \in Requests, NEW code \in Statuses, status[r] = 0, ~hijacked[r],
         pc'[r] \notin {"new", "done"}, UNCHANGED <<input, hijacked>>, WriteHeader(r, code)
  PROVE  Moves(r)
<1>1. r \notin Streaming
  BY DEF Streaming
<1>2. status'[r] = code /\ streams' = streams + (IF input[r].long /\ code = 200 THEN 1 ELSE 0)
  BY SuccessIs200 DEF WriteHeader, TypeOK
<1>3. r \in Streaming' <=> input[r].long /\ code = 200
  BY <1>2 DEF Streaming
<1>4. streams \in Int
  BY DEF TypeOK
<1> QED BY <1>1, <1>2, <1>3, <1>4 DEF Moves

\* A refusal moves no request.
LEMMA RefusalMoves ==
  ASSUME TypeOK, NEW r \in Requests, NEW e, status[r] = 0, ~hijacked[r],
         UNCHANGED <<input, hijacked>>, HandleError(r, e)
  PROVE  Moves(r)
<1>1. pc'[r] = "defer"
  BY RefusalLeaves
<1>2. CASE UNCHANGED <<status, streams>>
  BY <1>2 DEF Moves, Streaming
<1>3. CASE WriteHeader(r, Answer(e).code)
  <2>1. Answer(e).code \in Statuses
    BY AnswerType DEF Codes, Statuses
  <2> QED BY <1>1, <1>3, <2>1, WriteMoves
<1> QED BY <1>2, <1>3 DEF HandleError

\* Every step of a request moves it together with the gauge.
LEMMA StepMoves ==
  ASSUME TypeOK, ResponseInv, NEW r \in Requests, StepOf(r)
  PROVE  Moves(r)
<1> USE DEF ctxVars, gauges
<1>0. ResponseOf(r)
  BY DEF ResponseInv
<1>1. CASE Authenticate(r) \/ ReviewToken(r) \/ Impersonate(r) \/ CheckImpersonation(r)
           \/ UpstreamCanceled(r) \/ Upgrade(r)
  <2>1. status[r] = 0 /\ ~hijacked[r] /\ pc[r] \notin {"new", "done"} /\ UNCHANGED input
    BY <1>0, <1>1 DEF Authenticate, ReviewToken, Impersonate, CheckImpersonation,
       UpstreamCanceled, Upgrade, ResponseOf, Before
  <2>2. CASE \E e: HandleError(r, e) /\ UNCHANGED hijacked
    BY <2>1, <2>2, RefusalMoves
  <2>3. CASE UNCHANGED <<status, streams, hijacked>>
    BY <2>1, <2>3 DEF Moves, Streaming
  <2>4. CASE /\ hijacked' = [hijacked EXCEPT ![r] = TRUE]
             /\ streams' = streams + (IF input[r].long THEN 1 ELSE 0)
             /\ Goto(r, "hijacked")
             /\ UNCHANGED status
    <3>1. r \notin Streaming /\ (r \in Streaming' <=> input[r].long)
      BY <2>1, <2>4 DEF Streaming, Goto, TypeOK
    <3>2. streams \in Int
      BY DEF TypeOK
    <3> QED BY <2>4, <3>1, <3>2 DEF Moves
  <2> QED
    BY <1>1, <2>2, <2>3, <2>4 DEF Authenticate, ReviewToken, Impersonate, CheckImpersonation,
       UpstreamCanceled, Upgrade
<1>2. CASE RefuseUpgrade(r) \/ UpstreamFails(r) \/ UpstreamAnswers(r)
  <2>1. status[r] = 0 /\ ~hijacked[r] /\ UNCHANGED <<input, hijacked>>
    BY <1>0, <1>2 DEF RefuseUpgrade, UpstreamFails, UpstreamAnswers, ResponseOf, Before
  <2>2. \E p \in {"defer", "body"}: Goto(r, p)
    BY <1>2 DEF RefuseUpgrade, UpstreamFails, UpstreamAnswers
  <2>3. \E code \in Statuses: WriteHeader(r, code)
    BY <1>2 DEF RefuseUpgrade, UpstreamFails, UpstreamAnswers, Statuses, Answer
  <2>4. pc'[r] \notin {"new", "done"}
    BY <2>2 DEF Goto, TypeOK
  <2> QED BY <2>1, <2>3, <2>4, WriteMoves
<1>3. CASE ServeRequest(r)
  <2>1. r \notin Streaming /\ r \notin Streaming' /\ streams' = streams
    BY <1>0, <1>3 DEF ServeRequest, ResponseOf, Before, Streaming
  <2> QED BY <2>1 DEF Moves
<1>4. CASE RoundTrip(r) \/ StreamEnds(r) \/ CopyFails(r) \/ HandlerPanics(r) \/ ClientGone(r)
  <2>1. pc[r] \notin {"new", "done"} /\ UNCHANGED <<input, status, hijacked, streams>>
    BY <1>4 DEF RoundTrip, StreamEnds, CopyFails, HandlerPanics, ClientGone, InHandler
  <2>2. (\E p \in {"upstream", "defer"}: Goto(r, p)) \/ UNCHANGED pc
    BY <1>4 DEF RoundTrip, StreamEnds, CopyFails, HandlerPanics, ClientGone
  <2>3. pc'[r] \notin {"new", "done"}
    BY <2>1, <2>2 DEF Goto, TypeOK
  <2> QED BY <2>1, <2>3 DEF Moves, Streaming
<1>5. CASE Complete(r)
  <2>1. r \notin Streaming'
    BY <1>5 DEF Complete, Goto, TypeOK, Streaming
  <2>2. status[r] \in Statuses /\ streams \in Int
    BY DEF TypeOK
  <2>3. Established(r) <=> r \in Streaming
    BY <1>5, <2>2, SuccessIs200 DEF Complete, Established, Streaming
  <2>4. streams' = streams - (IF Established(r) THEN 1 ELSE 0)
    BY <1>5 DEF Complete
  <2> QED BY <2>1, <2>2, <2>3, <2>4 DEF Moves
<1> QED BY <1>1, <1>2, <1>3, <1>4, <1>5 DEF StepOf

\* Every step keeps the gauges.
LEMMA GaugesStep == TypeOK /\ ResponseInv /\ GaugesInv /\ [Next]_vars => GaugesInv'
<1> SUFFICES ASSUME TypeOK, ResponseInv, GaugesInv, [Next]_vars PROVE GaugesInv'
  OBVIOUS
<1>1. IsFiniteSet(Busy)' /\ (inFlight = Cardinality(Busy))'
  BY BusyStep
<1>2. IsFiniteSet(Streaming)' /\ (streams = Cardinality(Streaming))'
  <2>1. ASSUME NEW r \in Requests, StepOf(r)
        PROVE  IsFiniteSet(Streaming)' /\ (streams = Cardinality(Streaming))'
    BY <2>1, StepMoves, MovesExact
  <2>2. ASSUME UNCHANGED vars
        PROVE  IsFiniteSet(Streaming)' /\ (streams = Cardinality(Streaming))'
    <3>1. Streaming' = Streaming /\ streams' = streams
      BY <2>2 DEF vars, Streaming
    <3> QED BY <3>1 DEF GaugesInv
  <2> QED BY <2>1, <2>2, NextIsLocal
<1> QED BY <1>1, <1>2 DEF GaugesInv

-----------------------------------------------------------------------------
(* The theorems.                                                           *)

IInv ==
  /\ TypeOK /\ DecisionInv /\ ResponseInv /\ IdentityInv
  /\ ForwardedIdentity /\ TerminalRecordHonest /\ GaugesInv

\* The inductive invariant holds initially.
LEMMA IInvInit == Init => IInv
<1> SUFFICES ASSUME Init PROVE IInv
  OBVIOUS
<1> USE DEF Init, Fresh
<1>1. TypeOK
  BY TypeInit
<1>2. DecisionInv
  BY DEF DecisionInv, DecisionOf, Before, Served
<1>3. ResponseInv
  BY DEF ResponseInv, ResponseOf, Before
<1>4. IdentityInv
  BY DEF IdentityInv, IdentityOf, Before
<1>5. ForwardedIdentity /\ TerminalRecordHonest
  BY DEF ForwardedIdentity, TerminalRecordHonest, NotSent
<1>6. GaugesInv
  <2>1. Busy = {} /\ Streaming = {}
    BY DEF Busy, Streaming
  <2> QED BY <2>1, FS_EmptySet DEF GaugesInv
<1> QED BY <1>1, <1>2, <1>3, <1>4, <1>5, <1>6 DEF IInv

\* Every step keeps it.
LEMMA IInvStep == IInv /\ [Next]_vars => IInv'
BY TypeStep, DecisionStep, ResponseStep, IdentityStep, ForwardedStep, HonestStep, GaugesStep DEF IInv

\* IInv is an invariant.
LEMMA Invariance == Spec => []IInv
BY IInvInit, IInvStep, PTL DEF Spec

\* One access record per request (logDenied, recordDecision), whatever fails
\* after admission; only a handler that panicked leaves none, and a record
\* allows if and only if the API server received the request.
THEOREM DecidesOnce == Spec => []OneAccessDecision
<1>1. IInv => OneAccessDecision
  <2> SUFFICES ASSUME IInv, NEW r \in Requests
               PROVE  /\ Len(decisions[r]) <= 1
                      /\ (pc[r] = "done" /\ panicked[r] # "fault") => Len(decisions[r]) = 1
                      /\ sent[r] # NotSent <=> (decisions[r] # <<>> /\ decisions[r][1].allowed)
    BY DEF OneAccessDecision
  <2>1. DecisionOf(r) /\ pc[r] \in Before \cup Served \cup {"defer", "done"}
    BY DEF IInv, DecisionInv, TypeOK, PCs, Before, Served
  <2>2. CASE decisions[r] = <<>> /\ sent[r] = NotSent /\ (pc[r] = "done" => panicked[r] = "fault")
    <3>1. Len(decisions[r]) = 0
      BY <2>2
    <3> QED BY <2>2, <3>1
  <2>3. CASE DecidedOnce(r)
    BY <2>3, OneDecision DEF DecidedOnce
  <2> QED BY <2>1, <2>2, <2>3 DEF DecisionOf, Before, Served
<1> QED BY <1>1, Invariance, PTL

\* The proxy's own credentials go to the API server only with a named identity
\* that a token mapped to without being reserved, or that the impersonation
\* check admitted; a reviewed token is forwarded as it came (RoundTrip).
THEOREM ForwardsWhoWasAdmitted == Spec => []ForwardedIdentity
<1>1. IInv => ForwardedIdentity
  BY DEF IInv
<1> QED BY <1>1, Invariance, PTL

\* The terminal record of withRequestLifecycle blames the API server, the
\* client or nobody rightly, and a refused request is not recorded a success.
THEOREM RecordsHonestly == Spec => []TerminalRecordHonest
<1>1. IInv => TerminalRecordHonest
  BY DEF IInv
<1> QED BY <1>1, Invariance, PTL

\* The gauges are exact, however many requests come and however they end
\* (RequestStarted, LongRunningEstablished, RequestFinished).
THEOREM CountsExactly == Spec => []GaugesExact
<1>1. IInv => GaugesExact
  BY DEF IInv, GaugesInv, GaugesExact, Busy, Streaming
<1> QED BY <1>1, Invariance, PTL

=============================================================================
