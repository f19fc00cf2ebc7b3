--------------------------- MODULE RequestPipeline ---------------------------
(***************************************************************************)
(* The life of a proxied request: the handler chain of                     *)
(* pkg/proxy/handlers.go (withHandlers), the RoundTrip of proxy.go, the    *)
(* error handler, the lifecycle filter of lifecycle.go, the access record  *)
(* of logging/accesslog.go, the audit chains of audit/ and the request     *)
(* gauges of pkg/metrics/request.go.                                       *)
(*                                                                         *)
(* Requests run concurrently and share the gauges.  The client may hang up *)
(* and the API server may fail or reset at any point; a handler may panic. *)
(* The impersonation check is abstract here: SubjectAccessReview says what *)
(* it may return.                                                          *)
(***************************************************************************)
EXTENDS Integers, Sequences, FiniteSets

CONSTANTS
  Requests,
  Inputs,                 \* what a client may send, see InputOK
  Targets,                \* identities a client may ask to impersonate
  ReservedNames,          \* user names with the "system:" prefix
  ReservedGroups,         \* groups with the "system:" prefix
  AllAuthenticated,       \* "system:authenticated"
  AllowedReservedGroups,  \* --allowed-reserved-groups
  DisableImpersonation,   \* --disable-impersonation
  TokenReview             \* --token-passthrough

NoName == ""

\* cred: the bearer token; id: the identity it maps to when it is valid;
\* imp: the request carries Impersonate-* headers; long: watch, exec, logs...
IsIdentity(id) == id = [name |-> id.name, groups |-> id.groups]
InputOK(i) ==
  /\ IsIdentity(i.id)
  /\ i.cred \in {"absent", "invalid", "valid"}
  /\ i.imp \in BOOLEAN
  /\ i.long \in BOOLEAN

ASSUME PipelineAssumption ==
  /\ \A i \in Inputs: InputOK(i)
  /\ \A t \in Targets: IsIdentity(t) /\ t.name # NoName  \* ErrNoImpersonationUserFound otherwise
  /\ AllowedReservedGroups \subseteq ReservedGroups
  /\ AllAuthenticated \in ReservedGroups
  /\ DisableImpersonation \in BOOLEAN
  /\ TokenReview \in BOOLEAN

VARIABLES
  pc,           \* the handler the request is in
  input,        \* the request
  auth,         \* the Authorization header: "token", "none" or "empty"
  impHeaders,   \* the request carries Impersonate-* headers of its client
  method,       \* authMethodKey
  user,         \* the user on the request context
  noImp,        \* context.NoImpersonation
  target,       \* the impersonation target SAR admitted
  decisions,    \* request.access.decided records, in order
  audited,      \* users of the audit events of the request
  sent,         \* what the API server received
  status,       \* responseRecorder.status; 0: nothing written
  hijacked,     \* responseRecorder.hijacked
  panicked,     \* "no", "abort" (http.ErrAbortHandler) or "fault"
  classified,   \* the termination holder
  broke,        \* the hop to the API server failed (history)
  gone,         \* the client has hung up: the request context is done
  ended,        \* request.response.completed, once
  inFlight,     \* requests_in_flight
  streams       \* long_running_requests

ctxVars == <<auth, impHeaders, method, user, noImp, target>>
gauges == <<inFlight, streams>>
vars == <<pc, input, auth, impHeaders, method, user, noImp, target, decisions, audited, sent,
          status, hijacked, panicked, classified, broke, gone, ended, inFlight, streams>>

NoUser == [name |-> NoName, groups |-> {}]
NotSent == [as |-> "nobody", user |-> NoUser, token |-> "none"]
NotEnded == [term |-> "none", status |-> 0]

Fresh(f, v) == f = [r \in Requests |-> v]

Init ==
  /\ input \in [Requests -> Inputs]
  /\ auth = [r \in Requests |-> IF input[r].cred = "absent" THEN "none" ELSE "token"]
  /\ impHeaders = [r \in Requests |-> input[r].imp]
  /\ Fresh(pc, "new") /\ Fresh(method, "none") /\ Fresh(user, NoUser)
  /\ Fresh(noImp, FALSE) /\ Fresh(target, NoUser) /\ Fresh(decisions, <<>>)
  /\ Fresh(audited, {}) /\ Fresh(sent, NotSent) /\ Fresh(status, 0)
  /\ Fresh(hijacked, FALSE) /\ Fresh(panicked, "no") /\ Fresh(classified, "none")
  /\ Fresh(broke, FALSE) /\ Fresh(gone, FALSE) /\ Fresh(ended, NotEnded)
  /\ inFlight = 0 /\ streams = 0

InHandler(r) == pc[r] \notin {"new", "defer", "done"}

Goto(r, p) == pc' = [pc EXCEPT ![r] = p]

-----------------------------------------------------------------------------
(* Responses and records.                                                  *)

Success(code) == code = 101 \/ (code >= 200 /\ code < 300)

\* responseRecorder.WriteHeader and its onStart: the first final status counts,
\* and a success opens the stream of a long-running request.
WriteHeader(r, code) ==
  IF status[r] # 0 THEN UNCHANGED <<status, streams>>
  ELSE /\ status' = [status EXCEPT ![r] = code]
       /\ streams' = streams + (IF input[r].long /\ Success(code) THEN 1 ELSE 0)

\* recordDecision, LogDecision: the record, and the mark that it exists.
RecordDecision(r, allowed, why, inbound) ==
  decisions' = [decisions EXCEPT ![r] =
    Append(@, [allowed |-> allowed, reason |-> why, method |-> method'[r], inbound |-> inbound])]

\* Fault: logDenied does not ask whether a decision exists.
LogDeniedAlways(r, why) == RecordDecision(r, FALSE, why, user'[r])

\* logDenied: a refusal after admission is not a second decision.
LogDenied(r, why) ==
  IF decisions[r] # <<>> THEN UNCHANGED decisions
  ELSE RecordDecision(r, FALSE, why, user'[r])

\* What the error handler answers to each error, and the reason it records.
\* A canceled request is answered nothing.
Answer(e) ==
  CASE e = "unauthorized" -> [code |-> 401, why |-> "unauthorized"]
    [] e = "reserved_identity" -> [code |-> 403, why |-> "reserved_identity"]
    [] e = "no_name" -> [code |-> 403, why |-> "no_username_claim"]
    [] e = "no_impersonation_user" -> [code |-> 500, why |-> "internal_error"]
    [] e = "too_many_values" -> [code |-> 431, why |-> "too_many_impersonation_values"]
    [] e = "denied" -> [code |-> 403, why |-> "impersonation_denied"]
    [] e = "canceled" -> [code |-> 0, why |-> "client_canceled"]
    [] OTHER -> [code |-> 500, why |-> "internal_error"]

\* The audit chain an answer goes through: 401s through the failed
\* authentication chain (no user), reserved identities through the ordinary one.
AuditOf(r, e) ==
  CASE e = "unauthorized" -> {NoUser}
    [] e = "reserved_identity" -> {user'[r]}
    [] OTHER -> {}

\* newErrorHandler, called with a refusal e.
HandleError(r, e) ==
  /\ LogDenied(r, Answer(e).why)
  /\ audited' = [audited EXCEPT ![r] = @ \cup AuditOf(r, e)]
  /\ IF Answer(e).code = 0 THEN UNCHANGED <<status, streams>> ELSE WriteHeader(r, Answer(e).code)
  /\ Goto(r, "defer")

-----------------------------------------------------------------------------
(* The chain.                                                              *)

\* withRequestID, withRequestLifecycle, withSanitizedForwardHeaders.
ServeRequest(r) ==
  /\ pc[r] = "new"
  /\ Goto(r, "authn")
  /\ inFlight' = inFlight + 1
  /\ UNCHANGED <<input, ctxVars, decisions, audited, sent, status, hijacked, panicked,
                 classified, broke, gone, ended, streams>>

\* Fault: groups are not examined.
ReservedNameOnly(id) == id.name \in ReservedNames

\* checkReservedIdentity.
Reserved(id) ==
  \/ id.name \in ReservedNames
  \/ (id.groups \cap ReservedGroups) \ (AllowedReservedGroups \cup {AllAuthenticated}) # {}

\* withAuthenticateRequest.  A valid token is removed from the request by the
\* authenticator; one that fails goes to withTokenReview.
Authenticate(r) ==
  LET i == input[r] IN
  /\ pc[r] = "authn"
  /\ \/ /\ i.cred = "absent" \/ (i.cred = "invalid" /\ ~TokenReview)
        /\ UNCHANGED ctxVars
        /\ HandleError(r, "unauthorized")
     \/ /\ i.cred = "invalid" /\ TokenReview
        /\ Goto(r, "review")
        /\ UNCHANGED <<ctxVars, decisions, audited, status, streams>>
     \/ /\ i.cred = "valid"
        /\ auth' = [auth EXCEPT ![r] = "none"]
        /\ method' = [method EXCEPT ![r] = "oidc"]
        /\ user' = [user EXCEPT ![r] = i.id]
        /\ UNCHANGED <<impHeaders, noImp, target>>
        /\ IF Reserved(i.id) THEN HandleError(r, "reserved_identity")
           ELSE Goto(r, "impersonate") /\ UNCHANGED <<decisions, audited, status, streams>>
  /\ UNCHANGED <<input, sent, hijacked, panicked, classified, broke, gone, ended, inFlight>>

\* withTokenReview, reviewToken: a rejection and a failed review both refuse.
ReviewToken(r) ==
  /\ pc[r] = "review"
  /\ \/ /\ method' = [method EXCEPT ![r] = "tokenreview"]
        /\ noImp' = [noImp EXCEPT ![r] = TRUE]
        /\ Goto(r, "impersonate")
        /\ UNCHANGED <<auth, impHeaders, user, target, decisions, audited, status, streams>>
     \/ UNCHANGED ctxVars /\ HandleError(r, "unauthorized")
  /\ UNCHANGED <<input, sent, hijacked, panicked, classified, broke, gone, ended, inFlight>>

\* withImpersonateRequest, up to the impersonation check.
Impersonate(r) ==
  /\ pc[r] = "impersonate"
  /\ \/ /\ noImp[r] \/ DisableImpersonation
        /\ noImp' = [noImp EXCEPT ![r] = TRUE]
        /\ Goto(r, "forward")
        /\ UNCHANGED <<auth, impHeaders, method, user, target, decisions, audited, status, streams>>
     \/ /\ ~noImp[r] /\ ~DisableImpersonation
        /\ user[r].name = NoName
        /\ UNCHANGED ctxVars
        /\ HandleError(r, "no_name")
     \/ /\ ~noImp[r] /\ ~DisableImpersonation
        /\ user[r].name # NoName
        /\ Goto(r, IF impHeaders[r] THEN "sar" ELSE "forward")
        /\ UNCHANGED <<ctxVars, decisions, audited, status, streams>>
  /\ UNCHANGED <<input, sent, hijacked, panicked, classified, broke, gone, ended, inFlight>>

\* The outcomes of SubjectAccessReview that refuse the request.
Refusals == {"denied", "too_many_values", "no_impersonation_user", "unknown_header", "api",
             "canceled", "expired"}

\* Fault: the headers stay on the request.
HeadersKept(r) == impHeaders

\* The end of CheckAuthorizedForImpersonation: an admitted request loses the
\* impersonation headers of its client.
HeadersRemoved(r) == [impHeaders EXCEPT ![r] = FALSE]

\* CheckAuthorizedForImpersonation returns; WithImpersonationConfig puts an
\* admitted target on the context in place of the user.
CheckImpersonation(r) ==
  /\ pc[r] = "sar"
  /\ \/ \E t \in Targets:
          /\ target' = [target EXCEPT ![r] = t]
          /\ user' = [user EXCEPT ![r] = t]
          /\ impHeaders' = HeadersRemoved(r)
          /\ Goto(r, "forward")
          /\ UNCHANGED <<auth, method, noImp, decisions, audited, status, streams>>
     \/ \E e \in Refusals: UNCHANGED ctxVars /\ HandleError(r, e)
  /\ UNCHANGED <<input, sent, hijacked, panicked, classified, broke, gone, ended, inFlight>>

\* httputil.ReverseProxy refuses an invalid upgrade before the round trip.
RefuseUpgrade(r) ==
  /\ pc[r] = "forward"
  /\ UNCHANGED ctxVars
  /\ LogDenied(r, Answer("bad_upgrade").why)
  /\ audited' = [audited EXCEPT ![r] = @ \cup {user[r]}]
  /\ WriteHeader(r, Answer("bad_upgrade").code)
  /\ Goto(r, "defer")
  /\ UNCHANGED <<input, sent, hijacked, panicked, classified, broke, gone, ended, inFlight>>

\* The transport RoundTrip uses: the proxy's credentials go only with
\* impersonation headers.
Transport(r) == IF noImp[r] THEN "client" ELSE "proxy"

\* The identity of the impersonation headers: transport.NewImpersonatingRoundTripper
\* gets the user's groups and "system:authenticated".
WithAuthenticated(id) == [name |-> id.name, groups |-> id.groups \cup {AllAuthenticated}]

\* The identity the proxy's round tripper puts on the request: none if it is not
\* used, and none if the request has impersonation headers already, since the
\* round tripper then sends it as it is.
Impersonated(r) ==
  IF noImp[r] \/ impHeaders[r] THEN NoUser ELSE WithAuthenticated(user[r])

\* context.BearerToken: the token WithBearerToken put on the context.  No
\* handler calls WithBearerToken, so there is never one.
BearerToken(r) == "empty"

\* The audit filter and RoundTrip: the decision is recorded, then the request
\* goes to the API server.  Authorization gets BearerToken added when the
\* request is not impersonated; the server reads the first value.
RoundTrip(r) ==
  /\ pc[r] = "forward"
  /\ auth' = [auth EXCEPT ![r] = IF noImp[r] /\ @ = "none" THEN BearerToken(r) ELSE @]
  /\ UNCHANGED <<impHeaders, method, user, noImp, target>>
  /\ RecordDecision(r, TRUE, "none", IF target[r] = NoUser THEN user[r] ELSE input[r].id)
  /\ audited' = [audited EXCEPT ![r] = @ \cup {user[r]}]
  /\ sent' = [sent EXCEPT ![r] =
       [as |-> Transport(r), user |-> Impersonated(r), token |-> auth'[r]]]
  /\ Goto(r, "upstream")
  /\ UNCHANGED <<input, status, streams, hijacked, panicked, classified, broke, gone, ended,
                 inFlight>>

\* The hop fails: the error handler classifies the termination, answers 502
\* and records no decision.
UpstreamFails(r) ==
  /\ pc[r] = "upstream"
  /\ \E t \in {"upstream_timeout", "upstream_reset", "proxy_error"}:
       classified' = [classified EXCEPT ![r] = t]
  /\ broke' = [broke EXCEPT ![r] = TRUE]
  /\ WriteHeader(r, 502)
  /\ Goto(r, "defer")
  /\ UNCHANGED <<input, ctxVars, decisions, audited, sent, hijacked, panicked, gone, ended,
                 inFlight>>

\* The round trip ends because the client hung up.
UpstreamCanceled(r) ==
  /\ pc[r] = "upstream" /\ gone[r]
  /\ UNCHANGED ctxVars
  /\ HandleError(r, "canceled")
  /\ UNCHANGED <<input, sent, hijacked, panicked, classified, broke, gone, ended, inFlight>>

\* The API server answers.
UpstreamAnswers(r) ==
  /\ pc[r] = "upstream"
  /\ \E code \in {200, 403}: WriteHeader(r, code)
  /\ Goto(r, "body")
  /\ UNCHANGED <<input, ctxVars, decisions, audited, sent, hijacked, panicked, classified,
                 broke, gone, ended, inFlight>>

\* 101: the reverse proxy hijacks the connection, or fails to and answers 500.
Upgrade(r) ==
  /\ pc[r] = "upstream"
  /\ \/ /\ hijacked' = [hijacked EXCEPT ![r] = TRUE]
        /\ streams' = streams + (IF input[r].long THEN 1 ELSE 0)
        /\ Goto(r, "hijacked")
        /\ UNCHANGED <<ctxVars, decisions, audited, status>>
     \/ UNCHANGED <<ctxVars, hijacked>> /\ HandleError(r, "hijack_failed")
  /\ UNCHANGED <<input, sent, panicked, classified, broke, gone, ended, inFlight>>

\* The body, or the hijacked stream, ends.
StreamEnds(r) ==
  /\ pc[r] \in {"body", "hijacked"}
  /\ Goto(r, "defer")
  /\ UNCHANGED <<input, ctxVars, decisions, audited, sent, status, hijacked, panicked,
                 classified, broke, gone, ended, gauges>>

\* Fault: a client that hangs up does not end the copy.
CopyFailsUpstreamOnly(r) ==
  /\ pc[r] = "body" /\ ~gone[r]
  /\ broke' = [broke EXCEPT ![r] = TRUE]
  /\ panicked' = [panicked EXCEPT ![r] = "abort"]
  /\ Goto(r, "defer")
  /\ UNCHANGED <<input, ctxVars, decisions, audited, sent, status, hijacked, classified,
                 gone, ended, gauges>>

\* The copy of the body fails, upstream or towards a client that is gone: the
\* reverse proxy panics with http.ErrAbortHandler.
CopyFails(r) ==
  /\ pc[r] = "body"
  /\ \/ gone[r] /\ UNCHANGED broke
     \/ broke' = [broke EXCEPT ![r] = TRUE]
  /\ panicked' = [panicked EXCEPT ![r] = "abort"]
  /\ Goto(r, "defer")
  /\ UNCHANGED <<input, ctxVars, decisions, audited, sent, status, hijacked, classified,
                 gone, ended, gauges>>

HandlerPanics(r) ==
  /\ InHandler(r)
  /\ panicked' = [panicked EXCEPT ![r] = "fault"]
  /\ Goto(r, "defer")
  /\ UNCHANGED <<input, ctxVars, decisions, audited, sent, status, hijacked, classified,
                 broke, gone, ended, gauges>>

ClientGone(r) ==
  /\ InHandler(r) /\ ~gone[r]
  /\ gone' = [gone EXCEPT ![r] = TRUE]
  /\ UNCHANGED <<pc, input, ctxVars, decisions, audited, sent, status, hijacked, panicked,
                 classified, broke, ended, gauges>>

\* Fault: the classified termination is preferred to the client's.
TerminationClassifiedFirst(r) ==
  CASE panicked[r] = "fault" -> "panic"
    [] hijacked[r] -> "hijacked"
    [] classified[r] # "none" -> classified[r]
    [] gone[r] -> "client_cancel"
    [] panicked[r] = "abort" -> "upstream_reset"
    [] OTHER -> "normal"

\* The deferred function of withRequestLifecycle: how the request ended.
Termination(r) ==
  IF panicked[r] = "fault" THEN "panic"
  ELSE IF hijacked[r] THEN "hijacked"
  ELSE IF gone[r] THEN "client_cancel"
  ELSE IF panicked[r] = "abort" THEN "upstream_reset"
  ELSE IF classified[r] # "none" THEN classified[r]
  ELSE "normal"

\* A handler that wrote nothing is answered 200 by net/http.
FinalStatus(r) ==
  IF status[r] = 0 /\ ~hijacked[r] /\ panicked[r] = "no" THEN 200 ELSE status[r]

\* LongRunningEstablished was called for this request.
Established(r) == input[r].long /\ (hijacked[r] \/ Success(status[r]))

\* Fault: the gauges are released only by a handler that returned.
CompleteLeaks(r) ==
  /\ pc[r] = "defer"
  /\ ended' = [ended EXCEPT ![r] = [term |-> Termination(r), status |-> FinalStatus(r)]]
  /\ inFlight' = inFlight - 1
  /\ streams' = streams - (IF Established(r) /\ panicked[r] = "no" THEN 1 ELSE 0)
  /\ Goto(r, "done")
  /\ UNCHANGED <<input, ctxVars, decisions, audited, sent, status, hijacked, panicked,
                 classified, broke, gone>>

\* The deferred function: terminal record, RequestFinished.
Complete(r) ==
  /\ pc[r] = "defer"
  /\ ended' = [ended EXCEPT ![r] = [term |-> Termination(r), status |-> FinalStatus(r)]]
  /\ inFlight' = inFlight - 1
  /\ streams' = streams - (IF Established(r) THEN 1 ELSE 0)
  /\ Goto(r, "done")
  /\ UNCHANGED <<input, ctxVars, decisions, audited, sent, status, hijacked, panicked,
                 classified, broke, gone>>

\* No request is being served.
AtRest == (\A r \in Requests: pc[r] \in {"new", "done"}) /\ UNCHANGED vars

Next ==
  \/ \E r \in Requests:
       \/ ServeRequest(r) \/ Authenticate(r) \/ ReviewToken(r) \/ Impersonate(r)
       \/ CheckImpersonation(r) \/ RefuseUpgrade(r) \/ RoundTrip(r)
       \/ UpstreamFails(r) \/ UpstreamCanceled(r) \/ UpstreamAnswers(r) \/ Upgrade(r)
       \/ StreamEnds(r) \/ CopyFails(r) \/ HandlerPanics(r) \/ ClientGone(r) \/ Complete(r)
  \/ AtRest

Spec == Init /\ [][Next]_vars

\* Handlers run; the reviews they wait for are bounded by their timeouts; a
\* canceled context ends the round trip, the copy and the hijacked stream.
\* Nothing is assumed of an API server whose client is still waiting.
Fairness ==
  \A r \in Requests:
    /\ WF_vars(Authenticate(r) \/ ReviewToken(r) \/ Impersonate(r) \/ CheckImpersonation(r)
               \/ RoundTrip(r) \/ Complete(r))
    /\ WF_vars(UpstreamCanceled(r))
    /\ WF_vars(gone[r] /\ CopyFails(r))
    /\ WF_vars(gone[r] /\ hijacked[r] /\ StreamEnds(r))

FairSpec == Spec /\ Fairness

-----------------------------------------------------------------------------
(* Properties.                                                             *)

PCs == {"new", "authn", "review", "impersonate", "sar", "forward", "upstream", "body",
        "hijacked", "defer", "done"}
Terminations == {"normal", "hijacked", "client_cancel", "panic", "upstream_timeout",
                 "upstream_reset", "proxy_error"}

\* The identities a request can carry.
Ids == {i.id: i \in Inputs} \cup Targets \cup {NoUser}

Denials == {"unauthorized", "reserved_identity", "no_username_claim", "internal_error",
            "too_many_impersonation_values", "impersonation_denied", "client_canceled"}
Decisions == [allowed: BOOLEAN, reason: Denials \cup {"none"},
              method: {"none", "oidc", "tokenreview"}, inbound: Ids]
Forwards == [as: {"nobody", "client", "proxy"},
             user: {NoUser} \cup {WithAuthenticated(id): id \in Ids},
             token: {"token", "none", "empty"}]
Statuses == {0, 200, 401, 403, 431, 500, 502}

\* Type invariant of the request state.
TypeOK ==
  /\ pc \in [Requests -> PCs]
  /\ input \in [Requests -> Inputs]
  /\ auth \in [Requests -> {"token", "none", "empty"}]
  /\ impHeaders \in [Requests -> BOOLEAN]
  /\ method \in [Requests -> {"none", "oidc", "tokenreview"}]
  /\ user \in [Requests -> Ids]
  /\ noImp \in [Requests -> BOOLEAN]
  /\ target \in [Requests -> Targets \cup {NoUser}]
  /\ decisions \in [Requests -> Seq(Decisions)]
  /\ audited \in [Requests -> SUBSET Ids]
  /\ sent \in [Requests -> Forwards]
  /\ status \in [Requests -> Statuses]
  /\ hijacked \in [Requests -> BOOLEAN]
  /\ panicked \in [Requests -> {"no", "abort", "fault"}]
  /\ classified \in [Requests -> Terminations \cup {"none"}]
  /\ broke \in [Requests -> BOOLEAN]
  /\ gone \in [Requests -> BOOLEAN]
  /\ ended \in [Requests -> [term: Terminations \cup {"none"}, status: Statuses]]
  /\ inFlight \in Int
  /\ streams \in Int

\* handlers.go logDenied, proxy.go recordDecision: one access record per
\* request, whatever fails after admission, and it says what happened: an
\* allow if and only if the API server received the request.
OneAccessDecision ==
  \A r \in Requests:
    /\ Len(decisions[r]) <= 1
    /\ (pc[r] = "done" /\ panicked[r] # "fault") => Len(decisions[r]) = 1
    /\ sent[r] # NotSent <=> (decisions[r] # <<>> /\ decisions[r][1].allowed)

\* Who a request acts as: the admitted target, or else whom the token names.
Principal(r) == IF target[r] = NoUser THEN input[r].id ELSE target[r]

\* withImpersonateRequest, withTokenReview, RoundTrip: the proxy's own
\* credentials reach the API server only together with a named identity that
\* the proxy put there, and that is the target the impersonation check admitted
\* or else the one the token mapped to, if that one is not reserved; what a
\* TokenReview admitted is forwarded with its own token.
ForwardedIdentity ==
  \A r \in Requests:
    /\ sent[r].as = "proxy" =>
         /\ sent[r].user.name # NoName
         /\ sent[r].user = WithAuthenticated(Principal(r))
         /\ target[r] = NoUser =>
              /\ input[r].id.name \notin ReservedNames
              /\ sent[r].user.groups \cap ReservedGroups
                   \subseteq AllowedReservedGroups \cup {AllAuthenticated}
    /\ sent[r] # NotSent /\ method[r] = "tokenreview" =>
         sent[r].as = "client" /\ sent[r].token = "token"

\* withRequestLifecycle: the terminal record blames the API server only if the
\* hop failed while the client was there, and the client only if it hung up;
\* a refused request is never recorded as a success unless it was canceled.
TerminalRecordHonest ==
  \A r \in Requests: pc[r] = "done" =>
    /\ ended[r].term \in {"upstream_timeout", "upstream_reset", "proxy_error"} =>
         broke[r] /\ ~gone[r]
    /\ ended[r].term = "client_cancel" => gone[r]
    /\ (decisions[r] # <<>> /\ ~decisions[r][1].allowed /\ panicked[r] = "no"
         /\ decisions[r][1].reason # "client_canceled") => ended[r].status >= 400

\* RequestStarted, RequestFinished: however requests end, panics included, the
\* gauges count the requests in the chain and the long-running ones among them
\* whose response has begun successfully.
GaugesExact ==
  /\ inFlight = Cardinality({r \in Requests: pc[r] \notin {"new", "done"}})
  /\ streams = Cardinality({r \in Requests:
       /\ pc[r] \notin {"new", "done"} /\ input[r].long
       /\ hijacked[r] \/ status[r] = 200})

\* A request whose client has hung up leaves the chain, and its gauges with it.
AbandonedRequestsEnd == \A r \in Requests: gone[r] ~> pc[r] = "done"

\* docs/authentication.md: with --disable-impersonation "The OIDC bearer token
\* stays in the request."
TokenStays ==
  \A r \in Requests: (sent[r] # NotSent /\ noImp[r]) => sent[r].token = "token"

\* docs/auditing.md: the proxy's audit log sees "every request that reached the
\* proxy".
EveryRequestAudited ==
  \A r \in Requests: (pc[r] = "done" /\ panicked[r] = "no") => audited[r] # {}

=============================================================================
