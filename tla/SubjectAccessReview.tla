------------------------- MODULE SubjectAccessReview -------------------------
(***************************************************************************)
(* Authorization of inbound impersonation headers:                         *)
(* pkg/proxy/subjectaccessreview (subjectaccessreview.go, cache.go).       *)
(*                                                                         *)
(* A request that carries Impersonate-* headers asks one question per      *)
(* header value.  A question is answered from a decision cache, or by a    *)
(* live SubjectAccessReview that concurrent callers share (singleflight),  *)
(* or by a direct live call.  All questions of one request spend one       *)
(* shared time budget.  The API server, the RBAC rules it evaluates, the   *)
(* clients that hang up and the clock are the environment.                 *)
(***************************************************************************)
EXTENDS Integers, Sequences, FiniteSets

CONSTANTS
  Requests,         \* the inbound requests
  Users,            \* authenticated requesters
  Names,            \* impersonation header values
  Shapes,           \* the inbound impersonation headers a client may send
  Questions,        \* the reviews such requests can ask for
  Oversized,        \* questions whose serialized spec exceeds maxCacheKeySize
  AllowTTL,         \* --subject-access-review-cache-allow-ttl (0: not cached)
  DenyTTL,          \* --subject-access-review-cache-deny-ttl (0: not cached)
  SarTimeout,       \* the budget of one request
  MaxHeaderValues,  \* cap on the impersonation values of one request
  CacheSize,        \* decisionCacheSize
  Horizon,          \* model bound: the last instant of the clock
  MaxChanges        \* model bound: how often the RBAC rules change

\* Resources a review can be about: one per kind of Impersonate- header.
Resources == {"users", "groups", "uids", "userextras"}
HeaderKeys == Resources \cup {"unknown"}

\* impersonationReviewSpec: the question, and the cache key, of one value.
ReviewSpec(u, k, v) == [user |-> u, resource |-> k, name |-> v]

ASSUME ConstantsAssumption ==
  /\ AllowTTL \in Nat
  /\ DenyTTL \in Nat
  /\ SarTimeout \in Nat \ {0}
  /\ MaxHeaderValues \in Nat \ {0}
  /\ CacheSize \in Nat \ {0}
  /\ Horizon \in Nat
  /\ MaxChanges \in Nat
  /\ Oversized \subseteq Questions
  /\ Shapes \subseteq [HeaderKeys -> Seq(Names)]
  /\ \A u \in Users, h \in Shapes, k \in Resources:
       \A i \in DOMAIN h[k]: ReviewSpec(u, k, h[k][i]) \in Questions
  /\ Questions # {}
  /\ "none" \notin Requests

VARIABLES
  now,        \* the clock
  grants,     \* questions the RBAC rules allow at this instant
  changes,    \* how often they have changed
  lastTrue,   \* per question, the last instant at which it was allowed
  lastFalse,  \* per question, the last instant at which it was not
  cache,      \* decisionCache.lru
  flight,     \* singleflight.Group: the calls in flight
  call,       \* the live review made on a request's context
  pc,         \* where the request's goroutine is
  inbound,    \* requester and impersonation headers of the request
  left,       \* header values not yet consumed by the loop over req.Header
  question,   \* the question being checked
  verdict,    \* what checkRbacImpersonationAuthorization returned
  target,     \* targetUser: the values authorized so far
  outcome,    \* what CheckAuthorizedForImpersonation returned
  arrived,    \* when the request entered the check
  deadline,   \* deadline of the authorization context
  ctx,        \* state of the authorization context
  gone,       \* the requester's own context is done
  inbox,      \* the channel DoChan returned to the request
  asked,      \* questions that needed a live check
  recorded,   \* terminal records emitted for them
  reason      \* reason of the last terminal record

envVars == <<now, grants, changes, lastTrue, lastFalse>>
walkVars == <<inbound, left, question, target, outcome, arrived, deadline>>
obsVars == <<asked, recorded, reason>>
vars == <<now, grants, changes, lastTrue, lastFalse, cache, flight, call, pc, inbound,
          left, question, verdict, target, outcome, arrived, deadline, ctx,
          gone, inbox, asked, recorded, reason>>

CtxErrors == {"canceled", "expired"}
Answers == {"allow", "deny", "api"} \cup CtxErrors
NoAnswer == "none"
NoRequest == "none"

\* A question never allowed (or never denied) is older than every bound.
Never == -(AllowTTL + DenyTTL + SarTimeout + 1)

NoFlight == [leader |-> NoRequest, members |-> {}]
NoEntry == [allowed |-> FALSE, expires |-> -1]
Idle == [stage |-> "idle", answer |-> NoAnswer]
Sent == [stage |-> "sent", answer |-> NoAnswer]
NoResult == [answer |-> NoAnswer, shared |-> FALSE]

-----------------------------------------------------------------------------
(* The walk over the impersonation headers.                                *)

\* countImpersonationHeaderValues: every value of every impersonation header.
HeaderValueCount(h) ==
  Len(h["users"]) + Len(h["groups"]) + Len(h["uids"]) + Len(h["userextras"])
    + Len(h["unknown"])

HasImpersonation(h) == \E k \in HeaderKeys: h[k] # <<>>
HasImpersonatedUser(h) == h["users"] # <<>> /\ Head(h["users"]) # ""

\* Fault: only the first value of every header is consumed.
ConsumedFirstOnly(h) ==
  [k \in HeaderKeys |-> IF h[k] # <<>> THEN <<Head(h[k])>> ELSE h[k]]

\* The values the loop consumes: the first of Impersonate-User and of
\* Impersonate-Uid, every one of the others.
Consumed(h) ==
  [k \in HeaderKeys |->
     IF k \in {"users", "uids"} /\ h[k] # <<>> THEN <<Head(h[k])>> ELSE h[k]]

\* Go iterates the header map in any order, and finishes the values of a key
\* before it takes the next one.
PartlyWalked(r) ==
  {k \in HeaderKeys: left[r][k] # <<>> /\ left[r][k] # Consumed(inbound[r].headers)[k]}
NextKeys(r) ==
  IF PartlyWalked(r) # {} THEN PartlyWalked(r)
  ELSE {k \in HeaderKeys: left[r][k] # <<>>}

\* decisionCache.key: no cache at all, or a key that is too large.
Cacheable(q) == (AllowTTL > 0 \/ DenyTTL > 0) /\ q \notin Oversized

\* Fault: the expiry of allows is not tested ...
HitStaleAllow(q) == cache[q] # NoEntry /\ (cache[q].allowed \/ now <= cache[q].expires)

\* Fault: ... or that of denials.
HitStaleDeny(q) == cache[q] # NoEntry /\ (~cache[q].allowed \/ now <= cache[q].expires)

\* decisionCache.get: an entry is served up to and including its expiry time.
Hit(q) == cache[q] # NoEntry /\ now <= cache[q].expires

\* CheckAuthorizedForImpersonation returns: its deferred cancel ends the context.
Finish(r, o) ==
  /\ pc' = [pc EXCEPT ![r] = "done"]
  /\ outcome' = [outcome EXCEPT ![r] = o]
  /\ ctx' = [ctx EXCEPT ![r] = IF @ = "live" THEN "canceled" ELSE @]

\* Fault: the error text is recorded in place of a classified reason.
ObserveUnclassified(r, a) ==
  /\ recorded' = [recorded EXCEPT ![r] = @ + 1]
  /\ reason' = [reason EXCEPT ![r] = a]

\* Fault: every context error is taken for the client's.
ObserveBlamesClient(r, a) ==
  /\ recorded' = [recorded EXCEPT ![r] = @ + 1]
  /\ reason' = [reason EXCEPT ![r] =
        IF a \in {"allow", "deny"} THEN "completed"
        ELSE IF a \in CtxErrors THEN "client_canceled"
        ELSE "authorization_dependency_error"]

\* observeLiveCheck: one terminal record.  A context error is the client's
\* when the requester's own context is done, otherwise the dependency's.
ObserveLiveCheck(r, a) ==
  /\ recorded' = [recorded EXCEPT ![r] = @ + 1]
  /\ reason' = [reason EXCEPT ![r] =
        IF a \in {"allow", "deny"} THEN "completed"
        ELSE IF a \in CtxErrors /\ gone[r] THEN "client_canceled"
        ELSE "authorization_dependency_error"]

\* checkRbacImpersonationAuthorization returns a.
Return(r, a) ==
  /\ verdict' = [verdict EXCEPT ![r] = a]
  /\ pc' = [pc EXCEPT ![r] = "verdict"]

Init ==
  /\ now = 0
  /\ grants \in SUBSET Questions
  /\ changes = 0
  /\ lastTrue = [q \in Questions |-> IF q \in grants THEN 0 ELSE Never]
  /\ lastFalse = [q \in Questions |-> IF q \in grants THEN Never ELSE 0]
  /\ cache = [q \in Questions |-> NoEntry]
  /\ flight = [q \in Questions |-> NoFlight]
  /\ call = [r \in Requests |-> Idle]
  /\ pc = [r \in Requests |-> "new"]
  /\ inbound \in [Requests -> [user: Users, headers: Shapes]]
  /\ left = [r \in Requests |-> Consumed(inbound[r].headers)]
  /\ question = [r \in Requests |-> CHOOSE q \in Questions: TRUE]
  /\ verdict = [r \in Requests |-> NoAnswer]
  /\ target = [r \in Requests |-> {}]
  /\ outcome = [r \in Requests |-> "none"]
  /\ arrived = [r \in Requests |-> 0]
  /\ deadline = [r \in Requests |-> 0]
  /\ ctx = [r \in Requests |-> "live"]
  /\ gone = [r \in Requests |-> FALSE]
  /\ inbox = [r \in Requests |-> NoResult]
  /\ asked = [r \in Requests |-> 0]
  /\ recorded = [r \in Requests |-> 0]
  /\ reason = [r \in Requests |-> "none"]

\* CheckAuthorizedForImpersonation is entered: the cap is enforced before
\* anything is spent, then the shared budget starts.
Arrive(r) ==
  LET h == inbound[r].headers IN
  /\ pc[r] = "new"
  /\ now + SarTimeout <= Horizon
  /\ arrived' = [arrived EXCEPT ![r] = now]
  /\ deadline' = [deadline EXCEPT ![r] = now + SarTimeout]
  /\ \/ /\ HeaderValueCount(h) > MaxHeaderValues
        /\ Finish(r, "too_many_values")
     \/ /\ HeaderValueCount(h) <= MaxHeaderValues
        /\ HasImpersonation(h) /\ ~HasImpersonatedUser(h)
        /\ Finish(r, "no_impersonation_user")
     \/ /\ HeaderValueCount(h) <= MaxHeaderValues
        /\ HasImpersonation(h) => HasImpersonatedUser(h)
        /\ pc' = [pc EXCEPT ![r] = "walk"]
        /\ UNCHANGED <<outcome, ctx>>
  /\ UNCHANGED <<envVars, cache, flight, call, inbound, left, question, verdict,
                 target, gone, inbox, obsVars>>

\* Fault: every question restarts the budget.
NextHeaderValueRebudgeted(r) ==
  /\ pc[r] = "walk"
  /\ \E k \in NextKeys(r) \ {"unknown"}:
       /\ question' = [question EXCEPT ![r] =
                         ReviewSpec(inbound[r].user, k, Head(left[r][k]))]
       /\ left' = [left EXCEPT ![r][k] = Tail(@)]
  /\ pc' = [pc EXCEPT ![r] = "lookup"]
  /\ deadline' = [deadline EXCEPT ![r] = now + SarTimeout]
  /\ UNCHANGED <<envVars, cache, flight, call, inbound, verdict, target, outcome,
                 arrived, ctx, gone, inbox, obsVars>>

\* The loop takes the next header value.
NextHeaderValue(r) ==
  /\ pc[r] = "walk"
  /\ \E k \in NextKeys(r) \ {"unknown"}:
       /\ question' = [question EXCEPT ![r] =
                         ReviewSpec(inbound[r].user, k, Head(left[r][k]))]
       /\ left' = [left EXCEPT ![r][k] = Tail(@)]
  /\ pc' = [pc EXCEPT ![r] = "lookup"]
  /\ UNCHANGED <<envVars, cache, flight, call, inbound, verdict, target, outcome,
                 arrived, deadline, ctx, gone, inbox, obsVars>>

\* The loop meets a header it does not know, or has none left.
EndWalk(r) ==
  /\ pc[r] = "walk"
  /\ \/ "unknown" \in NextKeys(r) /\ Finish(r, "unknown_header")
     \/ /\ NextKeys(r) = {}
        /\ Finish(r, IF HasImpersonation(inbound[r].headers) THEN "admitted"
                     ELSE "no_impersonation")
  /\ UNCHANGED <<envVars, cache, flight, call, inbound, left, question, verdict,
                 target, arrived, deadline, gone, inbox, obsVars>>

\* What the loop does with an answer: the first denial or error ends it.
UseVerdict(r) ==
  /\ pc[r] = "verdict"
  /\ \/ /\ verdict[r] = "allow"
        /\ target' = [target EXCEPT ![r] = @ \cup {question[r]}]
        /\ pc' = [pc EXCEPT ![r] = "walk"]
        /\ UNCHANGED <<outcome, ctx>>
     \/ /\ verdict[r] = "deny"
        /\ Finish(r, "denied")
        /\ UNCHANGED target
     \/ /\ verdict[r] \in {"api"} \cup CtxErrors
        /\ Finish(r, verdict[r])
        /\ UNCHANGED target
  /\ verdict' = [verdict EXCEPT ![r] = NoAnswer]
  /\ UNCHANGED <<envVars, cache, flight, call, inbound, left, question, arrived,
                 deadline, gone, inbox, obsVars>>

-----------------------------------------------------------------------------
(* One question: the cache, the shared flight, the direct call.            *)

\* The cache is not consulted: timedLiveCheck on the request's own context.
Bypass(r) ==
  /\ pc[r] = "lookup" /\ ~Cacheable(question[r])
  /\ call' = [call EXCEPT ![r] = Sent]
  /\ pc' = [pc EXCEPT ![r] = "direct"]
  /\ asked' = [asked EXCEPT ![r] = @ + 1]
  /\ UNCHANGED <<envVars, cache, flight, walkVars, verdict, ctx, gone, inbox,
                 recorded, reason>>

CacheHit(r) ==
  /\ pc[r] = "lookup" /\ Cacheable(question[r]) /\ Hit(question[r])
  /\ Return(r, IF cache[question[r]].allowed THEN "allow" ELSE "deny")
  /\ UNCHANGED <<envVars, cache, flight, call, walkVars, ctx, gone, inbox, obsVars>>

\* An expired entry is removed by the lookup that finds it.
CacheMiss(r) ==
  /\ pc[r] = "lookup" /\ Cacheable(question[r]) /\ ~Hit(question[r])
  /\ cache' = [cache EXCEPT ![question[r]] = NoEntry]
  /\ pc' = [pc EXCEPT ![r] = "miss"]
  /\ asked' = [asked EXCEPT ![r] = @ + 1]
  /\ UNCHANGED <<envVars, flight, call, walkVars, verdict, ctx, gone, inbox,
                 recorded, reason>>

\* flight.DoChan: join the call in flight for this key, or lead a new one.
DoChan(r) ==
  LET q == question[r] IN
  /\ pc[r] = "miss"
  /\ \/ /\ flight[q] = NoFlight
        /\ flight' = [flight EXCEPT ![q] = [leader |-> r, members |-> {r}]]
        /\ call' = [call EXCEPT ![r] = Sent]
     \/ /\ flight[q] # NoFlight
        /\ flight' = [flight EXCEPT ![q].members = @ \cup {r}]
        /\ UNCHANGED call
  /\ pc' = [pc EXCEPT ![r] = "waiting"]
  /\ UNCHANGED <<envVars, cache, walkVars, verdict, ctx, gone, inbox, obsVars>>

\* The select in sharedLiveCheck takes ctx.Done: the flight goes on without r.
OwnContextDone(r) ==
  /\ pc[r] = "waiting" /\ ctx[r] # "live"
  /\ ObserveLiveCheck(r, ctx[r])
  /\ Return(r, ctx[r])
  /\ inbox' = [inbox EXCEPT ![r] = NoResult]
  /\ UNCHANGED <<envVars, cache, flight, call, walkVars, ctx, gone, asked>>

\* Fault: an expired leader is not recognised, only a canceled one.
MustRetryCanceledOnly(r) ==
  inbox[r].answer = "canceled" /\ inbox[r].shared /\ ctx[r] = "live"

\* A shared flight that failed with a context error, seen by a request whose
\* own context is live, is retried with a direct check.
MustRetry(r) ==
  inbox[r].answer \in CtxErrors /\ inbox[r].shared /\ ctx[r] = "live"

\* The select takes the flight's result.
FlightResult(r) ==
  /\ pc[r] = "waiting" /\ inbox[r] # NoResult
  /\ inbox' = [inbox EXCEPT ![r] = NoResult]
  /\ \/ /\ MustRetry(r)
        /\ call' = [call EXCEPT ![r] = Sent]
        /\ pc' = [pc EXCEPT ![r] = "direct"]
        /\ UNCHANGED <<verdict, recorded, reason>>
     \/ /\ ~MustRetry(r)
        /\ ObserveLiveCheck(r, inbox[r].answer)
        /\ Return(r, inbox[r].answer)
        /\ UNCHANGED call
  /\ UNCHANGED <<envVars, cache, flight, walkVars, ctx, gone, asked>>

\* timedLiveCheck returns.
DirectResult(r) ==
  /\ pc[r] = "direct" /\ call[r].stage \in {"answered", "failed"}
  /\ ObserveLiveCheck(r, call[r].answer)
  /\ Return(r, call[r].answer)
  /\ call' = [call EXCEPT ![r] = Idle]
  /\ UNCHANGED <<envVars, cache, flight, walkVars, ctx, gone, inbox, asked>>

\* decisionCache.put: the class's TTL decides whether and how long; a full
\* LRU drops another entry.
TTL(allowed) == IF allowed THEN AllowTTL ELSE DenyTTL

Put(q, allowed) ==
  IF TTL(allowed) = 0
  THEN UNCHANGED cache
  ELSE LET entry == [allowed |-> allowed, expires |-> now + TTL(allowed)]
           others == {p \in Questions \ {q}: cache[p] # NoEntry}
       IN IF cache[q] = NoEntry /\ Cardinality(others) >= CacheSize
          THEN \E p \in others: cache' = [cache EXCEPT ![q] = entry, ![p] = NoEntry]
          ELSE cache' = [cache EXCEPT ![q] = entry]

\* The function run by the flight stores a successful answer before it returns.
FlightStore(q) ==
  LET l == flight[q].leader IN
  /\ flight[q] # NoFlight /\ call[l].stage = "answered"
  /\ Put(q, call[l].answer = "allow")
  /\ call' = [call EXCEPT ![l].stage = "stored"]
  /\ UNCHANGED <<envVars, flight, pc, walkVars, verdict, ctx, gone, inbox, obsVars>>

\* singleflight forgets the key and hands the result to everyone who joined.
FlightDeliver(q) ==
  LET l == flight[q].leader IN
  /\ flight[q] # NoFlight /\ call[l].stage \in {"stored", "failed"}
  /\ inbox' = [r \in Requests |->
                 IF r \in flight[q].members /\ pc[r] = "waiting"
                 THEN [answer |-> call[l].answer, shared |-> flight[q].members # {l}]
                 ELSE inbox[r]]
  /\ flight' = [flight EXCEPT ![q] = NoFlight]
  /\ call' = [call EXCEPT ![l] = Idle]
  /\ UNCHANGED <<envVars, cache, pc, walkVars, verdict, ctx, gone, obsVars>>

-----------------------------------------------------------------------------
(* The environment: API server, RBAC, clients, time.                       *)

Pending(r) == call[r].stage \in {"sent", "decided"}

\* The API server evaluates the review against the rules of this instant.
Evaluate(r) ==
  /\ call[r].stage = "sent"
  /\ call' = [call EXCEPT ![r] =
       [stage |-> "decided", answer |-> IF question[r] \in grants THEN "allow" ELSE "deny"]]
  /\ UNCHANGED <<envVars, cache, flight, pc, walkVars, verdict, ctx, gone, inbox, obsVars>>

\* liveCheck: Create returns the API server's answer ...
Answered(r) ==
  /\ call[r].stage = "decided"
  /\ call' = [call EXCEPT ![r].stage = "answered"]
  /\ UNCHANGED <<envVars, cache, flight, pc, walkVars, verdict, ctx, gone, inbox, obsVars>>

\* ... or a failure of the call ...
ApiError(r) ==
  /\ Pending(r)
  /\ call' = [call EXCEPT ![r] = [stage |-> "failed", answer |-> "api"]]
  /\ UNCHANGED <<envVars, cache, flight, pc, walkVars, verdict, ctx, gone, inbox, obsVars>>

\* Fault: the call is bound to the request's context and not to the budget.
ContextEndsCallUnbudgeted(r) ==
  /\ Pending(r) /\ gone[r]
  /\ call' = [call EXCEPT ![r] = [stage |-> "failed", answer |-> ctx[r]]]
  /\ UNCHANGED <<envVars, cache, flight, pc, walkVars, verdict, ctx, gone, inbox, obsVars>>

\* ... or the error of the context it was made on.
ContextEndsCall(r) ==
  /\ Pending(r) /\ ctx[r] # "live"
  /\ call' = [call EXCEPT ![r] = [stage |-> "failed", answer |-> ctx[r]]]
  /\ UNCHANGED <<envVars, cache, flight, pc, walkVars, verdict, ctx, gone, inbox, obsVars>>

Active(r) == pc[r] \notin {"new", "done"}

\* The client hangs up: the request context is canceled.
ClientGone(r) ==
  /\ Active(r) /\ ~gone[r]
  /\ gone' = [gone EXCEPT ![r] = TRUE]
  /\ ctx' = [ctx EXCEPT ![r] = IF @ = "live" THEN "canceled" ELSE @]
  /\ UNCHANGED <<envVars, cache, flight, call, pc, walkVars, verdict, inbox, obsVars>>

\* An RBAC binding is created or deleted.
Grant(q) ==
  /\ q \notin grants /\ changes < MaxChanges
  /\ changes' = changes + 1
  /\ grants' = grants \cup {q}
  /\ lastTrue' = [lastTrue EXCEPT ![q] = now]
  /\ lastFalse' = [lastFalse EXCEPT ![q] = now]
  /\ UNCHANGED <<now, cache, flight, call, pc, walkVars, verdict, ctx, gone, inbox, obsVars>>

Revoke(q) ==
  /\ q \in grants /\ changes < MaxChanges
  /\ changes' = changes + 1
  /\ grants' = grants \ {q}
  /\ lastTrue' = [lastTrue EXCEPT ![q] = now]
  /\ lastFalse' = [lastFalse EXCEPT ![q] = now]
  /\ UNCHANGED <<now, cache, flight, call, pc, walkVars, verdict, ctx, gone, inbox, obsVars>>

\* Every goroutine of the proxy waits for the API server: steps inside the
\* process take no time on a clock that counts TTLs and budgets.
Blocked(r) ==
  \/ ~Active(r)
  \/ pc[r] = "waiting" /\ ctx[r] = "live" /\ inbox[r] = NoResult
  \/ pc[r] = "direct" /\ ctx[r] = "live" /\ Pending(r)
Quiet ==
  /\ \A r \in Requests: Blocked(r)
  /\ \A q \in Questions: flight[q] # NoFlight =>
       Pending(flight[q].leader) /\ ctx[flight[q].leader] = "live"

Tick ==
  /\ now < Horizon /\ Quiet
  /\ now' = now + 1
  /\ lastTrue' = [q \in Questions |-> IF q \in grants THEN now + 1 ELSE lastTrue[q]]
  /\ lastFalse' = [q \in Questions |-> IF q \in grants THEN lastFalse[q] ELSE now + 1]
  /\ ctx' = [r \in Requests |->
       IF Active(r) /\ ctx[r] = "live" /\ deadline[r] <= now + 1 THEN "expired" ELSE ctx[r]]
  /\ UNCHANGED <<grants, changes, cache, flight, call, pc, walkVars, verdict, gone, inbox, obsVars>>

\* No request is in the check and no call is in flight: there is nothing to do.
\* Any other state without a successor is a deadlock.
AtRest ==
  /\ \A r \in Requests: ~Active(r)
  /\ \A q \in Questions: flight[q] = NoFlight
  /\ UNCHANGED vars

-----------------------------------------------------------------------------
\* The steps of the request's own goroutine.
RequestStep(r) ==
  \/ NextHeaderValue(r) \/ EndWalk(r) \/ UseVerdict(r)
  \/ Bypass(r) \/ CacheHit(r) \/ CacheMiss(r) \/ DoChan(r)
  \/ OwnContextDone(r) \/ FlightResult(r) \/ DirectResult(r)

Next ==
  \/ \E r \in Requests:
       \/ Arrive(r) \/ RequestStep(r) \/ ClientGone(r)
       \/ Evaluate(r) \/ Answered(r) \/ ApiError(r) \/ ContextEndsCall(r)
  \/ \E q \in Questions: FlightStore(q) \/ FlightDeliver(q) \/ Grant(q) \/ Revoke(q)
  \/ Tick
  \/ AtRest

Spec == Init /\ [][Next]_vars

\* What happens whatever the API server and the clients do: goroutines run, a
\* call returns once its context is done, time passes.
ProxyStep ==
  \/ \E r \in Requests: RequestStep(r) \/ ContextEndsCall(r)
  \/ \E q \in Questions: FlightStore(q) \/ FlightDeliver(q)
  \/ Tick

\* One of these steps is taken when some can be: less than Go's scheduler gives.
\* Nothing is assumed of the API server: it may never answer.
Fairness == WF_vars(ProxyStep)

FairSpec == Spec /\ Fairness

-----------------------------------------------------------------------------
(* Properties.                                                             *)

PCs == {"new", "walk", "lookup", "miss", "waiting", "direct", "verdict", "done"}
Stages == {"idle", "sent", "decided", "answered", "stored", "failed"}
Outcomes == {"none", "admitted", "no_impersonation", "denied", "api", "too_many_values",
             "no_impersonation_user", "unknown_header"} \cup CtxErrors
Reasons == {"none", "completed", "client_canceled", "authorization_dependency_error"}

Entries == [allowed: BOOLEAN, expires: Int]
Flights == [leader: Requests \cup {NoRequest}, members: SUBSET Requests]
Calls == [stage: Stages, answer: Answers \cup {NoAnswer}]
Results == [answer: Answers \cup {NoAnswer}, shared: BOOLEAN]

\* Type invariant of the reviewer's state.
TypeOK ==
  /\ now \in Nat
  /\ grants \subseteq Questions
  /\ changes \in Nat
  /\ lastTrue \in [Questions -> Int]
  /\ lastFalse \in [Questions -> Int]
  /\ cache \in [Questions -> Entries]
  /\ flight \in [Questions -> Flights]
  /\ call \in [Requests -> Calls]
  /\ pc \in [Requests -> PCs]
  /\ inbound \in [Requests -> [user: Users, headers: Shapes]]
  /\ left \in [Requests -> [HeaderKeys -> Seq(Names)]]
  /\ question \in [Requests -> Questions]
  /\ verdict \in [Requests -> Answers \cup {NoAnswer}]
  /\ target \in [Requests -> SUBSET Questions]
  /\ outcome \in [Requests -> Outcomes]
  /\ arrived \in [Requests -> Nat]
  /\ deadline \in [Requests -> Nat]
  /\ ctx \in [Requests -> {"live"} \cup CtxErrors]
  /\ gone \in [Requests -> BOOLEAN]
  /\ inbox \in [Requests -> Results]
  /\ asked \in [Requests -> Nat]
  /\ recorded \in [Requests -> Nat]
  /\ reason \in [Requests -> Reasons]

\* Revocation lag: an allow is used only for a question the RBAC rules allowed
\* at some instant of the last AllowTTL + SarTimeout: a cached answer is at
\* most a TTL old when served, and was at most one budget old when stored.
RevocationBound ==
  \A r \in Requests: verdict[r] = "allow" =>
    now - lastTrue[question[r]] <= AllowTTL + SarTimeout

\* Grant lag: a deny is used only for a question the rules did not allow at
\* some instant of the last DenyTTL + SarTimeout.
GrantBound ==
  \A r \in Requests: verdict[r] = "deny" =>
    now - lastFalse[question[r]] <= DenyTTL + SarTimeout

\* sharedLiveCheck: whoever leads a flight and however it ends, a request fails
\* with a context error only once its own context is done.  Which of the two
\* errors it then reports may still be its leader's (CanceledMeansClientGone).
FailsOnlyWhenDone ==
  \A r \in Requests: verdict[r] \in CtxErrors => ctx[r] # "live"

\* timedLiveCheck, observeLiveCheck: exactly one terminal record per question
\* that needed a live check, and it blames the client only if the client left.
OneTerminalRecord ==
  \A r \in Requests:
    /\ recorded[r] = asked[r] - (IF pc[r] \in {"miss", "waiting", "direct"} THEN 1 ELSE 0)
    /\ reason[r] = "client_canceled" => gone[r]

\* What a request asks for: the first value of Impersonate-User and of
\* Impersonate-Uid, every value of the other headers.
Requested(r) ==
  LET h == inbound[r].headers IN
  UNION {{ReviewSpec(inbound[r].user, k, h[k][i]):
            i \in {j \in DOMAIN h[k]: k \in {"users", "uids"} => j = 1}}: k \in HeaderKeys}

\* CheckAuthorizedForImpersonation: the user handed on consists of exactly the
\* values the client asked for, each of which was authorized.
AdmittedInFull ==
  \A r \in Requests: outcome[r] = "admitted" => target[r] = Requested(r)

\* CheckAuthorizedForImpersonation: all questions of one request together take
\* no longer than one budget.
BudgetShared ==
  \A r \in Requests: Active(r) => now - arrived[r] <= SarTimeout

\* Every request that enters the check leaves it, although the API server may
\* never answer and any leader of a flight may hang up (a request enters once,
\* so this says that each one is done in the end).
EveryCheckEnds == []<>(\A r \in Requests: ~Active(r))

\* What CheckAuthorizedForImpersonation shows its caller.
Decided(o) ==
  IF o = "none" THEN "none"
  ELSE IF o \in {"admitted", "no_impersonation"} THEN "yes"
  ELSE IF o = "denied" THEN "no"
  ELSE "error"

Decision == INSTANCE DelegatedDecision WITH
  Callers <- Requests,
  Patience <- SarTimeout,
  lag <- [yes |-> AllowTTL + SarTimeout, no |-> DenyTTL + SarTimeout],
  holds <- grants,
  caller <- [r \in Requests |->
    IF pc[r] = "new" THEN "idle" ELSE IF pc[r] = "done" THEN "told" ELSE "asking"],
  asked <- [r \in Requests |-> IF pc[r] = "new" THEN {} ELSE Requested(r) \cap Questions],
  since <- arrived,
  decision <- [r \in Requests |-> Decided(outcome[r])]

\* CheckAuthorizedForImpersonation implements DelegatedDecision: whatever the
\* cache, the shared flights, the order of the walk and the changes of the
\* rules in its course, a request is let through as a whole only if each of
\* its values was allowed, and denied only if one of them was not, no longer
\* than a TTL and a budget before it came in; it is told within its budget.
ImplementsDecision == Decision!Spec

\* With no TTL for allows "RBAC impersonation revocation [is] enforced
\* per-request": an allow holds at some instant since the request arrived.
EnforcedPerRequest ==
  \A r \in Requests: verdict[r] = "allow" => lastTrue[question[r]] >= arrived[r]

\* handleError answers nothing to a canceled check because "the connection is
\* already going away": canceled is returned only when the client has left.
CanceledMeansClientGone ==
  \A r \in Requests: verdict[r] = "canceled" => gone[r]
=============================================================================
