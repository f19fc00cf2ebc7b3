----------------------------- MODULE TokenReview -----------------------------
(***************************************************************************)
(* Token passthrough: pkg/proxy/tokenreview/tokenreview.go, as used by     *)
(* reviewToken of pkg/proxy/proxy.go.                                      *)
(*                                                                         *)
(* A token is looked up in a result cache; a miss asks the API server on   *)
(* the request's own context and stores a definite answer.  Concurrent     *)
(* misses for one token each ask for themselves, so an older answer may be *)
(* stored over a newer one.  The API server, the life of the tokens, the   *)
(* clients and the clock are the environment.                              *)
(***************************************************************************)
EXTENDS Integers, FiniteSets

CONSTANTS
  Requests,   \* concurrent callers of AuthenticateToken
  Tokens,     \* bearer tokens, one cache key each (HMAC of token and audiences)
  Configs,    \* values of --token-passthrough-cache-{success,failure}-ttl
  Timeout,    \* reviewTimeout
  CacheSize,  \* tokenCacheSize
  Horizon,    \* model bound: the last instant of the clock
  MaxChanges  \* model bound: how often tokens become valid or invalid

ASSUME ReviewAssumption ==
  /\ Configs \subseteq [success: Nat, failure: Nat] /\ Configs # {}
  /\ Timeout \in Nat \ {0}
  /\ CacheSize \in Nat \ {0}
  /\ Horizon \in Nat /\ MaxChanges \in Nat
  /\ \A c \in Configs: {c.success, c.failure} \subseteq 0..(Horizon - Timeout)
  /\ "none" \notin Tokens

VARIABLES
  ttl,          \* the configured TTLs
  now,          \* the clock
  valid,        \* tokens the API server authenticates at this instant
  changes,      \* how often that has changed
  lastValid,    \* per token, the last instant at which it was valid
  lastInvalid,  \* per token, the last instant at which it was not
  cache,        \* cachedTokenReview.cache
  pc,           \* where the request is
  token,        \* the request's token
  answer,       \* the API server's verdict on its way back
  arrived,      \* when AuthenticateToken was called
  deadline,     \* deadline of the review's context
  gone,         \* the client has hung up
  verdict       \* what AuthenticateToken returned

envVars == <<ttl, now, valid, changes, lastValid, lastInvalid>>
reqVars == <<token, arrived, deadline>>
vars == <<ttl, now, valid, changes, lastValid, lastInvalid, cache, pc, token, answer, arrived,
          deadline, gone, verdict>>

NoEntry == [ok |-> FALSE, expires |-> -1]
NoToken == "none"

\* A token never valid (or never invalid) is older than every bound.
Never == -(Horizon + 1)

\* New and newCachedTokenReview.  With both TTLs 0 NewCached returns the bare
\* reviewer; the cache then stays empty.
Init ==
  /\ ttl \in Configs
  /\ now = 0
  /\ valid \in SUBSET Tokens
  /\ changes = 0
  /\ lastValid = [t \in Tokens |-> IF t \in valid THEN 0 ELSE Never]
  /\ lastInvalid = [t \in Tokens |-> IF t \in valid THEN Never ELSE 0]
  /\ cache = [t \in Tokens |-> NoEntry]
  /\ pc = [r \in Requests |-> "idle"]
  /\ token = [r \in Requests |-> NoToken]
  /\ answer = [r \in Requests |-> "none"]
  /\ arrived = [r \in Requests |-> 0]
  /\ deadline = [r \in Requests |-> 0]
  /\ gone = [r \in Requests |-> FALSE]
  /\ verdict = [r \in Requests |-> "none"]

-----------------------------------------------------------------------------
(* cachedTokenReview.AuthenticateToken.                                    *)

\* LRUExpireCache.Get: an entry that has not expired.
Fresh(t) == cache[t] # NoEntry /\ now <= cache[t].expires

Arrive(r, t) ==
  /\ pc[r] = "idle"
  /\ token' = [token EXCEPT ![r] = t]
  /\ arrived' = [arrived EXCEPT ![r] = now]

\* A cached answer is returned as it is.
Hit(r, t) ==
  /\ Arrive(r, t) /\ Fresh(t)
  /\ pc' = [pc EXCEPT ![r] = "verdict"]
  /\ verdict' = [verdict EXCEPT ![r] = IF cache[t].ok THEN "accepted" ELSE "rejected"]
  /\ UNCHANGED <<envVars, cache, answer, deadline, gone>>

\* A miss asks the API server, within reviewTimeout of the request's context.
Miss(r, t) ==
  /\ Arrive(r, t) /\ ~Fresh(t) /\ now + Timeout <= Horizon
  /\ pc' = [pc EXCEPT ![r] = "sent"]
  /\ deadline' = [deadline EXCEPT ![r] = now + Timeout]
  /\ UNCHANGED <<envVars, cache, answer, gone, verdict>>

Pending(r) == pc[r] \in {"sent", "decided"}
ContextDone(r) == gone[r] \/ deadline[r] <= now

\* Fault: an error is cached like a rejection.
ReviewFailsCached(r) ==
  /\ Pending(r)
  /\ pc' = [pc EXCEPT ![r] = "answered"]
  /\ answer' = [answer EXCEPT ![r] = "rejected"]
  /\ UNCHANGED <<envVars, cache, reqVars, gone, verdict>>

\* Create fails, or the review's status carries an error: returned, not cached.
ReviewFails(r) ==
  /\ Pending(r)
  /\ pc' = [pc EXCEPT ![r] = "verdict"]
  /\ verdict' = [verdict EXCEPT ![r] = "error"]
  /\ answer' = [answer EXCEPT ![r] = "none"]
  /\ UNCHANGED <<envVars, cache, reqVars, gone>>

\* Fault: the review runs without a timeout of its own.
ContextEndsReviewUnbounded(r) == Pending(r) /\ gone[r] /\ ReviewFails(r)

\* The context of the request or the review timeout ends the call.
ContextEndsReview(r) == Pending(r) /\ ContextDone(r) /\ ReviewFails(r)

\* Create returns the API server's answer.
ReviewReturns(r) ==
  /\ pc[r] = "decided"
  /\ pc' = [pc EXCEPT ![r] = "answered"]
  /\ UNCHANGED <<envVars, cache, reqVars, answer, gone, verdict>>

\* Fault: the TTLs of the two classes are swapped.
TTLSwapped(ok) == IF ok THEN ttl.failure ELSE ttl.success

TTL(ok) == IF ok THEN ttl.success ELSE ttl.failure

\* cache.Add, if the class of the answer is cached: a full LRU drops another entry.
Put(t, ok) ==
  LET entry == [ok |-> ok, expires |-> now + TTL(ok)]
      others == {o \in Tokens \ {t}: cache[o] # NoEntry}
  IN \/ TTL(ok) = 0 /\ UNCHANGED cache
     \/ /\ TTL(ok) > 0
        /\ cache[t] # NoEntry \/ Cardinality(others) < CacheSize
        /\ cache' = [cache EXCEPT ![t] = entry]
     \/ /\ TTL(ok) > 0
        /\ cache[t] = NoEntry /\ Cardinality(others) >= CacheSize
        /\ \E o \in others: cache' = [cache EXCEPT ![t] = entry, ![o] = NoEntry]

\* A definite answer is stored, then returned.
StoreAndReturn(r) ==
  /\ pc[r] = "answered"
  /\ Put(token[r], answer[r] = "accepted")
  /\ pc' = [pc EXCEPT ![r] = "verdict"]
  /\ verdict' = [verdict EXCEPT ![r] = answer[r]]
  /\ answer' = [answer EXCEPT ![r] = "none"]
  /\ UNCHANGED <<envVars, reqVars, gone>>

\* reviewToken counts the attempt and tells withTokenReview whether the token
\* may be passed on: an error is not a verdict, and refuses as well.  The
\* caller's state is reset for its next call.
UseVerdict(r) ==
  /\ pc[r] = "verdict"
  /\ pc' = [pc EXCEPT ![r] = "idle"]
  /\ verdict' = [verdict EXCEPT ![r] = "none"]
  /\ token' = [token EXCEPT ![r] = NoToken]
  /\ arrived' = [arrived EXCEPT ![r] = 0]
  /\ deadline' = [deadline EXCEPT ![r] = 0]
  /\ gone' = [gone EXCEPT ![r] = FALSE]
  /\ UNCHANGED <<envVars, cache, answer>>

-----------------------------------------------------------------------------
(* The environment: API server, clients, time.                             *)

\* The API server judges the token of this instant.
Evaluate(r) ==
  /\ pc[r] = "sent"
  /\ pc' = [pc EXCEPT ![r] = "decided"]
  /\ answer' = [answer EXCEPT ![r] = IF token[r] \in valid THEN "accepted" ELSE "rejected"]
  /\ UNCHANGED <<envVars, cache, reqVars, gone, verdict>>

\* The client hangs up; the context matters only to a review in flight.
ClientGone(r) ==
  /\ Pending(r) /\ ~gone[r]
  /\ gone' = [gone EXCEPT ![r] = TRUE]
  /\ UNCHANGED <<envVars, cache, pc, reqVars, answer, verdict>>

\* A token is issued or its account restored; expires or is revoked.
TokenChanges(t) ==
  /\ changes < MaxChanges
  /\ changes' = changes + 1
  /\ valid' = IF t \in valid THEN valid \ {t} ELSE valid \cup {t}
  /\ lastValid' = [lastValid EXCEPT ![t] = now]
  /\ lastInvalid' = [lastInvalid EXCEPT ![t] = now]
  /\ UNCHANGED <<ttl, now, cache, pc, reqVars, answer, gone, verdict>>

\* Steps inside the process take no time on a clock that counts TTLs.
Quiet == \A r \in Requests: pc[r] = "idle" \/ (Pending(r) /\ ~ContextDone(r))

Tick ==
  /\ now < Horizon /\ Quiet
  /\ now' = now + 1
  /\ lastValid' = [t \in Tokens |-> IF t \in valid THEN now + 1 ELSE lastValid[t]]
  /\ lastInvalid' = [t \in Tokens |-> IF t \in valid THEN lastInvalid[t] ELSE now + 1]
  /\ UNCHANGED <<ttl, valid, changes, cache, pc, reqVars, answer, gone, verdict>>

AtRest == (\A r \in Requests: pc[r] = "idle") /\ UNCHANGED vars

RequestStep(r) == ContextEndsReview(r) \/ StoreAndReturn(r) \/ UseVerdict(r)

Next ==
  \/ \E r \in Requests:
       \/ \E t \in Tokens: Hit(r, t) \/ Miss(r, t)
       \/ ReviewFails(r) \/ ReviewReturns(r) \/ RequestStep(r)
       \/ Evaluate(r) \/ ClientGone(r)
  \/ \E t \in Tokens: TokenChanges(t)
  \/ Tick
  \/ AtRest

Spec == Init /\ [][Next]_vars

\* Goroutines are scheduled, time passes however often callers come and go,
\* and a call returns once its context is done.  The API server may never answer.
Fairness == SF_vars(Tick) /\ \A r \in Requests: WF_vars(RequestStep(r))

FairSpec == Spec /\ Fairness

-----------------------------------------------------------------------------
\* Type invariant of the reviewer and its cache.
TypeOK ==
  /\ ttl \in Configs
  /\ now \in Nat /\ changes \in Nat
  /\ valid \subseteq Tokens
  /\ lastValid \in [Tokens -> Int] /\ lastInvalid \in [Tokens -> Int]
  /\ cache \in [Tokens -> [ok: BOOLEAN, expires: Int]]
  /\ pc \in [Requests -> {"idle", "sent", "decided", "answered", "verdict"}]
  /\ token \in [Requests -> Tokens \cup {NoToken}]
  /\ answer \in [Requests -> {"none", "accepted", "rejected"}]
  /\ arrived \in [Requests -> Nat] /\ deadline \in [Requests -> Nat]
  /\ gone \in [Requests -> BOOLEAN]
  /\ verdict \in [Requests -> {"none", "accepted", "rejected", "error"}]

\* Revocation lag: a token is accepted only if it was valid at some instant of
\* the last success TTL + Timeout, although answers may be stored in another
\* order than they were given (AuthenticateToken and cache.Add); it is rejected
\* only if it was invalid at some instant of the last failure TTL + Timeout: an
\* error of the API server is never remembered ("errors are never cached").
VerdictBound ==
  \A r \in Requests:
    /\ verdict[r] = "accepted" => now - lastValid[token[r]] <= ttl.success + Timeout
    /\ verdict[r] = "rejected" => now - lastInvalid[token[r]] <= ttl.failure + Timeout

\* How old an answer of a class may be when a caller comes in.
Lag(d) == IF d = 0 THEN 0 ELSE d + Timeout

Decision == INSTANCE DelegatedDecision WITH
  Callers <- Requests,
  Questions <- Tokens,
  Patience <- Timeout,
  lag <- [yes |-> Lag(ttl.success), no |-> Lag(ttl.failure)],
  holds <- valid,
  lastTrue <- lastValid,
  lastFalse <- lastInvalid,
  caller <- [r \in Requests |->
    IF pc[r] = "idle" THEN "idle" ELSE IF pc[r] = "verdict" THEN "told" ELSE "asking"],
  asked <- [r \in Requests |-> {token[r]} \cap Tokens],
  since <- arrived,
  decision <- [r \in Requests |->
    IF verdict[r] = "accepted" THEN "yes" ELSE IF verdict[r] = "rejected" THEN "no"
    ELSE verdict[r]]

\* AuthenticateToken implements DelegatedDecision: a caller is told within the
\* review timeout that its token is good only if it was, and that it is bad
\* only if it was, no longer than the class's TTL and one timeout before it
\* came in, and not before it came in if the class is not cached.
ImplementsDecision == Decision!Spec

\* Every review ends, although the API server may never answer.
EveryReviewEnds == \A r \in Requests: pc[r] # "idle" ~> pc[r] = "idle"
=============================================================================
