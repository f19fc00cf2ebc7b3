-------------------------- MODULE TokenReviewProofs --------------------------
(***************************************************************************)
(* Proofs about TokenReview, for any number of callers and tokens, and     *)
(* every value of the TTLs, the review timeout and the size of the cache.  *)
(***************************************************************************)
EXTENDS TokenReview, TLAPS

-----------------------------------------------------------------------------
(* The invariants.                                                         *)

\* A caller that waits, or was told, has a token; what it holds belongs to
\* where it is.
StagesMatch ==
  \A r \in Requests:
    /\ pc[r] # "idle" => token[r] \in Tokens
    /\ pc[r] = "idle" => token[r] = NoToken /\ arrived[r] = 0
    /\ answer[r] # "none" => pc[r] \in {"decided", "answered"}
    /\ pc[r] \in {"decided", "answered"} => answer[r] # "none"
    /\ verdict[r] # "none" <=> pc[r] = "verdict"

\* Nobody waits, or holds a verdict, for longer than the review timeout.
Timing ==
  \A r \in Requests: pc[r] # "idle" =>
    /\ arrived[r] <= now /\ now <= arrived[r] + Timeout
    /\ pc[r] # "verdict" => deadline[r] = arrived[r] + Timeout

\* The history variables say when a token was last valid, and last not.
History ==
  \A t \in Tokens:
    /\ lastValid[t] <= now /\ lastInvalid[t] <= now
    /\ IF t \in valid THEN lastValid[t] = now ELSE lastInvalid[t] = now

\* The instant at which an answer of a class was last right for a token.
LastRight(t, ok) == IF ok THEN lastValid[t] ELSE lastInvalid[t]

\* The API server's verdict was right since the caller came in ...
AnswerEvidence ==
  \A r \in Requests: answer[r] # "none" =>
    LastRight(token[r], answer[r] = "accepted") >= arrived[r]

\* ... and a cached one, of a class that is cached, at most a TTL and a timeout
\* before it expires.
CacheEvidence ==
  \A t \in Tokens: cache[t] # NoEntry =>
    /\ TTL(cache[t].ok) > 0
    /\ cache[t].expires - LastRight(t, cache[t].ok) <= TTL(cache[t].ok) + Timeout

IInv == TypeOK /\ StagesMatch /\ Timing /\ History /\ AnswerEvidence /\ CacheEvidence
        /\ VerdictBound

-----------------------------------------------------------------------------
(* Type correctness.                                                       *)

\* The TTLs are natural numbers, and answers of any class fit in the horizon.
LEMMA TTLType ==
  ASSUME ttl \in Configs, NEW ok \in BOOLEAN
  PROVE  /\ TTL(ok) \in Nat /\ TTL(ok) + Timeout <= Horizon
         /\ ttl.success \in Nat /\ ttl.failure \in Nat
         /\ Timeout \in Nat /\ Timeout > 0 /\ Horizon \in Nat
BY ReviewAssumption DEF TTL

Entries == [ok: BOOLEAN, expires: Int]

\* TypeOK holds initially.
LEMMA TypeInit == Init => TypeOK
<1>1. Never \in Int /\ NoEntry \in Entries
  BY ReviewAssumption DEF Never, NoEntry, Entries
<1> QED BY <1>1 DEF Init, TypeOK, Entries, NoToken

\* Storing an answer replaces entries by entries.
LEMMA PutType ==
  ASSUME TypeOK, NEW t \in Tokens, NEW ok \in BOOLEAN, Put(t, ok)
  PROVE  /\ cache' \in [Tokens -> Entries]
         /\ \A o \in Tokens: \/ cache'[o] = cache[o] \/ cache'[o] = NoEntry
                             \/ /\ o = t /\ TTL(ok) > 0
                                /\ cache'[o] = [ok |-> ok, expires |-> now + TTL(ok)]
<1> DEFINE e == [ok |-> ok, expires |-> now + TTL(ok)]
<1>1. \/ cache' = cache
      \/ TTL(ok) > 0 /\ cache' = [cache EXCEPT ![t] = e]
      \/ TTL(ok) > 0 /\ \E o \in Tokens: cache' = [cache EXCEPT ![t] = e, ![o] = NoEntry]
  BY DEF Put
<1>2. e \in Entries /\ NoEntry \in Entries
  BY TTLType DEF TypeOK, Entries, NoEntry
<1>3. cache \in [Tokens -> Entries]
  BY DEF TypeOK, Entries
<1> HIDE DEF e
<1>4. /\ cache' \in [Tokens -> Entries]
      /\ \A o \in Tokens: \/ cache'[o] = cache[o] \/ cache'[o] = NoEntry
                          \/ o = t /\ TTL(ok) > 0 /\ cache'[o] = e
  BY <1>1, <1>2, <1>3
<1> QED BY <1>4 DEF e

\* Every step keeps TypeOK, given the tokens of those who wait.
LEMMA TypeStep == TypeOK /\ StagesMatch /\ [Next]_vars => TypeOK'
<1> SUFFICES ASSUME TypeOK, StagesMatch, [Next]_vars PROVE TypeOK'
  OBVIOUS
<1> USE DEF envVars, reqVars
<1>1. ASSUME NEW r \in Requests, NEW t \in Tokens, Hit(r, t) PROVE TypeOK'
  BY <1>1 DEF Hit, Arrive, TypeOK
<1>2. ASSUME NEW r \in Requests, NEW t \in Tokens, Miss(r, t) PROVE TypeOK'
  <2>1. now + Timeout \in Nat
    BY ReviewAssumption DEF TypeOK
  <2> QED BY <1>2, <2>1 DEF Miss, Arrive, TypeOK
<1>3. ASSUME NEW r \in Requests, ReviewFails(r) PROVE TypeOK'
  BY <1>3 DEF ReviewFails, TypeOK
<1>4. ASSUME NEW r \in Requests, ReviewReturns(r) PROVE TypeOK'
  BY <1>4 DEF ReviewReturns, TypeOK
<1>5. ASSUME NEW r \in Requests, StoreAndReturn(r) PROVE TypeOK'
  <2>1. token[r] \in Tokens
    BY <1>5 DEF StoreAndReturn, StagesMatch
  <2>2. cache' \in [Tokens -> Entries]
    BY <1>5, <2>1, PutType DEF StoreAndReturn
  <2> QED BY <1>5, <2>2 DEF StoreAndReturn, TypeOK, Entries
<1>6. ASSUME NEW r \in Requests, UseVerdict(r) PROVE TypeOK'
  BY <1>6 DEF UseVerdict, TypeOK
<1>7. ASSUME NEW r \in Requests, Evaluate(r) \/ ClientGone(r) PROVE TypeOK'
  BY <1>7 DEF Evaluate, ClientGone, TypeOK
<1>8. ASSUME NEW t \in Tokens, TokenChanges(t) PROVE TypeOK'
  BY <1>8 DEF TokenChanges, TypeOK
<1>9. ASSUME Tick PROVE TypeOK'
  BY <1>9 DEF Tick, TypeOK
<1>10. ASSUME UNCHANGED vars PROVE TypeOK'
  BY <1>10 DEF vars, TypeOK
<1> QED
  BY <1>1, <1>2, <1>3, <1>4, <1>5, <1>6, <1>7, <1>8, <1>9, <1>10
     DEF Next, RequestStep, ContextEndsReview, AtRest

-----------------------------------------------------------------------------
(* Where callers are, and for how long.                                    *)

\* Every step keeps StagesMatch.
LEMMA StagesStep == TypeOK /\ StagesMatch /\ [Next]_vars => StagesMatch'
<1> SUFFICES ASSUME TypeOK, StagesMatch, [Next]_vars PROVE StagesMatch'
  OBVIOUS
<1> USE DEF envVars, reqVars, StagesMatch
<1>1. ASSUME NEW r \in Requests, NEW t \in Tokens, Hit(r, t) \/ Miss(r, t) PROVE StagesMatch'
  BY <1>1 DEF Hit, Miss, Arrive, TypeOK
<1>2. ASSUME NEW r \in Requests, ReviewFails(r) PROVE StagesMatch'
  BY <1>2 DEF ReviewFails, Pending, TypeOK
<1>3. ASSUME NEW r \in Requests, ReviewReturns(r) PROVE StagesMatch'
  BY <1>3 DEF ReviewReturns, TypeOK
<1>4. ASSUME NEW r \in Requests, StoreAndReturn(r) PROVE StagesMatch'
  BY <1>4 DEF StoreAndReturn, TypeOK
<1>5. ASSUME NEW r \in Requests, UseVerdict(r) PROVE StagesMatch'
  BY <1>5 DEF UseVerdict, TypeOK
<1>6. ASSUME NEW r \in Requests, Evaluate(r) PROVE StagesMatch'
  BY <1>6 DEF Evaluate, TypeOK
<1>7. ASSUME UNCHANGED <<pc, token, arrived, answer, verdict>> PROVE StagesMatch'
  BY <1>7
<1> QED
  BY <1>1, <1>2, <1>3, <1>4, <1>5, <1>6, <1>7
     DEF Next, RequestStep, ContextEndsReview, ClientGone, TokenChanges, Tick, AtRest, vars

\* Every step keeps Timing: time passes only while every caller that waits is
\* before its deadline.
LEMMA TimingStep == TypeOK /\ Timing /\ [Next]_vars => Timing'
<1> SUFFICES ASSUME TypeOK, Timing, [Next]_vars PROVE Timing'
  OBVIOUS
<1>0. Timeout \in Nat /\ now \in Nat /\ arrived \in [Requests -> Nat] /\ deadline \in [Requests -> Nat]
  BY ReviewAssumption DEF TypeOK
<1> USE DEF envVars, reqVars, Timing
<1>1. ASSUME NEW r \in Requests, NEW t \in Tokens, Hit(r, t) \/ Miss(r, t) PROVE Timing'
  BY <1>0, <1>1 DEF Hit, Miss, Arrive, TypeOK
<1>2. ASSUME NEW r \in Requests, ReviewFails(r) \/ ReviewReturns(r) \/ StoreAndReturn(r) \/ Evaluate(r)
      PROVE  Timing'
  BY <1>2 DEF ReviewFails, ReviewReturns, StoreAndReturn, Evaluate, Pending, TypeOK
<1>3. ASSUME NEW r \in Requests, UseVerdict(r) PROVE Timing'
  BY <1>3 DEF UseVerdict, TypeOK
<1>4. ASSUME Tick PROVE Timing'
  BY <1>0, <1>4 DEF Tick, Quiet, Pending, ContextDone
<1>5. ASSUME UNCHANGED <<now, pc, arrived, deadline>> PROVE Timing'
  BY <1>5
<1> QED
  BY <1>1, <1>2, <1>3, <1>4, <1>5
     DEF Next, RequestStep, ContextEndsReview, ClientGone, TokenChanges, AtRest, vars

\* Every step keeps History, and no instant of it is forgotten.
LEMMA HistoryStep ==
  TypeOK /\ History /\ [Next]_vars =>
    /\ History'
    /\ \A t \in Tokens: lastValid[t] <= lastValid'[t] /\ lastInvalid[t] <= lastInvalid'[t]
    /\ \A t \in Tokens: lastValid'[t] \in Int /\ lastInvalid'[t] \in Int
<1> SUFFICES ASSUME TypeOK, History, [Next]_vars
             PROVE  /\ History'
                    /\ \A t \in Tokens: lastValid[t] <= lastValid'[t] /\ lastInvalid[t] <= lastInvalid'[t]
                    /\ \A t \in Tokens: lastValid'[t] \in Int /\ lastInvalid'[t] \in Int
  OBVIOUS
<1> USE DEF History, TypeOK
<1>1. CASE UNCHANGED envVars
  BY <1>1 DEF envVars
<1>2. ASSUME NEW t \in Tokens, TokenChanges(t) PROVE History' /\ \A u \in Tokens:
          /\ lastValid[u] <= lastValid'[u] /\ lastInvalid[u] <= lastInvalid'[u]
          /\ lastValid'[u] \in Int /\ lastInvalid'[u] \in Int
  BY <1>2 DEF TokenChanges
<1>3. ASSUME Tick PROVE History' /\ \A u \in Tokens:
          /\ lastValid[u] <= lastValid'[u] /\ lastInvalid[u] <= lastInvalid'[u]
          /\ lastValid'[u] \in Int /\ lastInvalid'[u] \in Int
  BY <1>3 DEF Tick
<1>4. \/ UNCHANGED envVars \/ Tick \/ \E t \in Tokens: TokenChanges(t)
  BY DEF Next, RequestStep, ContextEndsReview, Hit, Miss, ReviewFails, ReviewReturns,
     StoreAndReturn, UseVerdict, Evaluate, ClientGone, AtRest, vars, envVars
<1> QED BY <1>1, <1>2, <1>3, <1>4

-----------------------------------------------------------------------------
(* How old an answer can be.                                               *)

\* What was once right stays so: the evidence only becomes younger.
LEMMA EvidenceKept ==
  ASSUME TypeOK, History, [Next]_vars, NEW t \in Tokens, NEW ok \in BOOLEAN
  PROVE  /\ LastRight(t, ok) \in Int /\ LastRight(t, ok)' \in Int
         /\ LastRight(t, ok) <= LastRight(t, ok)'
BY HistoryStep DEF LastRight, TypeOK

\* The TTLs are settled at the start.
LEMMA TTLKept ==
  ASSUME [Next]_vars
  PROVE  ttl' = ttl /\ \A ok: TTL(ok)' = TTL(ok)
<1>1. ttl' = ttl
  BY DEF Next, RequestStep, ContextEndsReview, Hit, Miss, ReviewFails, ReviewReturns,
     StoreAndReturn, UseVerdict, Evaluate, ClientGone, TokenChanges, Tick, AtRest, vars, envVars
<1> QED BY <1>1 DEF TTL

\* Every step keeps AnswerEvidence: the API server judges at an instant at
\* which the caller is waiting.
LEMMA AnswerStep ==
  TypeOK /\ StagesMatch /\ Timing /\ History /\ AnswerEvidence /\ [Next]_vars => AnswerEvidence'
<1> SUFFICES ASSUME TypeOK, StagesMatch, Timing, History, AnswerEvidence, [Next]_vars,
                    NEW r \in Requests, answer'[r] # "none"
             PROVE  (LastRight(token[r], answer[r] = "accepted") >= arrived[r])'
  BY DEF AnswerEvidence
<1> USE DEF envVars, reqVars
<1>1. CASE answer'[r] = answer[r] /\ token'[r] = token[r] /\ arrived'[r] = arrived[r]
  <2>1. token[r] \in Tokens /\ (answer[r] = "accepted") \in BOOLEAN
    BY <1>1 DEF StagesMatch
  <2>2. LastRight(token[r], answer[r] = "accepted") >= arrived[r] /\ arrived[r] \in Nat
    BY <1>1 DEF AnswerEvidence, TypeOK
  <2>3. LastRight(token[r], answer[r] = "accepted")' >= LastRight(token[r], answer[r] = "accepted")
    BY <1>1, <2>1, HistoryStep DEF LastRight, TypeOK
  <2> QED BY <1>1, <2>1, <2>2, <2>3, HistoryStep DEF LastRight, TypeOK
<1>2. CASE Evaluate(r)
  <2>1. token[r] \in Tokens /\ arrived[r] <= now /\ UNCHANGED <<token, arrived, lastValid, lastInvalid>>
    BY <1>2 DEF Evaluate, StagesMatch, Timing
  <2>2. answer'[r] = IF token[r] \in valid THEN "accepted" ELSE "rejected"
    BY <1>2 DEF Evaluate, TypeOK
  <2> QED BY <2>1, <2>2 DEF History, LastRight, TypeOK
<1>3. \/ Evaluate(r)
      \/ answer'[r] = answer[r] /\ token'[r] = token[r] /\ arrived'[r] = arrived[r]
  <2>1. ASSUME NEW s \in Requests, NEW t \in Tokens, Hit(s, t) \/ Miss(s, t) PROVE s # r
    BY <2>1 DEF Hit, Miss, Arrive, StagesMatch, TypeOK
  <2>2. ASSUME NEW s \in Requests, UseVerdict(s) PROVE s # r
    BY <2>2 DEF UseVerdict, StagesMatch, TypeOK
  <2>3. ASSUME NEW s \in Requests, ReviewFails(s) \/ StoreAndReturn(s) PROVE s # r
    BY <2>3 DEF ReviewFails, StoreAndReturn, TypeOK
  <2>4. ASSUME NEW s \in Requests, NEW t \in Tokens, Hit(s, t) \/ Miss(s, t)
        PROVE answer'[r] = answer[r] /\ token'[r] = token[r] /\ arrived'[r] = arrived[r]
    BY <2>1, <2>4 DEF Hit, Miss, Arrive, TypeOK
  <2>5. ASSUME NEW s \in Requests, UseVerdict(s) \/ ReviewFails(s) \/ StoreAndReturn(s)
        PROVE answer'[r] = answer[r] /\ token'[r] = token[r] /\ arrived'[r] = arrived[r]
    BY <2>2, <2>3, <2>5 DEF UseVerdict, ReviewFails, StoreAndReturn, TypeOK
  <2>6. ASSUME NEW s \in Requests, Evaluate(s), s # r
        PROVE answer'[r] = answer[r] /\ token'[r] = token[r] /\ arrived'[r] = arrived[r]
    BY <2>6 DEF Evaluate, TypeOK
  <2>7. ASSUME UNCHANGED <<answer, token, arrived>>
        PROVE answer'[r] = answer[r] /\ token'[r] = token[r] /\ arrived'[r] = arrived[r]
    BY <2>7
  <2> QED
    BY <2>4, <2>5, <2>6, <2>7
       DEF Next, RequestStep, ContextEndsReview, ReviewReturns, ClientGone, TokenChanges, Tick, AtRest, vars
<1> QED BY <1>1, <1>2, <1>3

\* Every step keeps CacheEvidence: an answer is stored at most a timeout after
\* it was right.
LEMMA CacheStep ==
  TypeOK /\ StagesMatch /\ Timing /\ History /\ AnswerEvidence /\ CacheEvidence /\ [Next]_vars
    => CacheEvidence'
<1> SUFFICES ASSUME TypeOK, StagesMatch, Timing, History, AnswerEvidence, CacheEvidence, [Next]_vars,
                    NEW t \in Tokens, cache'[t] # NoEntry
             PROVE  (/\ TTL(cache[t].ok) > 0
                     /\ cache[t].expires - LastRight(t, cache[t].ok) <= TTL(cache[t].ok) + Timeout)'
  BY DEF CacheEvidence
<1>0. TypeOK' /\ ttl \in Configs
  BY TypeStep DEF TypeOK
<1>1. CASE cache'[t] = cache[t]
  <2> DEFINE ok == cache[t].ok
  <2>1. ok \in BOOLEAN /\ cache[t].expires \in Int
    BY DEF TypeOK
  <2>2. TTL(ok) > 0 /\ cache[t].expires - LastRight(t, ok) <= TTL(ok) + Timeout
    BY <1>1 DEF CacheEvidence
  <2>3. LastRight(t, ok) \in Int /\ LastRight(t, ok)' \in Int /\ LastRight(t, ok) <= LastRight(t, ok)'
    <3>1. /\ \A o \in BOOLEAN: LastRight(t, o) \in Int /\ LastRight(t, o)' \in Int
          /\ \A o \in BOOLEAN: LastRight(t, o) <= LastRight(t, o)'
      BY EvidenceKept
    <3> QED BY <1>1, <2>1, <3>1 DEF LastRight
  <2>4. TTL(ok)' = TTL(ok) /\ TTL(ok) \in Nat /\ Timeout \in Nat
    BY <1>0, <1>1, <2>1, TTLKept, TTLType DEF TTL
  <2> QED BY <1>1, <2>1, <2>2, <2>3, <2>4
<1>2. ASSUME NEW r \in Requests, StoreAndReturn(r), cache'[t] # cache[t]
      PROVE  (/\ TTL(cache[t].ok) > 0
              /\ cache[t].expires - LastRight(t, cache[t].ok) <= TTL(cache[t].ok) + Timeout)'
  <2> DEFINE ok == answer[r] = "accepted"
  <2>1. pc[r] = "answered" /\ token[r] \in Tokens /\ answer[r] # "none" /\ Put(token[r], ok)
    BY <1>2 DEF StoreAndReturn, StagesMatch
  <2>2. /\ t = token[r] /\ TTL(ok) > 0
        /\ cache'[t] = [ok |-> ok, expires |-> now + TTL(ok)]
    BY <1>2, <2>1, PutType
  <2>3. LastRight(t, ok) >= arrived[r] /\ now <= arrived[r] + Timeout
    BY <2>1, <2>2 DEF AnswerEvidence, Timing
  <2>4. UNCHANGED <<ttl, lastValid, lastInvalid>>
    BY <1>2 DEF StoreAndReturn, envVars
  <2>5. ok \in BOOLEAN /\ TTL(ok) \in Nat /\ Timeout \in Nat /\ now \in Nat /\ arrived[r] \in Nat
    BY <1>0, TTLType DEF TypeOK
  <2>6. LastRight(t, ok) \in Int
    BY <2>5 DEF LastRight, TypeOK
  <2> HIDE DEF ok
  <2>7. cache'[t].ok = ok /\ cache'[t].expires = now + TTL(ok)
    BY <2>2
  <2>8. TTL(cache[t].ok)' = TTL(ok) /\ LastRight(t, cache[t].ok)' = LastRight(t, ok)
    BY <2>4, <2>7 DEF TTL, LastRight
  <2> QED BY <2>2, <2>3, <2>5, <2>6, <2>7, <2>8
<1>3. (\E r \in Requests: StoreAndReturn(r)) \/ UNCHANGED cache
  BY DEF Next, RequestStep, ContextEndsReview, Hit, Miss, ReviewFails, ReviewReturns,
     UseVerdict, Evaluate, ClientGone, TokenChanges, Tick, AtRest, vars
<1> QED BY <1>1, <1>2, <1>3

\* A cached answer that has not expired was right no longer ago.
LEMMA HitIsRight ==
  ASSUME TypeOK, CacheEvidence, NEW t \in Tokens, Fresh(t)
  PROVE  now <= LastRight(t, cache[t].ok) + Lag(TTL(cache[t].ok))
<1> DEFINE ok == cache[t].ok
<1>1. ok \in BOOLEAN /\ cache[t].expires \in Int /\ now \in Nat /\ ttl \in Configs
  BY DEF TypeOK
<1>2. now <= cache[t].expires /\ TTL(ok) > 0
      /\ cache[t].expires - LastRight(t, ok) <= TTL(ok) + Timeout
  BY DEF Fresh, CacheEvidence
<1>3. LastRight(t, ok) \in Int /\ TTL(ok) \in Nat /\ Timeout \in Nat
  BY <1>1, TTLType DEF LastRight, TypeOK
<1>4. Lag(TTL(ok)) = TTL(ok) + Timeout
  BY <1>2, <1>3 DEF Lag
<1> HIDE DEF ok
<1>5. now <= LastRight(t, ok) + Lag(TTL(ok))
  BY <1>1, <1>2, <1>3, <1>4
<1> QED BY <1>5 DEF ok

\* An answer that comes back was right since the caller came in.
LEMMA AnswerIsRight ==
  ASSUME TypeOK, StagesMatch, Timing, AnswerEvidence, NEW r \in Requests, pc[r] = "answered"
  PROVE  /\ answer[r] \in {"accepted", "rejected"} /\ token[r] \in Tokens
         /\ arrived[r] <= LastRight(token[r], answer[r] = "accepted")
         /\ now <= LastRight(token[r], answer[r] = "accepted") + Timeout
<1>1. answer[r] \in {"accepted", "rejected"} /\ token[r] \in Tokens
  BY DEF StagesMatch, TypeOK
<1>2. arrived[r] <= LastRight(token[r], answer[r] = "accepted")
  BY <1>1 DEF AnswerEvidence, LastRight, TypeOK
<1>3. now <= arrived[r] + Timeout
  BY DEF Timing
<1> QED BY <1>1, <1>2, <1>3, ReviewAssumption DEF LastRight, TypeOK

\* Every step keeps VerdictBound: a verdict is used before time passes.
LEMMA VerdictStep ==
  TypeOK /\ StagesMatch /\ Timing /\ History /\ AnswerEvidence /\ CacheEvidence /\ VerdictBound
    /\ [Next]_vars => VerdictBound'
<1> SUFFICES ASSUME TypeOK, StagesMatch, Timing, History, AnswerEvidence, CacheEvidence, VerdictBound,
                    [Next]_vars, NEW r \in Requests, verdict'[r] \in {"accepted", "rejected"}
             PROVE  (/\ verdict[r] = "accepted" => now - lastValid[token[r]] <= ttl.success + Timeout
                     /\ verdict[r] = "rejected" => now - lastInvalid[token[r]] <= ttl.failure + Timeout)'
  BY DEF VerdictBound
<1> DEFINE Goal == (/\ verdict[r] = "accepted" => now - lastValid[token[r]] <= ttl.success + Timeout
                    /\ verdict[r] = "rejected" => now - lastInvalid[token[r]] <= ttl.failure + Timeout)'
<1> USE DEF envVars, reqVars
<1>0. /\ now \in Nat /\ ttl.success \in Nat /\ ttl.failure \in Nat /\ Timeout \in Nat
      /\ \A t \in Tokens: lastValid[t] \in Int /\ lastInvalid[t] \in Int
  BY TTLType DEF TypeOK
<1>1. CASE verdict'[r] = verdict[r]
  <2>1. pc[r] = "verdict" /\ token[r] \in Tokens
    BY <1>1 DEF StagesMatch
  <2>2. UNCHANGED now
    <3>1. ~Tick
      BY <2>1 DEF Tick, Quiet, Pending
    <3> QED BY <3>1 DEF Next, RequestStep, ContextEndsReview, Hit, Miss, ReviewFails, ReviewReturns,
         StoreAndReturn, UseVerdict, Evaluate, ClientGone, TokenChanges, AtRest, vars
  <2>3. token'[r] = token[r] /\ ttl' = ttl
    <3>1. ASSUME NEW s \in Requests, NEW t \in Tokens, Hit(s, t) \/ Miss(s, t) PROVE token'[r] = token[r]
      BY <2>1, <3>1 DEF Hit, Miss, Arrive, TypeOK
    <3>2. ASSUME NEW s \in Requests, UseVerdict(s) PROVE token'[r] = token[r]
      BY <3>2 DEF UseVerdict, TypeOK
    <3>3. \/ UNCHANGED token \/ \E s \in Requests: UseVerdict(s)
          \/ \E s \in Requests, t \in Tokens: Hit(s, t) \/ Miss(s, t)
      BY DEF Next, RequestStep, ContextEndsReview, ReviewFails, ReviewReturns,
         StoreAndReturn, Evaluate, ClientGone, TokenChanges, Tick, AtRest, vars
    <3> QED BY <3>1, <3>2, <3>3, TTLKept
  <2>4. /\ lastValid[token[r]] <= lastValid'[token[r]] /\ lastInvalid[token[r]] <= lastInvalid'[token[r]]
        /\ lastValid'[token[r]] \in Int /\ lastInvalid'[token[r]] \in Int
    BY <2>1, HistoryStep
  <2>5. /\ verdict[r] = "accepted" => now - lastValid[token[r]] <= ttl.success + Timeout
        /\ verdict[r] = "rejected" => now - lastInvalid[token[r]] <= ttl.failure + Timeout
    BY DEF VerdictBound
  <2> QED BY <1>0, <1>1, <2>1, <2>2, <2>3, <2>4, <2>5
<1>2. ASSUME NEW t \in Tokens, Hit(r, t) PROVE Goal
  <2>1. /\ Fresh(t) /\ token'[r] = t /\ UNCHANGED <<now, ttl, lastValid, lastInvalid>>
        /\ verdict'[r] = IF cache[t].ok THEN "accepted" ELSE "rejected"
    BY <1>2 DEF Hit, Arrive, TypeOK
  <2>2. cache[t].ok \in BOOLEAN
    BY DEF TypeOK
  <2>3. now <= LastRight(t, cache[t].ok) + Lag(TTL(cache[t].ok))
    BY <2>1, HitIsRight
  <2> QED BY <1>0, <2>1, <2>2, <2>3 DEF LastRight, TTL, Lag
<1>3. CASE StoreAndReturn(r)
  <2>1. /\ pc[r] = "answered" /\ verdict'[r] = answer[r]
        /\ UNCHANGED <<now, ttl, lastValid, lastInvalid, token>>
    BY <1>3 DEF StoreAndReturn, TypeOK
  <2>2. /\ token[r] \in Tokens
        /\ now <= LastRight(token[r], answer[r] = "accepted") + Timeout
    BY <2>1, AnswerIsRight
  <2> QED BY <1>0, <2>1, <2>2 DEF LastRight
<1>4. \/ verdict'[r] = verdict[r] \/ StoreAndReturn(r) \/ \E t \in Tokens: Hit(r, t)
  <2>1. ASSUME NEW s \in Requests, ReviewFails(s) \/ UseVerdict(s) PROVE verdict'[r] = verdict[r]
    BY <2>1 DEF ReviewFails, UseVerdict, TypeOK
  <2>2. ASSUME NEW s \in Requests, s # r, StoreAndReturn(s) \/ \E t \in Tokens: Hit(s, t)
        PROVE  verdict'[r] = verdict[r]
    BY <2>2 DEF StoreAndReturn, Hit, TypeOK
  <2>3. ASSUME UNCHANGED verdict PROVE verdict'[r] = verdict[r]
    BY <2>3
  <2> QED
    BY <2>1, <2>2, <2>3
       DEF Next, RequestStep, ContextEndsReview, Miss, ReviewReturns, Evaluate, ClientGone,
           TokenChanges, Tick, AtRest, vars
<1> QED BY <1>1, <1>2, <1>3, <1>4

\* The inductive invariant holds initially.
LEMMA IInvInit == Init => IInv
<1> SUFFICES ASSUME Init PROVE IInv
  OBVIOUS
<1>1. TypeOK
  BY TypeInit
<1>2. StagesMatch /\ Timing /\ VerdictBound
  BY DEF Init, StagesMatch, Timing, VerdictBound
<1>3. AnswerEvidence /\ CacheEvidence
  BY DEF Init, AnswerEvidence, CacheEvidence
<1>4. History
  <2>1. Never \in Int /\ Never <= 0
    BY ReviewAssumption DEF Never
  <2> QED BY <2>1 DEF Init, History
<1> QED BY <1>1, <1>2, <1>3, <1>4 DEF IInv

\* Every step keeps it.
LEMMA IInvStep == IInv /\ [Next]_vars => IInv'
<1> SUFFICES ASSUME IInv, [Next]_vars PROVE IInv'
  OBVIOUS
<1>1. TypeOK' /\ StagesMatch' /\ Timing' /\ History'
  BY TypeStep, StagesStep, TimingStep, HistoryStep DEF IInv
<1>2. AnswerEvidence' /\ CacheEvidence' /\ VerdictBound'
  BY AnswerStep, CacheStep, VerdictStep DEF IInv
<1> QED BY <1>1, <1>2 DEF IInv

\* IInv is an invariant.
LEMMA Invariance == Spec => []IInv
BY IInvInit, IInvStep, PTL DEF Spec

\* The reviewer's state keeps its type.
THEOREM TypeCorrect == Spec => []TypeOK
<1>1. IInv => TypeOK
  BY DEF IInv
<1> QED BY <1>1, Invariance, PTL

\* A token is accepted only if it was valid, and rejected only if it was not,
\* at some instant of the last TTL of that class and one review timeout,
\* although concurrent misses may store an older answer over a newer one
\* (cachedTokenReview.AuthenticateToken).
THEOREM VerdictsBounded == Spec => []VerdictBound
<1>1. IInv => VerdictBound
  BY DEF IInv
<1> QED BY <1>1, Invariance, PTL

-----------------------------------------------------------------------------
(* The refinement of DelegatedDecision.                                    *)

\* The variables of DelegatedDecision, as Decision instantiates them.
callerBar ==
  [r \in Requests |->
     IF pc[r] = "idle" THEN "idle" ELSE IF pc[r] = "verdict" THEN "told" ELSE "asking"]
askedBar == [r \in Requests |-> {token[r]} \cap Tokens]
decisionBar ==
  [r \in Requests |->
     IF verdict[r] = "accepted" THEN "yes" ELSE IF verdict[r] = "rejected" THEN "no"
     ELSE verdict[r]]
lagBar == [yes |-> Lag(ttl.success), no |-> Lag(ttl.failure)]

\* An initial state is one of DelegatedDecision: a token never valid is older
\* than every lag.
LEMMA RefinesInit == Init => Decision!Init
<1> SUFFICES ASSUME Init PROVE Decision!Init
  OBVIOUS
<1>1. /\ Lag(ttl.success) \in Nat /\ Lag(ttl.failure) \in Nat
      /\ Never + Lag(ttl.success) < 0 /\ Never + Lag(ttl.failure) < 0
  BY ReviewAssumption DEF Init, Lag, Never
<1>2. NoToken \notin Tokens
  BY ReviewAssumption DEF NoToken
<1> QED BY <1>1, <1>2 DEF Init, Decision!Init

\* What may be told: a yes or a no for which there is evidence, and always that
\* the check failed.
LEMMA JustifiedVerdict ==
  ASSUME TypeOK, NEW t \in Tokens, NEW at \in Nat, NEW v \in {"accepted", "rejected", "error"},
         v # "error" => at <= LastRight(t, v = "accepted") + Lag(TTL(v = "accepted"))
  PROVE  (IF v = "accepted" THEN "yes" ELSE IF v = "rejected" THEN "no" ELSE v)
           \in Decision!Justified({t}, at)
BY DEF Decision!Justified, LastRight, TTL

\* A miss is a caller that asks.
LEMMA RefinesMiss ==
  ASSUME IInv, NEW r \in Requests, NEW t \in Tokens, Miss(r, t)
  PROVE  Decision!Ask(r)
BY DEF IInv, TypeOK, Miss, Arrive, envVars, Decision!Ask, Decision!authVars

\* A hit is a caller that is told at once.
LEMMA RefinesHit ==
  ASSUME IInv, NEW r \in Requests, NEW t \in Tokens, Hit(r, t)
  PROVE  Decision!TellAtOnce(r)
<1> DEFINE v == IF cache[t].ok THEN "accepted" ELSE "rejected"
           d == IF v = "accepted" THEN "yes" ELSE IF v = "rejected" THEN "no" ELSE v
<1>0. TypeOK /\ CacheEvidence
  BY DEF IInv
<1>1. /\ Fresh(t) /\ pc[r] = "idle" /\ pc' = [pc EXCEPT ![r] = "verdict"]
      /\ token' = [token EXCEPT ![r] = t] /\ arrived' = [arrived EXCEPT ![r] = now]
      /\ verdict' = [verdict EXCEPT ![r] = v]
      /\ UNCHANGED <<ttl, now, valid, lastValid, lastInvalid>>
  BY DEF Hit, Arrive, envVars
<1>2. d \in Decision!Justified({t}, now)
  <2>1. now <= LastRight(t, cache[t].ok) + Lag(TTL(cache[t].ok))
    BY <1>0, <1>1, HitIsRight
  <2>2. v \in {"accepted", "rejected"} /\ (v = "accepted") = cache[t].ok /\ now \in Nat
    BY <1>0 DEF TypeOK
  <2> QED BY <1>0, <2>1, <2>2, JustifiedVerdict
<1> HIDE DEF v
<1>3. callerBar[r] = "idle" /\ callerBar' = [callerBar EXCEPT ![r] = "told"]
  BY <1>0, <1>1 DEF TypeOK, callerBar
<1>4. askedBar' = [askedBar EXCEPT ![r] = {t}]
  BY <1>0, <1>1 DEF TypeOK, askedBar
<1>5. decisionBar' = [decisionBar EXCEPT ![r] = d]
  BY <1>0, <1>1 DEF TypeOK, decisionBar
<1>6. UNCHANGED lagBar
  BY <1>1 DEF lagBar, Lag
<1> HIDE DEF d
<1>7. {t} \in SUBSET Tokens
  OBVIOUS
<1> QED
  BY <1>1, <1>2, <1>3, <1>4, <1>5, <1>6, <1>7
     DEF Decision!TellAtOnce, Decision!authVars, callerBar, askedBar, decisionBar, lagBar

\* A caller that waits is told the verdict it gets.
LEMMA TellBars ==
  ASSUME TypeOK, StagesMatch, NEW r \in Requests, pc[r] \in {"sent", "decided", "answered"},
         NEW v \in {"accepted", "rejected", "error"},
         v # "error" =>
           arrived[r] <= LastRight(token[r], v = "accepted") + Lag(TTL(v = "accepted")),
         pc' = [pc EXCEPT ![r] = "verdict"], verdict' = [verdict EXCEPT ![r] = v],
         UNCHANGED <<ttl, now, valid, lastValid, lastInvalid, token, arrived>>
  PROVE  Decision!Tell(r)
<1> DEFINE d == IF v = "accepted" THEN "yes" ELSE IF v = "rejected" THEN "no" ELSE v
<1>1. token[r] \in Tokens /\ arrived[r] \in Nat
  BY DEF StagesMatch, TypeOK
<1>2. d \in Decision!Justified({token[r]}, arrived[r])
  BY <1>1, JustifiedVerdict
<1>3. callerBar[r] = "asking" /\ callerBar' = [callerBar EXCEPT ![r] = "told"]
  BY DEF TypeOK, callerBar
<1>4. askedBar[r] = {token[r]} /\ UNCHANGED <<askedBar, lagBar>>
  BY <1>1 DEF askedBar, lagBar, Lag
<1>5. decisionBar' = [decisionBar EXCEPT ![r] = d]
  BY DEF TypeOK, decisionBar
<1> HIDE DEF d
<1> QED
  BY <1>2, <1>3, <1>4, <1>5
     DEF Decision!Tell, Decision!authVars, callerBar, askedBar, decisionBar, lagBar

\* A review that fails, or whose context ends, tells its caller so.
LEMMA RefinesFailure ==
  ASSUME IInv, NEW r \in Requests, ReviewFails(r)
  PROVE  Decision!Tell(r)
<1>1. /\ pc[r] \in {"sent", "decided", "answered"}
      /\ pc' = [pc EXCEPT ![r] = "verdict"] /\ verdict' = [verdict EXCEPT ![r] = "error"]
      /\ UNCHANGED <<ttl, now, valid, lastValid, lastInvalid, token, arrived>>
  BY DEF ReviewFails, Pending, envVars, reqVars
<1> QED BY <1>1, TellBars DEF IInv

\* A review that returns tells its caller an answer that was right since it
\* came in, and so within the lag whether or not its class is cached.
LEMMA RefinesReturn ==
  ASSUME IInv, NEW r \in Requests, StoreAndReturn(r)
  PROVE  Decision!Tell(r)
<1> DEFINE ok == answer[r] = "accepted"
<1>1. /\ pc[r] = "answered"
      /\ pc' = [pc EXCEPT ![r] = "verdict"] /\ verdict' = [verdict EXCEPT ![r] = answer[r]]
      /\ UNCHANGED <<ttl, now, valid, lastValid, lastInvalid, token, arrived>>
  BY DEF StoreAndReturn, envVars, reqVars
<1>2. /\ answer[r] \in {"accepted", "rejected"} /\ token[r] \in Tokens
      /\ arrived[r] <= LastRight(token[r], ok)
  BY <1>1, AnswerIsRight DEF IInv
<1>3. /\ arrived[r] \in Nat /\ LastRight(token[r], ok) \in Int /\ ok \in BOOLEAN
      /\ ttl \in Configs
  BY <1>2 DEF IInv, TypeOK, LastRight
<1>4. Lag(TTL(ok)) \in Nat
  <2>1. TTL(ok) \in Nat /\ Timeout \in Nat
    BY <1>3, TTLType
  <2> QED BY <2>1 DEF Lag
<1>5. arrived[r] <= LastRight(token[r], ok) + Lag(TTL(ok))
  BY <1>2, <1>3, <1>4
<1> QED BY <1>1, <1>2, <1>5, TellBars DEF IInv

\* A caller that uses its verdict has acted on it.
LEMMA RefinesUse ==
  ASSUME IInv, NEW r \in Requests, UseVerdict(r)
  PROVE  Decision!Act(r)
<1>0. TypeOK /\ NoToken \notin Tokens
  BY ReviewAssumption DEF IInv, NoToken
<1>1. callerBar[r] = "told" /\ callerBar' = [callerBar EXCEPT ![r] = "idle"]
  BY <1>0 DEF UseVerdict, TypeOK, callerBar
<1>2. askedBar' = [askedBar EXCEPT ![r] = {}]
  BY <1>0 DEF UseVerdict, TypeOK, askedBar
<1>3. decisionBar' = [decisionBar EXCEPT ![r] = "none"]
  BY <1>0 DEF UseVerdict, TypeOK, decisionBar
<1>4. /\ arrived' = [arrived EXCEPT ![r] = 0] /\ UNCHANGED lagBar
      /\ UNCHANGED <<now, valid, lastValid, lastInvalid>>
  BY DEF UseVerdict, envVars, lagBar, Lag
<1> QED
  BY <1>1, <1>2, <1>3, <1>4
     DEF Decision!Act, Decision!authVars, callerBar, askedBar, decisionBar, lagBar

\* Time passes only while those who wait are patient.
LEMMA RefinesTick ==
  ASSUME IInv, Tick
  PROVE  Decision!Tick
<1>1. UNCHANGED <<callerBar, askedBar, arrived, decisionBar, lagBar, valid>>
  BY DEF Tick, reqVars, callerBar, askedBar, decisionBar, lagBar, Lag
<1>2. ASSUME NEW r \in Requests, callerBar[r] = "asking" PROVE now < arrived[r] + Timeout
  <2>1. pc[r] # "idle" /\ pc[r] # "verdict"
    BY <1>2 DEF callerBar
  <2>2. ~(deadline[r] <= now) /\ deadline[r] = arrived[r] + Timeout
    BY <2>1 DEF Tick, Quiet, ContextDone, IInv, Timing
  <2> QED BY <2>2, ReviewAssumption DEF IInv, TypeOK
<1>3. /\ now' = now + 1
      /\ lastValid' = [t \in Tokens |-> IF t \in valid THEN now + 1 ELSE lastValid[t]]
      /\ lastInvalid' = [t \in Tokens |-> IF t \in valid THEN lastInvalid[t] ELSE now + 1]
  BY DEF Tick
<1> QED
  BY <1>1, <1>2, <1>3
     DEF Decision!Tick, Decision!callVars, callerBar, askedBar, decisionBar, lagBar

\* A token that changes is a question about which the authority changes its mind.
LEMMA RefinesChange ==
  ASSUME NEW t \in Tokens, TokenChanges(t)
  PROVE  Decision!Change(t)
<1>1. UNCHANGED <<callerBar, askedBar, arrived, decisionBar, lagBar, now>>
  BY DEF TokenChanges, reqVars, callerBar, askedBar, decisionBar, lagBar, Lag
<1> QED
  BY <1>1 DEF TokenChanges, Decision!Change, Decision!callVars, callerBar, askedBar,
              decisionBar, lagBar

\* What happens between the caller's question and its answer does not show.
LEMMA RefinesStutter ==
  ASSUME IInv,
         \/ \E r \in Requests: ReviewReturns(r) \/ Evaluate(r) \/ ClientGone(r)
         \/ UNCHANGED vars
  PROVE  UNCHANGED Decision!dvars
<1>1. ASSUME NEW r \in Requests, ReviewReturns(r) PROVE UNCHANGED callerBar
  BY <1>1 DEF ReviewReturns, callerBar, IInv, TypeOK
<1>2. ASSUME NEW r \in Requests, Evaluate(r) PROVE UNCHANGED callerBar
  BY <1>2 DEF Evaluate, callerBar, IInv, TypeOK
<1>3. UNCHANGED callerBar
  BY <1>1, <1>2 DEF ClientGone, vars, callerBar
<1>4. UNCHANGED <<ttl, now, valid, lastValid, lastInvalid, token, arrived, verdict>>
  BY DEF ReviewReturns, Evaluate, ClientGone, vars, envVars, reqVars
<1>5. UNCHANGED <<askedBar, decisionBar, lagBar>>
  BY <1>4 DEF askedBar, decisionBar, lagBar, Lag
<1> QED
  BY <1>3, <1>4, <1>5 DEF Decision!dvars, callerBar, askedBar, decisionBar, lagBar

\* Every step is a step of DelegatedDecision, or none.
LEMMA RefinesStep == IInv /\ [Next]_vars => [Decision!Next]_(Decision!dvars)
<1> SUFFICES ASSUME IInv, [Next]_vars PROVE Decision!Next \/ UNCHANGED Decision!dvars
  OBVIOUS
<1>1. ASSUME NEW r \in Requests, NEW t \in Tokens, Hit(r, t) \/ Miss(r, t) PROVE Decision!Next
  BY <1>1, RefinesHit, RefinesMiss DEF Decision!Next
<1>2. ASSUME NEW r \in Requests, ReviewFails(r) \/ StoreAndReturn(r) \/ UseVerdict(r)
      PROVE  Decision!Next
  BY <1>2, RefinesFailure, RefinesReturn, RefinesUse DEF Decision!Next
<1>3. ASSUME NEW t \in Tokens, TokenChanges(t) PROVE Decision!Next
  BY <1>3, RefinesChange DEF Decision!Next
<1>4. CASE Tick
  BY <1>4, RefinesTick DEF Decision!Next
<1>5. CASE \/ \E r \in Requests: ReviewReturns(r) \/ Evaluate(r) \/ ClientGone(r)
           \/ UNCHANGED vars
  BY <1>5, RefinesStutter
<1> QED
  BY <1>1, <1>2, <1>3, <1>4, <1>5 DEF Next, RequestStep, ContextEndsReview, AtRest

\* AuthenticateToken implements DelegatedDecision: a caller is told within the
\* review timeout; it is told that its token is good only if it was, and that
\* it is bad only if it was, no longer than the lag of that class before it
\* came in (cachedTokenReview.AuthenticateToken).
THEOREM Refines == Spec => ImplementsDecision
BY RefinesInit, RefinesStep, Invariance, PTL DEF Spec, ImplementsDecision, Decision!Spec

=============================================================================
