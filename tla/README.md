# TLA+ specification of kube-oidc-proxy

kube-oidc-proxy is a reverse proxy in front of a Kubernetes API server. It
authenticates OIDC bearer tokens, turns the verified identity into impersonation
headers, and forwards the request with its own credentials. These modules model
the parts of it whose correctness depends on the order of steps: who may act as
whom, how old an answer may be, what is recorded, who the client is said to be,
when the pod is ready, and how the process stops. TLC checks them on small
instances; TLAPS proves all their safety properties, and three refinements, for all
sizes.

## Inventory

| Component | Source | State it keeps | Operations | Interacts with |
|---|---|---|---|---|
| Impersonation authorization | `pkg/proxy/subjectaccessreview` | decision cache (LRU, TTL per class), flights, one budget per request | `CheckAuthorizedForImpersonation`, `sharedLiveCheck`, `liveCheck`, `decisionCache.get/put` | called by the handler chain; asks the API server |
| Handler chain | `pkg/proxy/handlers.go`, `proxy.go`, `context/` | per-request context: user, method, target, no-impersonation mark | authenticate, token review, reserved identities, impersonation, round trip, error handler | all of the below |
| Lifecycle filter, gauges | `pkg/proxy/lifecycle.go`, `pkg/metrics/request.go` | first status, hijack mark, termination holder; two shared gauges | `WriteHeader`, `Hijack`, the deferred terminal record | wraps the chain |
| Access log | `pkg/proxy/logging/accesslog.go` | the mark that a decision was written | `LogDecision` | round trip and error handler |
| Audit | `pkg/proxy/audit` | the backend | `WithRequest`, `WithUnauthorized`, `Run`, `Shutdown` | innermost wrap of the chain; a pre-shutdown hook |
| TokenReview | `pkg/proxy/tokenreview` | result cache (LRU, TTL per class) | `AuthenticateToken`, cached and live | called by the chain when OIDC refuses a token |
| Readiness probe | `pkg/probe` | initialized issuers, readiness latch, pending records; a listener | `Check`, `SetServing`, `Start`, `Shutdown`, `Wait` | asks the OIDC authenticators; started and stopped by `run.go` |
| Process | `cmd/app/run.go`, `pkg/util/signals`, `pkg/proxy/hooks`, `pkg/metrics/server.go` | stop channel, two contexts, two listeners, the hook registry | start sequence, signal handler, `drain` | starts and stops everything |
| Warning limiter | `pkg/logging/ratelimit.go`, `proxy.go` | buckets and drop counts per reason | `Allow`, `Flush`, `flushWarnLimiter` | handlers that warn; the stop channel |
| Client address, request id | `context/context.go`, `logging/accesslog.go`, `requestid.go` | trusted networks; per request the sent chain, the cached address, the ids | `SanitizeForwardHeaders`, `RemoteAddr`, `ResolveClientIP` and its copy, `withRequestID` | chain, access log, audit, upstream |
| Load generator's port-forward | `hack/metrics-demo/load/main.go` | the published forward, a closed flag, a context; per forward a kubectl and its waiter | `open`, `reopen`, `Close`, `startPortForward` | the load generator, kubectl |
| Options, logging, metrics catalogue | `cmd/app/options`, `pkg/logging`, `pkg/metrics` | none that steers the proxy | parsing, formatting, declarations | everyone |

What is hard here:

* *Sharing.* Requests that ask the same access question join one flight that
  runs on the context of whoever came first. The leader may hang up; a waiter's
  budget may run out while the answer arrives.
* *Age.* Two caches hold verdicts on rules and tokens that change behind them,
  and a verdict is already old when it is stored.
* *Endings.* A client that leaves, an API server that resets, a panic and a
  hijacked stream end a request in ways that look alike, and one access
  decision, one terminal record and two gauges have to come out right.
* *Rewriting.* The forwarding headers are rewritten in place, extended by the
  reverse proxy, and resolved again by five readers at different stages.
* *Stopping.* A signal may come at any step of the start; four goroutines stop
  four servers, and only timeouts end the waits. A tunnel is closed while it
  reopens.

The properties that make each component correct are listed run by run below.
`PROJECT.json` lists the hazards, line by line, with the properties that watch them.

## Modules

### SubjectAccessReview

One request is one goroutine walking its impersonation headers. `pc` says where
it is: `walk` (the loop over `req.Header`), `lookup`, `miss`, `waiting` (in the
`select` of `sharedLiveCheck`), `direct` (an uncacheable question), `verdict`,
`done`. `Arrive` is the entry of `CheckAuthorizedForImpersonation` with its early
refusals; `NextHeaderValue` picks the next value in any order of the keys, as
Go's map iteration does, and `Consumed` says which values the loop looks at.
`DoChan` joins or leads a flight, `FlightStore` and `FlightDeliver` are the
function run by singleflight and its delivery, `FlightResult` and `MustRetry` the
waiter's side. `Evaluate`, `Answered`, `ApiError` and `ContextEndsCall` split a
live call, so that the rules may change between evaluation and return.

Time is a counter. `Tick` is enabled only when every goroutine waits for the API
server: steps inside the process take no time on a clock that counts TTLs and
budgets. The eviction victim of a full cache is a free choice, which includes the
least recently used entry.

`Decision` maps this state to DelegatedDecision, below.

### RequestPipeline

One `pc` value per handler of `withHandlers`, one action per handler. A handler
that fails goes through `HandleError`, which writes the status, the denial
(`LogDenied`, only if there is no decision yet) and the audit event in the order
of `newErrorHandler`. `RoundTrip` chooses the transport and records the
admission. `UpstreamFails`, `UpstreamCanceled`, `UpstreamAnswers`, `Upgrade`,
`StreamEnds`, `CopyFails` and `HandlerPanics` are the ways the hop can go;
`Complete` is the deferred function of `withRequestLifecycle`. The impersonation
check and the token review are free choices among what SubjectAccessReview and
TokenReview can return. An admitted request loses the impersonation headers of its
client (`HeadersRemoved`): client-go's round tripper adds none to a request that has
some (`Impersonated`). `ClientGone` may happen at every point.

### ReadinessProbe

Any number of overlapping calls of `Check`: `Begin` (snapshot under the lock),
`Probe` per issuer without the lock, `Record` (second critical section). The
server part has the listener's states and the owner's `select`. `Load` is an
issuer's authenticator completing its initialization. An answer counts as
`verified` when it is neither "not initialized" nor a transient failure, whether
keys were fetched or not: that is all the code looks at, and all that
`ReadyMeansInitialized` promises. Whether one issuer suffices or all are
required is `HealthCheck.requireAll`, fixed by `Init`.

### TokenReview

Callers of `AuthenticateToken`: `Hit` or `Miss`, then `ReviewReturns`,
`ReviewFails` or `ContextEndsReview`, then `StoreAndReturn`. There is no
sharing, so an older answer may be stored over a newer one. The configured TTLs
are a variable fixed by `Init`, so that one run covers several settings. The cache key is
the token: the HMAC is taken to be injective.

### ProcessLifecycle

The main goroutine of `RunE` as `pc`: `start_metrics`, `configure`,
`start_probe`, `run_proxy`, `await`, `wait_probe`, `hooks`, `stop_metrics`,
`wait_metrics`, and `fail` for the deferred calls after a failed start. Beside it
run the signal handler (`Handle`), the relay of the stop channel (`RelayStop`),
the owners of the two listeners (`OwnerClose`, `OwnerShutdown`, `Drained`,
`DrainOverruns`; both servers have the same code) and the secure server, which is
k8s.io/apiserver's `RunServer`, modelled from how `serve` and `RunE` use its two
channels. The only hook the program registers is `AuditBackend`. `failures` is a
history of what went wrong; the exit status is computed from the error fields the
code has. `SetServing` is in ReadinessProbe.

### DelegatedDecision

What both reviewers promise, with no cache, flight, call or context in it. A
caller asks a set of questions of an authority whose mind changes. `Tell` may
answer yes only if every question held, and no only if one of them did not, at
an instant no more than `lag` before the caller asked; `Tick` does not let a
caller wait longer than its `Patience`. SubjectAccessReview implements it with
the values of a request's headers as its questions (`Requested`), the lags
TTL + budget and the budget as patience; TokenReview with the one token of a
caller, the TTLs of the configuration and the review timeout; there a class
without a TTL has no lag at all, so its answers hold at some instant since the
caller came in. The refinement says more than the bounds on single answers: an
admission rests on several answers of different ages, and all of them were young
when the request arrived.

### WarnLimiter and ForwardHeaders

WarnLimiter has a bucket, a drop count and a history per reason. `Allow` and
`Drain` are critical sections of `Limiter.mu`; `EmitSummary` runs without the lock,
one reason at a time, so that handlers warn between the summaries of one
`Flush`. `FlushStarts` is the `select` of `flushWarnLimiter`: a tick or the stop,
in either order when both are ready. The clock's unit is the time in which a
bucket earns a token, a second in the program.

ForwardHeaders extends it with the requests that warn. A request is a record of
what the client sent, the headers as they are by now, the context values, and
what was made of them (access record, audit event, impersonation extra, the
request the API server receives). `xff` is the first `X-Forwarded-For` line, which
is all the proxy reads, and `later` the lines behind it; the request id is in
the `Audit-ID` header and, separately, on the context. The actions are the filters in their order:
`Arrive` is `withRequestID`, `Sanitize` and `LogForwardHeaders` are the two halves
of `withSanitizedForwardHeaders`, then the ways authentication and impersonation
end, and `Forward`, where the reverse proxy removes what the client named in
`Connection`, joins the lines and appends the peer (`Outbound`, `OutboundID`) before
`RoundTrip` writes the record. `ResolveClientIP` and `RecordResolves` are the two copies of
the resolver; `IsClient` is the reference both are measured against. Requests are
served one after the other: they share nothing but the limiter, whose `Allow` is
atomic.

### Tunnel

`tunnel` of the load generator. A forward is named by the kubectl process it runs.
`opener` is the goroutine in `newTunnel` (`Main`) or in the `reopen` started by the
death of a forward; `waiter` is the goroutine that owns `cmd.Wait`; `closer` is the
caller's deferred `Close` and the watchdog's. `TakeStop` and `Publish` are the two
critical sections of `tunnel.mu`; everything else interleaves. `stopping` counts
how often a forward's channel is closed, since the second close panics. `Delayed`
assumes that the second `reopen` sleeps outlasts the few instructions between an
announced port and its publication; without it, a forward that died unpublished
could be replaced first and then published over its replacement. `Delayed` and
`DelayCanceled` are the two cases of one `select`: once the timer has fired both are
ready on a context that is done, and Go picks either. The model does not time the
delay, so it lets the timer win on a done context earlier too.

### Composition

RequestPipeline uses the interface of SubjectAccessReview and TokenReview: the
set of outcomes they may have. ProcessLifecycle abstracts ReadinessProbe to its
listener. These are the code's own seams: no component shares mutable state
across them. ForwardHeaders is the composition of the handlers with the limiter
they share, and SubjectAccessReview and TokenReview are tied to what their callers
rely on by refinement.

Definitions preceded by a `Fault:` comment are plausible bugs. They are not part
of any specification; replacing the definition they vary must break the property
they are listed with in `PROJECT.json`.

## Runs

| Run | Instance | Shows |
|---|---|---|
| `sar` | two requests that share one question whose rule changes, or one request with any of seven header shapes (repeated, empty, unknown, too many values, oversized questions) under rules that deny at most one value; TTLs 1, budget 2, clock 6 | `FailsOnlyWhenDone`, `OneTerminalRecord`, `RevocationBound`, `GrantBound`, `AdmittedInFull`, `BudgetShared`, `EveryCheckEnds`, `ImplementsDecision` |
| `sar_allow_ttl_zero` | allow TTL 0, deny TTL 1 | violates `EnforcedPerRequest` (finding) |
| `sar_inherited_cancel` | 2 requests with 1 or 2 questions | violates `CanceledMeansClientGone` (finding) |
| `pipeline` | 2 admitted requests, or one with any credential, five identities, with and without impersonation, short and long | `OneAccessDecision`, `ForwardedIdentity`, `TerminalRecordHonest`, `GaugesExact`, `AbandonedRequestsEnd` |
| `pipeline_disabled` | `--disable-impersonation` | violates `TokenStays` (finding) |
| `pipeline_unaudited` | 1 request of any kind | violates `EveryRequestAudited` (finding) |
| `probe` | 2 checks, 2 issuers, one or all required | `ReadyMeansInitialized`, `NewestRecordCurrent`, `CleanStopDrained`, `LatchHolds`, `StopEnds`, `BecomesReady` |
| `process` | 6 configurations, up to 2 requests in flight, unlimited signals | `MetricsOutliveHooks`, `FlushAfterServing`, `HonestExit`, `ReleasedOnExit`, `StopEnds`, `RepeatedSignalsEnd` |
| `tokenreview` | 2 callers, 2 tokens, cache of 1, both classes cached or either alone, 1 change | `VerdictBound`, `EveryReviewEnds`, `ImplementsDecision` |
| `forward_headers` | 3 requests, the first with any chain of up to two hops, any ids, a second header line or headers named in `Connection`, from a proxy or a client; two trusted proxies or none; burst 1, one token earned | `OneClientAddress`, `RecordFaithful`, `EveryWarningCounted`, `EmissionRate`, `SuppressedIsReported` |
| `forward_unsent` | 1 request | violates `ForwardedForAsSent` (finding) |
| `tunnel` | 3 forwards, 2 deaths, 2 attempts, both `Close` calls, a signal | `StoppedOnce`, `NobodysKubectl`, `StaysOpen`, `CloseEnds` |

The runs `sar` and `probe` also check the `TypeOK` of their module. The type
invariant of every module is proved.

### Bounds

* *Two requests* are enough for a leader and a waiter, a request and the one it
  overtakes, or two users of a gauge. The proofs below hold for any number. `MCSpec`
  of the `sar` and `pipeline` instances keeps apart the questions that do not
  meet: requests that share a flight, and the walk of a single request's headers;
  requests that share the gauges, and the refusals of a single one. That several
  requests walk several questions under changing rules and still implement
  DelegatedDecision is the theorem `Refines`. In `sar` the
  clock starts with the first request, since nothing happens before it.
* *The clock* (`Horizon`) reaches past the last instant at which an answer stored
  at the end of a budget can be served: budget + TTL + 1. Requests that need a
  deadline beyond the horizon do not arrive, so that liveness is not lost at
  the end of time. A TTL of 1 separates "just fresh" from "just expired"; a
  budget of 2 leaves a retry some of it. A deny TTL of 0, alone or with the allow
  TTL, is left to the theorems, which hold for all TTLs.
* *One rule or token change* makes any answer stale, in either direction, since
  the initial rules are free. `sar_allow_ttl_zero` allows three.
* *Cache size 1* with two tokens forces evictions in `tokenreview`, where it is
  always the same one of the two that changes (`MCSpec`); the walk of
  `sar` asks several questions of a cache of one.
* *Two checks* let a check record results that another has overtaken, in both
  modes; what three could do is covered by the proofs, which are for any number.
* *Signals* are not bounded: the channel's buffer of 2 and the handler's count are
  the program's own bounds.
* *A second header line* and the headers named in `Connection` are combined with
  chains that are empty or have one hop: it only matters whether the first line is
  empty.
* *Chains of two hops* hold a hop that is skipped and one that decides, in any
  mixture of trusted, untrusted and malformed. *Three requests* and a burst of 1 leave
  two warnings of one reason suppressed, on either side of a flush.
* *Three forwards* let a forward that replaced a dead one die too, and its reopen
  meet both calls of `Close`.

### Fairness

* Runnable goroutines run (weak fairness of the steps of a request, an owner,
  the main goroutine, the signal handler). Go's scheduler is preemptive and the
  locks involved are held for bounded work.
* Time passes (`Tick`), and a call whose context is done returns, as client-go
  and net/http do. In `TokenReview` callers may come and go without end at one
  instant, so time needs strong fairness.
* `http.Server.Shutdown` returns when its context expires.
* In SubjectAccessReview one weak fairness of all that the process does
  (`ProxyStep`) is enough: no step undoes another.
* In WarnLimiter the flusher is scheduled and its ticker fires; in Tunnel the
  goroutines run, the ready timeout ends a silent kubectl, the watchdog sees its
  context end, and `exec.CommandContext` kills. No kubectl need ever serve.
* Nothing is assumed of the API server, of clients, of scrapes, checks or hooks.
  Where a property needs more, the assumption is its antecedent: `BecomesReady`
  holds if somebody keeps asking and a loaded issuer eventually answers
  (`ProbeFairness`); `StopEnds` of the process holds if the hook returns.
* In RequestPipeline, reviews end (their timeouts are what `EveryCheckEnds` and
  `EveryReviewEnds` are about) and a canceled context ends the round trip, the
  copy and a hijacked stream.

## Proofs

All theorems are for arbitrary sets of requests, questions, issuers and checks,
arbitrary TTLs, budgets and horizons, under the named assumptions of the modules
(`ConstantsAssumption`, `ProbeAssumption`, `LifecycleAssumption`, `ReviewAssumption`,
`PipelineAssumption`, `LimiterAssumption`, `ForwardAssumption`, `TunnelAssumption`).
They say that sizes are naturals, that timeouts and sizes are positive where the code
makes them so, that the questions are those the headers can ask, that an admitted
target has a name, that an address is not a malformed hop, and that the model's own
bounds leave room: a horizon longer than TTL and timeout, a kubectl more than deaths.

**SubjectAccessReviewProofs.** `RevocationBound` is not inductive: a verdict is
fresh because the flight, the cache entry or the inbox it came from was. `IInv`
therefore carries the evidence along the way an answer travels:

* `TypeInv`: the type invariant, that the headers only ask known questions, and
  that flights have leaders;
* `ErrorsWhenDone`: a request that holds a context error, in its call, in the result
  of a flight nobody shared or as its verdict, has a context that is done; for the
  verdict this is `FailsOnlyWhenDone`. Whose error it reports then may still be its
  leader's (`sar_inherited_cancel`);
* `Sharing`: members of a flight wait for its question, and a call in progress
  belongs to exactly one flight or direct check;
* `Timing`: deadlines are one budget after arrival, and no active request has
  passed its own with a live context; this gives `BudgetShared`;
* `History`: `lastTrue` and `lastFalse` agree with the current rules and the clock;
* `CallEvidence`, `ResultEvidence`, `CacheEvidence`: an answer in a call or an
  inbox is at most one budget old, one in the cache expires at most a TTL
  after that.

Each part has one lemma with one step per action. `OneTerminalRecord` is
inductive together with the type invariant and proved separately.

`AdmittedInFull` and the refinement need more (`WInv`): `Walked` says that what a
request has authorized, what it is asking and what is left of its headers are together
what it asked for, for any headers; `TargetEvidence` says that every value authorized
so far was allowed no longer than a TTL and a budget before the request came in.

**ReadinessProbeProofs.** `RoundsSound` says that a check runs only when the proxy
serves, that what it does not probe is initialized, that the latch it saw is still
set, and that the latch is set only when enough issuers are initialized, which is
`ReadyMeansInitialized`. With it `NewestRecordCurrent` and `LatchHolds` are inductive. `CleanStopDrained` has a
small invariant of its own.

**ProcessLifecycleProofs.** `IInv` ties the position of the main goroutine to
what must have happened by then. Beside the type (with the fact that reading the
last signal ends the process) it has `Progress` (which servers have started and
stopped, who may have canceled the metrics context, and the state of the hook, at
each `pc`), `OverrunSeen` (a stopped server with a request in flight has overrun),
`ListenersSound` (a listener's error and break are exactly its entry in
`failures`, and it drains only for a reason) and `StatusOwed` (the start or the
hook is in `failures` just when the main goroutine knows). The four safety
properties follow from it.

**RequestPipelineProofs.** Requests meet only in the two gauges, so `NextIsLocal`
reduces a step to one request and the others are framed. `DecisionInv`, `ResponseInv`
and `IdentityInv` say, handler by handler, what has been decided, what has been
written and classified and why, and whose identity the request carries;
`ForwardedIdentity` and `TerminalRecordHonest` are inductive with them, and
`OneAccessDecision` follows. `GaugesInv` adds to `GaugesExact` that finitely many
requests are in the chain, since only then do their numbers exist; the theorem holds
for an infinite set of requests.

**TokenReviewProofs.** `AnswerEvidence` and `CacheEvidence` are the argument of the
SubjectAccessReview proofs without sharing: an answer was right since the caller
came in, a cached one at most a TTL and a timeout before it expires. `StagesMatch`,
`Timing` and `History` say what a caller holds at each stage, for how long it can have
waited, and what the history variables mean. `VerdictBound` is inductive with them.

**The refinements of DelegatedDecision.** `Refines` of both modules proves
`ImplementsDecision`: the initial states map to initial states, and every step of the
detailed specification maps to a step of the abstract one or to a stutter, given the
inductive invariant of the module. The step that tells a caller its verdict carries the
argument: the evidence puts the verdict among those `Justified` allows. Where a
class of token verdicts is not cached its lag is 0: the answer was right at some instant
after the caller came in. The abstract specification has no fairness, so the
refinement is proved in full.

**WarnLimiterProofs.** All of it is about `LimiterSpec`, the limiter under arbitrary
handlers. `EmissionRate` speaks of windows that have ended and windows that have not:
`Bucket` says that the tokens left and what was emitted since any instant add up to
no more than the burst and what the time since earned, `Windows` keeps what `Bucket`
said when a window ended, `Flat` says that nothing is emitted in the future, and
`FirstBurst` that a warning is dropped only once a whole burst was emitted.
`EveryWarningCounted` needs `Reported`: a drain finds every earlier count reported.

**ForwardHeadersProofs.** `UsesLimiter` shows that the handlers' steps are steps of
`LimiterSpec`, so the limiter's theorems carry over. `OneClientAddress` rests on what
the resolvers compute. Their walk is a recursive function over the chain, and the
library's induction theorems cannot be used; instead `WalkExists` gives the function
explicitly (the last address nobody vouches for that trusted hops alone relayed) and
shows that it satisfies the recursive equation, and `WalkSees` shows that any
solution agrees with it, by the least index at which one does not
(`WFMin`, `NatLessThanWellFounded`). `Resolves` then says that both
resolvers find the client of a chain of any length, and `Collapses` that
they still find it in the rewritten header. `OutboundIs` says what leaves: the rewritten
header with the peer, or the peer alone if the client had the header removed, unless
lines were left unread. `Headers` and `Made` say what the headers, the ids and each
record are at each filter; `OneClientAddress` and `RecordFaithful` follow.

**TunnelProofs.** `IInv` says who owns a kubectl. `HeldOnce`: a forward is in the
hands of one opener, of the tunnel or of one `Close`; `Unstopped`: whoever holds it
is the first to stop it, which makes `StoppedOnce` inductive. `Chain`, `WaitedFor` and
`Repair` say that one goroutine is in charge of the tunnel, joined only by the forward
it has opened and not yet published, and that while the tunnel is open somebody is in
charge of the published forward; `StaysOpen` follows. `Effects` reduces each step to
what it does to one goroutine and one forward; each part of the invariant has a lemma
with one step per effect.

Only model-checked: liveness (`EveryCheckEnds`, `AbandonedRequestsEnd`, `StopEnds`,
`BecomesReady`, `RepeatedSignalsEnd`, `EveryReviewEnds`, `SuppressedIsReported`,
`CloseEnds`), since the prover has no rule for fairness or `ENABLED`. Every invariant
a passing run checks is proved.

## Findings

Five places where the code and its documentation disagree, each with a run whose
counterexample shows it; the quotations are in `PROJECT.json`.

1. `pipeline_disabled`: with `--disable-impersonation`, the authenticator has
   removed the token and `RoundTrip` adds an empty `Authorization` header,
   because nothing ever calls `WithBearerToken`.
2. `pipeline_unaudited`: refusals after authentication (no username claim, a
   failed impersonation check) leave no audit event.
3. `sar_allow_ttl_zero`: with only the allow TTL at 0 misses still share flights, so a
   request can use an evaluation older than itself.
4. `sar_inherited_cancel`: a waiter whose budget expires as its leader hangs up can
   return the leader's cancellation; its own client then gets an empty 200.
5. `forward_unsent`: the access record of an admitted request whose client sent no
   `X-Forwarded-For` reports the chain that the reverse proxy added, the peer, as
   the one the client sent.

Noticed while reading, with no run of their own:

* `context.go:271` replaces the user on the context by the admitted target before
  the audit filter runs, so an impersonated request is audited as its target;
  `docs/auditing.md:27` and `:126` say the mapped identity.
* `signals.go:36-40` says up to three further signals are absorbed and the next one forces
  the exit; the third further signal forces it (`Handle`).
* The revocation lag documented for both caches is the TTL; the tight bound is
  the TTL plus the time a live review may take (`RevocationBound`, `VerdictBound`).
* A readiness check may take 10 s, the drain of its listener waits 5 s: a slow
  issuer at shutdown makes the exit status non-zero (`HonestExit` covers it).
* A `p.Run` that fails returns without waiting for the readiness listener, which
  is why `ReleasedOnExit` claims the readiness port only for a clean exit.
* The warning limiter's last flush happens when the stop channel closes, before
  the requests in flight have ended; what they drop later stays counted and is
  never summarised, which is why `SuppressedIsReported` speaks of what was
  suppressed while the flusher listened. The process does not wait for it either.
* `run` of the load generator says that an interrupted run leaves no kubectl
  behind. Its deferred `Close` returns at once when the watchdog's came first, and
  the process may exit before the watchdog has killed the child.
* `probe.go:359-361` and `:410-412` say of an error that is neither "not initialized"
  nor transient that the keys did load. Nothing establishes that: the probe's token is
  refused for other reasons first. `:40-45` prefers a false ready to a false pending,
  and `ReadyMeansInitialized` claims no more.
* `docs/logging.md:328` equates `request_id`, the `Audit-ID` header and the API server's
  `auditID`. A client that names `Audit-ID` in `Connection` makes the reverse proxy
  remove the header, and the API server then picks an id of its own. `RecordFaithful`
  has this exception.
* A client that names `X-Forwarded-For` in `Connection` has the access record of its
  forwarded request resolved without the chain, so that the record names the peer and the
  impersonation extra the client. If the first of several `X-Forwarded-For` lines is
  empty, `SanitizeForwardHeaders` returns before it removes any, and the reverse proxy
  forwards the later ones. `OneClientAddress` has both exceptions.
* `accesslog.go:306` says the walk takes a "malformed-but-parseable" address; a hop
  that does not parse ends it with the peer, in both copies.

## Not modelled

* OIDC token verification, TLS, HTTP parsing, the audit backends' queues, RBAC
  evaluation: library or API server code. They appear as environment actions.
* Rendering of log records, metric labels, the event catalogue, sanitizing:
  formatting without control flow.
* Flags and their validation: the values enter as constants. Configuration steps
  of the start are one action that succeeds or fails.
* The attribution of requests to issuers (`issuerattr.go`): one field of log
  records, handed through a holder that one goroutine writes and reads.
* The audit filter's own refusal (`audit.go:211`): in the mode `blocking-strict` a backend
  that rejects an event makes it answer 500, without an access decision. The pipeline's
  claims are for a backend that accepts events.
* End-to-end tests, charts, documentation generators, and the load generator apart
  from its port-forward.

## Plan

Done, in this order: SubjectAccessReview with its proofs, RequestPipeline,
ReadinessProbe with its proofs, ProcessLifecycle with its proofs, TokenReview,
WarnLimiter and ForwardHeaders, DelegatedDecision with its two refinements, Tunnel;
then the proofs of RequestPipeline, TokenReview, WarnLimiter, ForwardHeaders, Tunnel
and of the refinements. The models cover what of the program has state and order.

Left: the step properties behind the liveness results, as far as they are safety (a
budget, a round or a shutdown never grows again), so that what only TLC checks
shrinks to fairness itself; and facts about DelegatedDecision alone (a yes is never
older than lag and patience), which both reviewers would inherit.
