----------------------------- MODULE WarnLimiter -----------------------------
(***************************************************************************)
(* The token-bucketed warnings: pkg/logging/ratelimit.go and the flusher   *)
(* goroutine Run of pkg/proxy/proxy.go starts.                             *)
(*                                                                         *)
(* Every reason has a bucket of its own.  A warning that finds no token is *)
(* counted, and the flusher reports the counts at every tick and once more *)
(* when the proxy stops.  Allow and drain hold the lock; the summaries are *)
(* emitted without it, while handlers go on warning.  The clock counts the *)
(* time in which a bucket earns one token.                                 *)
(***************************************************************************)
EXTENDS Integers

CONSTANTS
  Reasons,     \* the reasons warnings carry
  Burst,       \* warnLimiterBurst
  Horizon,     \* model bound: the last instant of the clock
  MaxWarnings  \* model bound: warnings per reason

ASSUME LimiterAssumption ==
  /\ Burst \in Nat \ {0}
  /\ Horizon \in Nat
  /\ MaxWarnings \in Nat

VARIABLES
  now,          \* Limiter.clock
  tokens,       \* per reason, what limiterEntry.limiter holds
  dropped,      \* per reason, limiterEntry.dropped
  drained,      \* the summaries drain returned that are not yet emitted
  flusher,      \* where flushWarnLimiter is
  tickerFired,  \* ticker.C holds a tick
  stopped,      \* stopCh is closed
  seen,         \* per reason, the warnings that asked Allow
  emitted,      \* per reason and instant, the warnings emitted up to it
  summarised    \* per reason, the drops reported by summaries

limiterVars == <<now, tokens, dropped, drained, flusher, tickerFired, stopped, seen,
                 emitted, summarised>>

Instants == 0..Horizon

\* NewLimiter: a bucket is created full by the first warning of its reason.
LimiterInit ==
  /\ now = 0
  /\ tokens = [r \in Reasons |-> Burst]
  /\ dropped = [r \in Reasons |-> 0]
  /\ drained = [r \in Reasons |-> 0]
  /\ flusher = "wait"
  /\ tickerFired = FALSE
  /\ stopped = FALSE
  /\ seen = [r \in Reasons |-> 0]
  /\ emitted = [r \in Reasons |-> [t \in Instants |-> 0]]
  /\ summarised = [r \in Reasons |-> 0]

\* Fault: one bucket for all reasons.
AllowShared(reason) ==
  /\ seen[reason] < MaxWarnings
  /\ seen' = [seen EXCEPT ![reason] = @ + 1]
  /\ \/ /\ tokens[reason] >= 1
        /\ tokens' = [r \in Reasons |-> tokens[r] - 1]
        /\ emitted' = [emitted EXCEPT ![reason] =
                         [t \in Instants |-> IF t >= now THEN @[t] + 1 ELSE @[t]]]
        /\ UNCHANGED dropped
     \/ /\ tokens[reason] < 1
        /\ dropped' = [dropped EXCEPT ![reason] = @ + 1]
        /\ UNCHANGED <<tokens, emitted>>
  /\ UNCHANGED <<now, drained, flusher, tickerFired, stopped, summarised>>

\* Allow: a token is spent, or the record is counted.
Allow(reason) ==
  /\ seen[reason] < MaxWarnings
  /\ seen' = [seen EXCEPT ![reason] = @ + 1]
  /\ \/ /\ tokens[reason] >= 1
        /\ tokens' = [tokens EXCEPT ![reason] = @ - 1]
        /\ emitted' = [emitted EXCEPT ![reason] =
                         [t \in Instants |-> IF t >= now THEN @[t] + 1 ELSE @[t]]]
        /\ UNCHANGED dropped
     \/ /\ tokens[reason] < 1
        /\ dropped' = [dropped EXCEPT ![reason] = @ + 1]
        /\ UNCHANGED <<tokens, emitted>>
  /\ UNCHANGED <<now, drained, flusher, tickerFired, stopped, summarised>>

-----------------------------------------------------------------------------
(* flushWarnLimiter.                                                       *)

\* time.Ticker: the channel holds one tick, a later one is dropped.
TickerFires ==
  /\ flusher # "done" /\ ~tickerFired
  /\ tickerFired' = TRUE
  /\ UNCHANGED <<now, tokens, dropped, drained, flusher, stopped, seen, emitted, summarised>>

\* drain: the counts are taken and zeroed, the buckets are left alone.
Drain ==
  /\ drained' = dropped
  /\ dropped' = [r \in Reasons |-> 0]
  /\ UNCHANGED tokens

\* Fault: the flusher returns at stop without a last flush.
FlushStartsNotAtStop ==
  /\ flusher = "wait"
  /\ \/ tickerFired /\ tickerFired' = FALSE /\ flusher' = "flushing" /\ Drain
     \/ stopped /\ flusher' = "last" /\ UNCHANGED <<tickerFired, drained, dropped, tokens>>
  /\ UNCHANGED <<now, stopped, seen, emitted, summarised>>

\* The select takes a tick, or the stop: then this is the last flush.
FlushStarts ==
  /\ flusher = "wait"
  /\ \/ tickerFired /\ tickerFired' = FALSE /\ flusher' = "flushing"
     \/ stopped /\ flusher' = "last" /\ UNCHANGED tickerFired
  /\ Drain
  /\ UNCHANGED <<now, stopped, seen, emitted, summarised>>

\* Fault: the count is reset once its summary is out.
EmitSummaryThenReset(reason) ==
  /\ flusher \in {"flushing", "last"} /\ drained[reason] > 0
  /\ summarised' = [summarised EXCEPT ![reason] = @ + drained[reason]]
  /\ drained' = [drained EXCEPT ![reason] = 0]
  /\ dropped' = [dropped EXCEPT ![reason] = 0]
  /\ UNCHANGED <<now, tokens, flusher, tickerFired, stopped, seen, emitted>>

\* Flush emits the summary of a reason that dropped records.
EmitSummary(reason) ==
  /\ flusher \in {"flushing", "last"} /\ drained[reason] > 0
  /\ summarised' = [summarised EXCEPT ![reason] = @ + drained[reason]]
  /\ drained' = [drained EXCEPT ![reason] = 0]
  /\ UNCHANGED <<now, tokens, dropped, flusher, tickerFired, stopped, seen, emitted>>

\* Flush returns: to the select, or out of the goroutine.
FlushEnds ==
  /\ flusher \in {"flushing", "last"} /\ \A r \in Reasons: drained[r] = 0
  /\ flusher' = IF flusher = "last" THEN "done" ELSE "wait"
  /\ UNCHANGED <<now, tokens, dropped, drained, tickerFired, stopped, seen, emitted, summarised>>

\* stopCh is closed.
StopFlusher ==
  /\ ~stopped /\ stopped' = TRUE
  /\ UNCHANGED <<now, tokens, dropped, drained, flusher, tickerFired, seen, emitted, summarised>>

\* rate.Limiter: time earns a token, up to the burst.
Elapse ==
  /\ now < Horizon
  /\ now' = now + 1
  /\ tokens' = [r \in Reasons |-> IF tokens[r] < Burst THEN tokens[r] + 1 ELSE Burst]
  /\ UNCHANGED <<dropped, drained, flusher, tickerFired, stopped, seen, emitted, summarised>>

FlusherStep == FlushStarts \/ FlushEnds \/ \E r \in Reasons: EmitSummary(r)

LimiterEnv == TickerFires \/ StopFlusher \/ Elapse

\* The limiter under any handlers: whatever warns, it warns through Allow.
LimiterNext == (\E r \in Reasons: Allow(r)) \/ FlusherStep \/ LimiterEnv

LimiterSpec == LimiterInit /\ [][LimiterNext]_limiterVars

-----------------------------------------------------------------------------
\* Type invariant of the limiter.
LimiterTypeOK ==
  /\ now \in Instants
  /\ tokens \in [Reasons -> 0..Burst]
  /\ dropped \in [Reasons -> Nat]
  /\ drained \in [Reasons -> Nat]
  /\ flusher \in {"wait", "flushing", "last", "done"}
  /\ tickerFired \in BOOLEAN
  /\ stopped \in BOOLEAN
  /\ seen \in [Reasons -> Nat]
  /\ emitted \in [Reasons -> [Instants -> Nat]]
  /\ summarised \in [Reasons -> Nat]

\* "What was dropped is reported rather than lost": every warning was emitted,
\* reported by a summary, or is still counted, although handlers call Allow
\* between drain and the summaries of Flush.
EveryWarningCounted ==
  \A r \in Reasons:
    seen[r] = emitted[r][Horizon] + summarised[r] + drained[r] + dropped[r]

\* "a flood of one kind of anomaly cannot hide the first occurrence of
\* another" and "a flush cannot hand a caller a fresh burst" (Allow, drain): the
\* first warnings of each reason, up to the burst, are emitted, and no window
\* of time holds more of them than a burst and what its length earns.
EmissionRate ==
  \A r \in Reasons:
    /\ emitted[r][Horizon] >= (IF seen[r] < Burst THEN seen[r] ELSE Burst)
    /\ \A a, b \in Instants: a <= b =>
         emitted[r][b] - (IF a = 0 THEN 0 ELSE emitted[r][a - 1]) <= Burst + (b - a)

\* What was suppressed while the flusher still listens is reported in the end,
\* at a tick or "once more as the proxy stops" (flushWarnLimiter).
SuppressedIsReported ==
  \A r \in Reasons: \A n \in 1..MaxWarnings:
    (flusher = "wait" /\ seen[r] - emitted[r][Horizon] >= n) ~> summarised[r] >= n
=============================================================================
