-------------------------- MODULE WarnLimiterProofs --------------------------
(***************************************************************************)
(* Proofs about WarnLimiter, for any reasons, burst and length of time,    *)
(* and for any handlers that warn.                                         *)
(***************************************************************************)
EXTENDS WarnLimiter, TLAPS

-----------------------------------------------------------------------------
(* The invariants.                                                         *)

\* What was emitted before an instant, and until now.
Before(r, a) == IF a = 0 THEN 0 ELSE emitted[r][a - 1]
SoFar(r) == emitted[r][now]

\* Nothing is emitted in the future.
Flat == \A r \in Reasons: \A t \in Instants: t >= now => emitted[r][t] = SoFar(r)

\* A bucket holds at most what is left of the burst and of what the time since
\* any instant earned.
Bucket ==
  \A r \in Reasons: \A a \in Instants: a <= now =>
    tokens[r] + SoFar(r) - Before(r, a) <= Burst + (now - a)

\* The windows that have ended keep the rate.
Windows ==
  \A r \in Reasons: \A a, b \in Instants: a <= b /\ b < now =>
    emitted[r][b] - Before(r, a) <= Burst + (b - a)

\* A bucket is emptied by warnings alone, and a warning is dropped only once a
\* whole burst was emitted.
FirstBurst ==
  \A r \in Reasons:
    /\ tokens[r] + SoFar(r) >= Burst
    /\ seen[r] = SoFar(r) \/ SoFar(r) >= Burst

\* drain finds every earlier count reported.
Reported == flusher \in {"wait", "done"} => \A r \in Reasons: drained[r] = 0

LimiterInv ==
  LimiterTypeOK /\ EveryWarningCounted /\ Reported /\ Flat /\ Bucket /\ Windows /\ FirstBurst

-----------------------------------------------------------------------------
\* The clock's instants.
LEMMA Clock ==
  ASSUME LimiterTypeOK
  PROVE  /\ now \in Int /\ 0 <= now /\ now <= Horizon /\ now \in Instants
         /\ Horizon \in Instants /\ Horizon \in Nat /\ Burst \in Nat /\ Burst > 0
         /\ \A t: t \in Instants <=> t \in Int /\ 0 <= t /\ t <= Horizon
BY LimiterAssumption DEF LimiterTypeOK, Instants

\* What the counters are.
LEMMA Counters ==
  ASSUME LimiterTypeOK, NEW r \in Reasons
  PROVE  /\ tokens[r] \in Int /\ 0 <= tokens[r] /\ tokens[r] <= Burst
         /\ dropped[r] \in Nat /\ drained[r] \in Nat /\ seen[r] \in Nat /\ summarised[r] \in Nat
         /\ \A t \in Instants: emitted[r][t] \in Nat
         /\ SoFar(r) \in Nat /\ emitted[r][Horizon] \in Nat
         /\ \A a \in Instants: Before(r, a) \in Nat
<1>1. /\ dropped[r] \in Nat /\ drained[r] \in Nat /\ seen[r] \in Nat /\ summarised[r] \in Nat
      /\ tokens[r] \in 0..Burst /\ \A t \in Instants: emitted[r][t] \in Nat
  BY DEF LimiterTypeOK
<1>2. tokens[r] \in Int /\ 0 <= tokens[r] /\ tokens[r] <= Burst
  BY <1>1, Clock
<1>3. \A a \in Instants: a # 0 => a - 1 \in Instants
  BY Clock
<1> QED BY <1>1, <1>2, <1>3, Clock DEF SoFar, Before

\* The invariants hold initially.
LEMMA LimiterInitially == LimiterInit => LimiterInv
<1> SUFFICES ASSUME LimiterInit PROVE LimiterInv
  OBVIOUS
<1> USE DEF LimiterInit
<1>1. 0 \in Instants /\ Horizon \in Instants /\ Burst \in 0..Burst /\ Burst \in Nat
  BY LimiterAssumption DEF Instants
<1>2. LimiterTypeOK
  BY <1>1 DEF LimiterTypeOK
<1>3. \A r \in Reasons: SoFar(r) = 0 /\ \A t \in Instants: emitted[r][t] = 0
  BY <1>1 DEF SoFar
<1>4. EveryWarningCounted
  <2> SUFFICES ASSUME NEW r \in Reasons
               PROVE  seen[r] = emitted[r][Horizon] + summarised[r] + drained[r] + dropped[r]
    BY DEF EveryWarningCounted
  <2>1. /\ seen[r] = 0 /\ summarised[r] = 0 /\ drained[r] = 0 /\ dropped[r] = 0
        /\ emitted[r][Horizon] = 0
    BY <1>1
  <2> HIDE DEF LimiterInit
  <2> QED BY <2>1
<1>5. Flat /\ FirstBurst /\ Reported
  BY <1>1, <1>3 DEF Flat, FirstBurst, Reported
<1>6. Windows
  BY <1>2, Clock DEF Windows
<1>7. Bucket
  <2> SUFFICES ASSUME NEW r \in Reasons, NEW a \in Instants, a <= now
               PROVE  tokens[r] + SoFar(r) - Before(r, a) <= Burst + (now - a)
    BY DEF Bucket
  <2>1. a = 0 /\ Before(r, a) = 0
    BY <1>2, Clock DEF Before
  <2> QED BY <1>1, <1>3, <2>1
<1> QED BY <1>2, <1>4, <1>5, <1>6, <1>7 DEF LimiterInv

-----------------------------------------------------------------------------
(* The steps.                                                              *)

\* The parts that are about what was emitted depend on nothing else.
LEMMA RateFrame ==
  ASSUME Flat, Bucket, Windows, FirstBurst, UNCHANGED <<now, tokens, seen, emitted>>
  PROVE  Flat' /\ Bucket' /\ Windows' /\ FirstBurst'
BY DEF Flat, Bucket, Windows, FirstBurst, SoFar, Before

\* A warning that finds a token.
LEMMA EmitStep ==
  ASSUME LimiterInv, NEW q \in Reasons, tokens[q] >= 1,
         seen' = [seen EXCEPT ![q] = @ + 1],
         tokens' = [tokens EXCEPT ![q] = @ - 1],
         emitted' = [emitted EXCEPT ![q] =
                       [t \in Instants |-> IF t >= now THEN @[t] + 1 ELSE @[t]]],
         UNCHANGED <<now, dropped, drained, flusher, tickerFired, stopped, summarised>>
  PROVE  LimiterInv'
<1> USE DEF LimiterInv
<1>0. /\ seen'[q] = seen[q] + 1 /\ tokens'[q] = tokens[q] - 1
      /\ \A r \in Reasons: r # q => seen'[r] = seen[r] /\ tokens'[r] = tokens[r] /\ emitted'[r] = emitted[r]
      /\ \A t \in Instants: emitted'[q][t] = IF t >= now THEN emitted[q][t] + 1 ELSE emitted[q][t]
  BY DEF LimiterTypeOK
<1>1. LimiterTypeOK'
  <2>1. tokens[q] - 1 \in 0..Burst /\ seen[q] + 1 \in Nat
    BY Clock, Counters
  <2>2. [t \in Instants |-> IF t >= now THEN emitted[q][t] + 1 ELSE emitted[q][t]] \in [Instants -> Nat]
    BY Clock, Counters
  <2>3. tokens' \in [Reasons -> 0..Burst] /\ seen' \in [Reasons -> Nat]
    BY <2>1 DEF LimiterTypeOK
  <2>4. emitted' \in [Reasons -> [Instants -> Nat]]
    BY <2>2 DEF LimiterTypeOK
  <2> QED BY <2>3, <2>4 DEF LimiterTypeOK
<1>2. /\ SoFar(q)' = SoFar(q) + 1 /\ \A r \in Reasons: r # q => SoFar(r)' = SoFar(r)
      /\ \A r \in Reasons: \A a \in Instants: a <= now => Before(r, a)' = Before(r, a)
  <2>1. SoFar(q)' = SoFar(q) + 1 /\ \A r \in Reasons: r # q => SoFar(r)' = SoFar(r)
    BY <1>0, Clock DEF SoFar
  <2>2. ASSUME NEW r \in Reasons, NEW a \in Instants, a <= now PROVE Before(r, a)' = Before(r, a)
    <3>1. a # 0 => a - 1 \in Instants /\ ~(a - 1 >= now)
      BY <2>2, Clock
    <3> QED BY <1>0, <3>1 DEF Before
  <2> QED BY <2>1, <2>2
<1>3. EveryWarningCounted'
  <2>1. emitted'[q][Horizon] = emitted[q][Horizon] + 1
    BY <1>0, Clock
  <2> SUFFICES ASSUME NEW r \in Reasons
               PROVE  seen'[r] = emitted'[r][Horizon] + summarised[r] + drained[r] + dropped[r]
    BY DEF EveryWarningCounted
  <2>2. seen[r] = emitted[r][Horizon] + summarised[r] + drained[r] + dropped[r]
    BY DEF EveryWarningCounted
  <2>3. CASE r = q
    BY <1>0, <2>1, <2>2, <2>3, Counters
  <2>4. CASE r # q
    BY <1>0, <2>2, <2>4
  <2> QED BY <2>3, <2>4
<1>4. Flat'
  BY <1>0, <1>2, Counters DEF Flat
<1>5. Bucket'
  <2> SUFFICES ASSUME NEW r \in Reasons, NEW a \in Instants, a <= now
               PROVE  tokens'[r] + SoFar(r)' - Before(r, a)' <= Burst + (now - a)
    BY DEF Bucket
  <2>1. tokens[r] + SoFar(r) - Before(r, a) <= Burst + (now - a)
    BY DEF Bucket
  <2>2. tokens[r] \in Int /\ SoFar(r) \in Int /\ Before(r, a) \in Int
    BY Counters
  <2>3. tokens'[r] + SoFar(r)' = tokens[r] + SoFar(r)
    BY <1>0, <1>2, <2>2
  <2>4. Before(r, a)' = Before(r, a)
    BY <1>2
  <2>5. now \in Int /\ a \in Int /\ Burst \in Int /\ tokens'[r] \in Int /\ SoFar(r)' \in Int
    BY <1>0, <1>2, <2>2, Clock
  <2> HIDE DEF LimiterInv
  <2> QED BY <2>1, <2>2, <2>3, <2>4, <2>5
<1>6. Windows'
  <2> SUFFICES ASSUME NEW r \in Reasons, NEW a \in Instants, NEW b \in Instants, a <= b, b < now
               PROVE  emitted'[r][b] - Before(r, a)' <= Burst + (b - a)
    BY DEF Windows
  <2>1. emitted'[r][b] = emitted[r][b] /\ a <= now
    BY <1>0, Clock
  <2> QED BY <1>2, <2>1 DEF Windows
<1>7. FirstBurst'
  <2> SUFFICES ASSUME NEW r \in Reasons
               PROVE  /\ tokens'[r] + SoFar(r)' >= Burst
                      /\ seen'[r] = SoFar(r)' \/ SoFar(r)' >= Burst
    BY DEF FirstBurst
  <2>1. tokens[r] \in Int /\ SoFar(r) \in Int /\ seen[r] \in Int /\ Burst \in Int
    BY Counters, Clock
  <2>2. tokens[r] + SoFar(r) >= Burst /\ (seen[r] = SoFar(r) \/ SoFar(r) >= Burst)
    BY DEF FirstBurst
  <2>3. CASE r = q
    BY <1>0, <1>2, <2>1, <2>2, <2>3
  <2>4. CASE r # q
    BY <1>0, <1>2, <2>2, <2>4
  <2> QED BY <2>3, <2>4
<1>8. Reported'
  BY DEF Reported
<1> QED BY <1>1, <1>3, <1>4, <1>5, <1>6, <1>7, <1>8

\* A warning that finds none.
LEMMA DropStep ==
  ASSUME LimiterInv, NEW q \in Reasons, tokens[q] < 1,
         seen' = [seen EXCEPT ![q] = @ + 1],
         dropped' = [dropped EXCEPT ![q] = @ + 1],
         UNCHANGED <<now, tokens, emitted, drained, flusher, tickerFired, stopped, summarised>>
  PROVE  LimiterInv'
<1> USE DEF LimiterInv
<1>0. /\ seen'[q] = seen[q] + 1 /\ dropped'[q] = dropped[q] + 1
      /\ \A r \in Reasons: r # q => seen'[r] = seen[r] /\ dropped'[r] = dropped[r]
  BY DEF LimiterTypeOK
<1>1. LimiterTypeOK'
  <2>1. seen[q] + 1 \in Nat /\ dropped[q] + 1 \in Nat
    BY Counters
  <2> QED BY <2>1 DEF LimiterTypeOK
<1>2. EveryWarningCounted'
  <2> SUFFICES ASSUME NEW r \in Reasons
               PROVE  seen'[r] = emitted[r][Horizon] + summarised[r] + drained[r] + dropped'[r]
    BY DEF EveryWarningCounted
  <2>1. seen[r] = emitted[r][Horizon] + summarised[r] + drained[r] + dropped[r]
    BY DEF EveryWarningCounted
  <2> QED BY <1>0, <2>1, Counters
<1>3. Flat' /\ Bucket' /\ Windows'
  BY DEF Flat, Bucket, Windows, SoFar, Before
<1>4. FirstBurst'
  <2>1. \A r \in Reasons: SoFar(r)' = SoFar(r)
    BY DEF SoFar
  <2>2. SoFar(q) >= Burst
    <3>1. tokens[q] = 0 /\ SoFar(q) \in Int
      BY Counters
    <3> QED BY <3>1 DEF FirstBurst
  <2> QED BY <1>0, <2>1, <2>2 DEF FirstBurst
<1>5. Reported'
  BY DEF Reported
<1> QED BY <1>1, <1>2, <1>3, <1>4, <1>5

\* Allow, of a token or of none.
LEMMA AllowStep ==
  ASSUME LimiterInv, NEW q \in Reasons, Allow(q)
  PROVE  LimiterInv'
<1>1. CASE tokens[q] >= 1
  <2>1. ~(tokens[q] < 1)
    BY <1>1, Counters DEF LimiterInv
  <2> QED BY <1>1, <2>1, EmitStep DEF Allow
<1>2. CASE ~(tokens[q] >= 1)
  <2>1. tokens[q] < 1
    BY <1>2, Counters DEF LimiterInv
  <2> QED BY <1>2, <2>1, DropStep DEF Allow
<1> QED BY <1>1, <1>2

\* drain moves the counts, the summaries move them on.
LEMMA FlusherKeeps ==
  ASSUME LimiterInv, FlusherStep
  PROVE  LimiterInv'
<1> USE DEF LimiterInv
<1>1. CASE FlushStarts
  <2> USE <1>1 DEF FlushStarts, Drain
  <2>1. LimiterTypeOK'
    <3>1. dropped' \in [Reasons -> Nat] /\ drained' \in [Reasons -> Nat]
      BY DEF LimiterTypeOK
    <3>2. flusher' \in {"wait", "flushing", "last", "done"} /\ tickerFired' \in BOOLEAN
      BY DEF LimiterTypeOK
    <3> QED BY <3>1, <3>2 DEF LimiterTypeOK
  <2>2. EveryWarningCounted'
    <3> SUFFICES ASSUME NEW r \in Reasons
                 PROVE  seen[r] = emitted[r][Horizon] + summarised[r] + drained'[r] + dropped'[r]
      BY DEF EveryWarningCounted
    <3>1. seen[r] = emitted[r][Horizon] + summarised[r] + drained[r] + dropped[r]
      BY DEF EveryWarningCounted
    <3>2. drained[r] = 0 /\ drained'[r] = dropped[r] /\ dropped'[r] = 0
      BY DEF Reported
    <3> HIDE DEF FlushStarts, Drain, LimiterInv
    <3>3. dropped[r] \in Nat /\ emitted[r][Horizon] \in Nat /\ summarised[r] \in Nat
      BY Counters DEF LimiterInv
    <3> QED BY <3>1, <3>2, <3>3
  <2>3. Reported'
    BY DEF Reported
  <2> QED BY <2>1, <2>2, <2>3, RateFrame
<1>2. ASSUME NEW q \in Reasons, EmitSummary(q) PROVE LimiterInv'
  <2>0. /\ summarised'[q] = summarised[q] + drained[q] /\ drained'[q] = 0
        /\ \A r \in Reasons: r # q => summarised'[r] = summarised[r] /\ drained'[r] = drained[r]
    BY <1>2 DEF EmitSummary, LimiterTypeOK
  <2>1. LimiterTypeOK'
    <3>1. summarised[q] + drained[q] \in Nat
      BY Counters
    <3> QED BY <1>2, <3>1 DEF EmitSummary, LimiterTypeOK
  <2>2. EveryWarningCounted'
    <3> SUFFICES ASSUME NEW r \in Reasons
                 PROVE  seen[r] = emitted[r][Horizon] + summarised'[r] + drained'[r] + dropped[r]
      BY <1>2 DEF EveryWarningCounted, EmitSummary
    <3>1. seen[r] = emitted[r][Horizon] + summarised[r] + drained[r] + dropped[r]
      BY DEF EveryWarningCounted
    <3> QED BY <2>0, <3>1, Counters
  <2>3. Reported'
    BY <1>2 DEF Reported, EmitSummary
  <2> QED BY <1>2, <2>1, <2>2, <2>3, RateFrame DEF EmitSummary
<1>3. CASE FlushEnds
  <2>1. LimiterTypeOK' /\ EveryWarningCounted' /\ Reported'
    BY <1>3 DEF FlushEnds, LimiterTypeOK, EveryWarningCounted, Reported
  <2> QED BY <1>3, <2>1, RateFrame DEF FlushEnds
<1> QED BY <1>1, <1>2, <1>3 DEF FlusherStep

\* The ticker, the stop and a stuttering step.
LEMMA StutterKeeps ==
  ASSUME LimiterInv, TickerFires \/ StopFlusher \/ UNCHANGED limiterVars
  PROVE  LimiterInv'
<1> USE DEF LimiterInv, TickerFires, StopFlusher, limiterVars
<1>1. LimiterTypeOK' /\ EveryWarningCounted' /\ Reported'
  BY DEF LimiterTypeOK, EveryWarningCounted, Reported
<1> QED BY <1>1, RateFrame

\* Time earns every bucket a token, up to the burst.
LEMMA ElapseKeeps ==
  ASSUME LimiterInv, Elapse
  PROVE  LimiterInv'
<1> USE DEF LimiterInv
<1>0. /\ now' = now + 1 /\ now < Horizon
      /\ \A r \in Reasons: tokens'[r] = IF tokens[r] < Burst THEN tokens[r] + 1 ELSE Burst
      /\ UNCHANGED <<dropped, drained, flusher, tickerFired, stopped, seen, emitted, summarised>>
  BY DEF Elapse
<1>1. LimiterTypeOK'
  <2>1. now' \in Instants
    BY <1>0, Clock
  <2>2. ASSUME NEW r \in Reasons
        PROVE  (IF tokens[r] < Burst THEN tokens[r] + 1 ELSE Burst) \in 0..Burst
    <3>1. tokens[r] \in Int /\ 0 <= tokens[r] /\ tokens[r] <= Burst /\ Burst \in Nat
      BY Clock, Counters
    <3> QED BY <3>1
  <2>3. tokens' \in [Reasons -> 0..Burst]
    BY <2>2 DEF Elapse
  <2> QED BY <1>0, <2>1, <2>3 DEF LimiterTypeOK
<1>2. \A r \in Reasons: SoFar(r)' = SoFar(r)
  BY <1>0, <1>1, Clock DEF Flat, SoFar, LimiterTypeOK
<1>3. \A r \in Reasons: \A a \in Instants: Before(r, a)' = Before(r, a)
  BY <1>0 DEF Before
<1>4. \A r \in Reasons: tokens'[r] <= tokens[r] + 1 /\ tokens'[r] <= Burst /\ tokens'[r] >= tokens[r]
                        /\ tokens'[r] \in Int
  BY <1>0, Clock, Counters
<1>5. EveryWarningCounted' /\ Reported'
  BY <1>0 DEF EveryWarningCounted, Reported
<1>6. Flat'
  BY <1>0, <1>2, Clock DEF Flat
<1>7. Bucket'
  <2> SUFFICES ASSUME NEW r \in Reasons, NEW a \in Instants, a <= now'
               PROVE  tokens'[r] + SoFar(r)' - Before(r, a)' <= Burst + (now' - a)
    BY DEF Bucket
  <2>0. tokens[r] \in Int /\ SoFar(r) \in Int /\ Before(r, a) \in Int /\ a \in Int /\ now \in Int /\ Burst \in Int
    BY Counters, Clock
  <2>1. CASE a <= now
    <3>1. tokens[r] + SoFar(r) - Before(r, a) <= Burst + (now - a)
      BY <2>1 DEF Bucket
    <3> QED BY <1>0, <1>2, <1>3, <1>4, <2>0, <3>1
  <2>2. CASE ~(a <= now)
    <3>1. a = now + 1 /\ a # 0 /\ a - 1 = now
      BY <1>0, <2>0, <2>2, Clock
    <3>2. Before(r, a) = SoFar(r)
      BY <3>1 DEF Before, SoFar
    <3> QED BY <1>0, <1>2, <1>3, <1>4, <2>0, <3>1, <3>2
  <2> QED BY <2>1, <2>2
<1>8. Windows'
  <2> SUFFICES ASSUME NEW r \in Reasons, NEW a \in Instants, NEW b \in Instants, a <= b, b < now'
               PROVE  emitted[r][b] - Before(r, a) <= Burst + (b - a)
    BY <1>0, <1>3 DEF Windows
  <2>0. tokens[r] \in Int /\ SoFar(r) \in Int /\ Before(r, a) \in Int /\ a \in Int /\ now \in Int
        /\ Burst \in Int /\ b \in Int /\ tokens[r] >= 0
    BY Counters, Clock
  <2>1. CASE b < now
    BY <2>1 DEF Windows
  <2>2. CASE ~(b < now)
    <3>1. b = now
      BY <1>0, <2>0, <2>2
    <3>2. tokens[r] + SoFar(r) - Before(r, a) <= Burst + (now - a)
      BY <3>1 DEF Bucket
    <3> QED BY <2>0, <3>1, <3>2 DEF SoFar
  <2> QED BY <2>1, <2>2
<1>9. FirstBurst'
  <2> SUFFICES ASSUME NEW r \in Reasons
               PROVE  /\ tokens'[r] + SoFar(r) >= Burst
                      /\ seen[r] = SoFar(r) \/ SoFar(r) >= Burst
    BY <1>0, <1>2 DEF FirstBurst
  <2>1. tokens[r] \in Int /\ SoFar(r) \in Int /\ Burst \in Int
    BY Counters, Clock
  <2> QED BY <1>4, <2>1 DEF FirstBurst
<1> QED BY <1>1, <1>5, <1>6, <1>7, <1>8, <1>9

\* Every step keeps the invariants.
LEMMA LimiterStep == LimiterInv /\ [LimiterNext]_limiterVars => LimiterInv'
BY AllowStep, FlusherKeeps, StutterKeeps, ElapseKeeps DEF LimiterNext, LimiterEnv

\* They imply the rate of every window, those that have not ended included.
LEMMA InvGivesRate == LimiterInv => EmissionRate
<1> SUFFICES ASSUME LimiterInv, NEW r \in Reasons
             PROVE  /\ emitted[r][Horizon] >= (IF seen[r] < Burst THEN seen[r] ELSE Burst)
                    /\ \A a, b \in Instants: a <= b =>
                         emitted[r][b] - Before(r, a) <= Burst + (b - a)
  BY DEF EmissionRate, Before
<1> USE DEF LimiterInv
<1>0. tokens[r] \in Int /\ tokens[r] >= 0 /\ SoFar(r) \in Int /\ Burst \in Int /\ now \in Int /\ seen[r] \in Int
  BY Counters, Clock
<1>1. emitted[r][Horizon] >= (IF seen[r] < Burst THEN seen[r] ELSE Burst)
  <2>1. emitted[r][Horizon] = SoFar(r)
    BY Clock DEF Flat
  <2> QED BY <1>0, <2>1 DEF FirstBurst
<1>2. ASSUME NEW a \in Instants, NEW b \in Instants, a <= b
      PROVE  emitted[r][b] - Before(r, a) <= Burst + (b - a)
  <2>0. a \in Int /\ b \in Int /\ Before(r, a) \in Int /\ emitted[r][b] \in Int /\ 0 <= a /\ Burst >= 0
    BY Counters, Clock
  <2>1. CASE b < now
    BY <1>2, <2>1 DEF Windows
  <2>2. CASE b >= now /\ a <= now
    <3>1. emitted[r][b] = SoFar(r)
      BY <2>2 DEF Flat
    <3>2. tokens[r] + SoFar(r) - Before(r, a) <= Burst + (now - a)
      BY <2>2 DEF Bucket
    <3> QED BY <1>0, <2>0, <2>2, <3>1, <3>2
  <2>3. CASE b >= now /\ a > now
    <3>1. a # 0 /\ a - 1 \in Instants /\ a - 1 >= now
      BY <1>0, <2>0, <2>3, Clock
    <3>2. emitted[r][b] = SoFar(r) /\ emitted[r][a - 1] = SoFar(r)
      BY <2>3, <3>1 DEF Flat
    <3> QED BY <1>0, <1>2, <2>0, <3>1, <3>2 DEF Before
  <2> QED BY <1>0, <2>0, <2>1, <2>2, <2>3
<1> QED BY <1>1, <1>2

-----------------------------------------------------------------------------
(* The theorems.                                                           *)

\* The inductive invariant.
LEMMA LimiterInvariance == LimiterSpec => []LimiterInv
BY LimiterInitially, LimiterStep, PTL DEF LimiterSpec

\* LimiterTypeOK: a bucket never holds more than the burst, whoever warns.
THEOREM LimiterTypeCorrect == LimiterSpec => []LimiterTypeOK
<1>1. LimiterInv => LimiterTypeOK
  BY DEF LimiterInv
<1> QED BY <1>1, LimiterInvariance, PTL

\* EveryWarningCounted: every warning was emitted, reported by a summary, or is
\* still counted, whatever Allow does between drain and the summaries of Flush.
THEOREM WarningsCounted == LimiterSpec => []EveryWarningCounted
<1>1. LimiterInv => EveryWarningCounted
  BY DEF LimiterInv
<1> QED BY <1>1, LimiterInvariance, PTL

\* EmissionRate: the first burst of every reason is emitted, and no window of
\* time holds more warnings of it than a burst and what its length earns.
THEOREM RateKept == LimiterSpec => []EmissionRate
BY InvGivesRate, LimiterInvariance, PTL

=============================================================================
