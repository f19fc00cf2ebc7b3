------------------------ MODULE ReadinessProbeProofs ------------------------
(***************************************************************************)
(* Proofs about ReadinessProbe, for any number of issuers and of           *)
(* concurrent checks, in both readiness modes.                             *)
(***************************************************************************)
EXTENDS ReadinessProbe, TLAPS

\* The type invariant holds initially.
LEMMA TypeInit == Init => TypeOK
<1> SUFFICES ASSUME Init PROVE TypeOK
  OBVIOUS
<1>1. /\ NonePending \in [Issuers -> PendingReasons \cup {"none"}]
      /\ NonePending \in [Issuers -> PendingReasons \cup {"none", "initialized"}]
      /\ NonePending \in [Issuers -> PendingReasons \cup {"none", "todo", "verified"}]
  BY DEF NonePending
<1> QED BY <1>1 DEF Init, TypeOK

\* Every step keeps the types.
LEMMA TypeStep == TypeOK /\ [Next]_vars => TypeOK'
<1> SUFFICES ASSUME TypeOK, [Next]_vars PROVE TypeOK'
  OBVIOUS
<1> USE DEF TypeOK
<1>1. ASSUME NEW c \in Checks, Begin(c) PROVE TypeOK'
  <2>1. [i \in Issuers |-> IF i \in initialized THEN "none" ELSE "todo"]
          \in [Issuers -> PendingReasons \cup {"none", "todo", "verified"}]
    OBVIOUS
  <2>2. answer' \in [Checks -> [Issuers -> PendingReasons \cup {"none", "todo", "verified"}]]
    BY <1>1, <2>1 DEF Begin
  <2>3. /\ probing' \in [Checks -> BOOLEAN] /\ sawReady' \in [Checks -> BOOLEAN]
        /\ result' \in [Checks -> {"none", "ok", "unavailable"}]
    BY <1>1 DEF Begin
  <2> QED BY <1>1, <2>2, <2>3 DEF Begin, srvVars
<1>2. ASSUME NEW c \in Checks, NEW i \in Issuers, Probe(c, i) PROVE TypeOK'
  <2>1. PICK a \in {"transient", "verified", "not_initialized"}: answer' = [answer EXCEPT ![c][i] = a]
    BY <1>2 DEF Probe, Classifications
  <2>2. answer' \in [Checks -> [Issuers -> PendingReasons \cup {"none", "todo", "verified"}]]
    BY <2>1 DEF PendingReasons
  <2> QED BY <1>2, <2>2 DEF Probe, srvVars
<1>3. ASSUME NEW c \in Checks, Record(c) PROVE TypeOK'
  <2> DEFINE pending == [i \in Issuers |-> IF i \in StillPending(c) THEN answer[c][i] ELSE "none"]
  <2>1. pending \in [Issuers -> PendingReasons \cup {"none"}]
    BY DEF StillPending
  <2>2. /\ lastPending' = pending
        /\ newest' = [i \in Issuers |->
             IF i \in StillPending(c) /\ pending # lastPending THEN pending[i]
             ELSE IF i \in Verified(c) \ initialized THEN "initialized"
             ELSE newest[i]]
        /\ initialized' = initialized \cup Verified(c)
        /\ ready' = NowReady(c)
        /\ result' = [result EXCEPT ![c] = IF NowReady(c) THEN "ok" ELSE "unavailable"]
        /\ probing' = [probing EXCEPT ![c] = FALSE]
        /\ answer' = [answer EXCEPT ![c] = NonePending]
        /\ UNCHANGED <<requireAll, loaded, serving, sawReady, srvVars>>
    BY <1>3 DEF Record
  <2> HIDE DEF pending
  <2>3. newest' \in [Issuers -> PendingReasons \cup {"none", "initialized"}]
    BY <2>1, <2>2
  <2>4. initialized' \subseteq Issuers
    BY <2>2 DEF Verified
  <2>5. ready' \in BOOLEAN
    BY <2>2 DEF NowReady
  <2>6. answer' \in [Checks -> [Issuers -> PendingReasons \cup {"none", "todo", "verified"}]]
    <3>1. NonePending \in [Issuers -> PendingReasons \cup {"none", "todo", "verified"}]
      BY DEF NonePending
    <3> QED BY <2>2, <3>1
  <2> QED BY <2>1, <2>2, <2>3, <2>4, <2>5, <2>6 DEF srvVars
<1>4. ASSUME NEW i \in Issuers, Load(i) PROVE TypeOK'
  BY <1>4 DEF Load, checkVars, srvVars
<1>5. ASSUME SetServing PROVE TypeOK'
  BY <1>5 DEF SetServing, srvVars
<1>6. ASSUME Start \/ Cancel \/ ServeFails \/ OwnerCloses \/ Shutdown \/ Drained \/ DrainTimeout
      PROVE  TypeOK'
  BY <1>6 DEF Start, Cancel, ServeFails, OwnerCloses, Shutdown, Drained, DrainTimeout, checkVars
<1>7. ASSUME UNCHANGED vars PROVE TypeOK'
  BY <1>7 DEF vars
<1> QED BY <1>1, <1>2, <1>3, <1>4, <1>5, <1>6, <1>7 DEF Next, AtRest

\* The probe's state keeps its type.
THEOREM TypeCorrect == Spec => []TypeOK
BY TypeInit, TypeStep, PTL DEF Spec

-----------------------------------------------------------------------------
(* Readiness.                                                              *)

\* The answers of a round cover the uninitialized issuers; rounds run, and readiness latches, only when the proxy serves.
RoundsSound ==
  /\ \A c \in Checks:
       /\ probing[c] => serving /\ \A i \in Issuers \ initialized: answer[c][i] # "none"
       /\ sawReady[c] => ready
  /\ ready => serving /\ initialized # {} /\ (requireAll => initialized = Issuers)

\* The inductive invariant.
IInv == TypeOK /\ RoundsSound /\ NewestRecordCurrent /\ LatchHolds

\* What a round leaves uninitialized is what it reports as pending.
LEMMA PendingIsUninitialized ==
  ASSUME IInv, NEW c \in Checks, Record(c)
  PROVE  StillPending(c) = Issuers \ initialized'
<1>1. initialized' = initialized \cup Verified(c) /\ probing[c]
      /\ \A i \in Issuers: answer[c][i] # "todo"
  BY DEF Record
<1>2. \A i \in Issuers: answer[c][i] \in PendingReasons \cup {"none", "todo", "verified"}
  BY DEF IInv, TypeOK
<1>3. \A i \in Issuers \ initialized: answer[c][i] # "none"
  BY <1>1 DEF IInv, RoundsSound
<1> QED BY <1>1, <1>2, <1>3 DEF StillPending, Verified, PendingReasons

\* Every step keeps RoundsSound: what a round of Check did not have to ask was
\* initialized before.
LEMMA RoundsStep == IInv /\ [Next]_vars => RoundsSound'
<1> SUFFICES ASSUME IInv, [Next]_vars PROVE RoundsSound'
  OBVIOUS
<1>0. TypeOK /\ RoundsSound
  BY DEF IInv
<1> USE <1>0 DEF RoundsSound
<1>1. ASSUME NEW c \in Checks, Begin(c) PROVE RoundsSound'
  <2>1. UNCHANGED <<requireAll, loaded, serving, ready, initialized>>
    BY <1>1 DEF Begin
  <2>2. CASE ~serving
    BY <1>1, <2>1, <2>2 DEF Begin
  <2>3. CASE serving
    <3>1. \A d \in Checks, j \in Issuers:
            answer'[d][j] = IF d = c THEN (IF j \in initialized THEN "none" ELSE "todo")
                                     ELSE answer[d][j]
      BY <1>1, <2>3 DEF Begin, TypeOK
    <3>2. \A d \in Checks: /\ probing'[d] => probing[d] \/ d = c
                           /\ sawReady'[d] => ready
      BY <1>1, <2>3 DEF Begin, TypeOK
    <3> QED BY <2>1, <2>3, <3>1, <3>2
  <2> QED BY <2>2, <2>3
<1>2. ASSUME NEW c \in Checks, NEW i \in Issuers, Probe(c, i) PROVE RoundsSound'
  <2>1. PICK a \in Classifications(i): answer' = [answer EXCEPT ![c][i] = a]
    BY <1>2 DEF Probe
  <2>2. a # "none"
    BY DEF Classifications
  <2>3. \A d \in Checks, j \in Issuers:
          answer'[d][j] = IF d = c /\ j = i THEN a ELSE answer[d][j]
    BY <2>1 DEF TypeOK
  <2>4. UNCHANGED <<requireAll, loaded, serving, ready, initialized, probing, sawReady>>
    BY <1>2 DEF Probe
  <2> QED BY <2>2, <2>3, <2>4
<1>3. ASSUME NEW c \in Checks, Record(c) PROVE RoundsSound'
  <2>1. /\ initialized' = initialized \cup Verified(c) /\ ready' = NowReady(c) /\ probing[c]
        /\ probing' = [probing EXCEPT ![c] = FALSE]
        /\ answer' = [answer EXCEPT ![c] = NonePending]
        /\ UNCHANGED <<requireAll, loaded, serving, sawReady>>
    BY <1>3 DEF Record
  <2>2. StillPending(c) = Issuers \ initialized'
    BY <1>3, PendingIsUninitialized
  <2>3. initialized' \subseteq Issuers
    BY <2>1 DEF TypeOK, Verified
  <2>4. ready' => serving /\ initialized' # {} /\ (requireAll => initialized' = Issuers)
    <3>1. CASE ready
      BY <2>1, <2>3, <3>1
    <3>2. CASE ~ready
      BY <2>1, <2>2, <2>3, <3>2, ProbeAssumption DEF NowReady, TypeOK
    <3> QED BY <3>1, <3>2
  <2>5. \A d \in Checks: sawReady[d] => ready'
    BY <2>1 DEF NowReady
  <2>6. \A d \in Checks: probing'[d] => probing[d] /\ answer'[d] = answer[d]
    BY <2>1 DEF TypeOK
  <2> QED BY <2>1, <2>4, <2>5, <2>6
<1>4. ASSUME NEW i \in Issuers, Load(i) PROVE RoundsSound'
  BY <1>4 DEF Load, checkVars
<1>5. ASSUME SetServing PROVE RoundsSound'
  BY <1>5 DEF SetServing
<1>6. ASSUME UNCHANGED <<requireAll, loaded, checkVars>> PROVE RoundsSound'
  BY <1>6 DEF checkVars
<1>7. \/ \E c \in Checks: Begin(c) \/ Record(c) \/ \E i \in Issuers: Probe(c, i)
      \/ \E i \in Issuers: Load(i)
      \/ SetServing
      \/ UNCHANGED <<requireAll, loaded, checkVars>>
  BY DEF Next, AtRest, vars, checkVars, Start, Cancel, ServeFails, OwnerCloses, Shutdown, Drained,
     DrainTimeout
<1> QED BY <1>1, <1>2, <1>3, <1>4, <1>5, <1>6, <1>7

\* Only Record changes the newest records and the results, and it keeps both
\* consistent with the pending set it reports and with the latch.
LEMMA RecordsStep == IInv /\ [Next]_vars => NewestRecordCurrent' /\ LatchHolds'
<1> SUFFICES ASSUME IInv, [Next]_vars PROVE NewestRecordCurrent' /\ LatchHolds'
  OBVIOUS
<1>0. TypeOK /\ RoundsSound /\ NewestRecordCurrent /\ LatchHolds
  BY DEF IInv
<1>1. ASSUME NEW c \in Checks, Record(c) PROVE NewestRecordCurrent' /\ LatchHolds'
  <2> DEFINE pending == [i \in Issuers |-> IF i \in StillPending(c) THEN answer[c][i] ELSE "none"]
  <2>1. /\ lastPending' = pending /\ initialized' = initialized \cup Verified(c)
        /\ newest' = [i \in Issuers |->
             IF i \in StillPending(c) /\ pending # lastPending THEN pending[i]
             ELSE IF i \in Verified(c) \ initialized THEN "initialized"
             ELSE newest[i]]
        /\ result' = [result EXCEPT ![c] = IF NowReady(c) THEN "ok" ELSE "unavailable"]
        /\ probing' = [probing EXCEPT ![c] = FALSE] /\ UNCHANGED sawReady
    BY <1>1 DEF Record
  <2>2. StillPending(c) = Issuers \ initialized'
    BY <1>1, PendingIsUninitialized DEF IInv
  <2>3. \A i \in StillPending(c): pending[i] \in PendingReasons
    BY DEF StillPending
  <2> HIDE DEF pending
  <2>4. NewestRecordCurrent'
    <3> SUFFICES ASSUME NEW i \in Issuers
                 PROVE  /\ i \in initialized' <=> newest'[i] = "initialized"
                        /\ i \notin initialized' => newest'[i] = lastPending'[i]
      BY DEF NewestRecordCurrent
    <3>1. CASE i \in StillPending(c)
      BY <1>0, <2>1, <2>2, <2>3, <3>1 DEF NewestRecordCurrent, PendingReasons
    <3>2. CASE i \notin StillPending(c)
      BY <1>0, <2>1, <2>2, <3>2 DEF NewestRecordCurrent
    <3> QED BY <3>1, <3>2
  <2>5. LatchHolds'
    BY <1>0, <2>1 DEF LatchHolds, NowReady, RoundsSound, TypeOK
  <2> QED BY <2>4, <2>5
<1>2. ASSUME NEW c \in Checks, Begin(c) PROVE NewestRecordCurrent' /\ LatchHolds'
  BY <1>0, <1>2 DEF Begin, NewestRecordCurrent, LatchHolds, RoundsSound, TypeOK
<1>3. ASSUME UNCHANGED <<initialized, lastPending, newest, probing, sawReady, result>>
      PROVE  NewestRecordCurrent' /\ LatchHolds'
  BY <1>0, <1>3 DEF NewestRecordCurrent, LatchHolds
<1>4. \/ \E c \in Checks: Begin(c) \/ Record(c)
      \/ UNCHANGED <<initialized, lastPending, newest, probing, sawReady, result>>
  BY DEF Next, AtRest, vars, checkVars, Probe, Load, SetServing, Start, Cancel, ServeFails,
     OwnerCloses, Shutdown, Drained, DrainTimeout
<1> QED BY <1>1, <1>2, <1>3, <1>4

\* IInv is an invariant.
THEOREM Invariance == Spec => []IInv
<1>1. Init => IInv
  <2> SUFFICES ASSUME Init PROVE RoundsSound /\ NewestRecordCurrent /\ LatchHolds
    BY TypeInit DEF IInv
  <2> QED BY DEF Init, RoundsSound, NewestRecordCurrent, LatchHolds, NonePending
<1>2. IInv /\ [Next]_vars => IInv'
  BY TypeStep, RoundsStep, RecordsStep DEF IInv
<1> QED BY <1>1, <1>2, PTL DEF Spec

\* Check: ready means that the proxy serves and that an issuer (with
\* --readiness-require-all-issuers, every issuer) was found neither
\* uninitialized nor out of reach.
THEOREM ReadyMeansInitializedHolds == Spec => []ReadyMeansInitialized
<1>1. IInv => ReadyMeansInitialized
  BY DEF IInv, RoundsSound, ReadyMeansInitialized
<1> QED BY <1>1, Invariance, PTL

\* recordProbeResults: the newest record of every issuer says what the probe
\* knows about it.
THEOREM NewestRecordCurrentHolds == Spec => []NewestRecordCurrent
<1>1. IInv => NewestRecordCurrent
  BY DEF IInv
<1> QED BY <1>1, Invariance, PTL

\* Check: no call that begins after readiness latched reports unready.
THEOREM LatchHoldsAlways == Spec => []LatchHolds
<1>1. IInv => LatchHolds
  BY DEF IInv
<1> QED BY <1>1, Invariance, PTL

-----------------------------------------------------------------------------
(* Shutdown.                                                               *)

\* A listener that broke has reported it.
StopInv == CleanStopDrained /\ (srv = "broken" => err # {})

\* Start, Shutdown, Wait: a stop without an error leaves no check in flight.
THEOREM CleanStopDrainedHolds == Spec => []CleanStopDrained
<1>1. Init => StopInv
  BY DEF Init, StopInv, CleanStopDrained
<1>2. TypeOK /\ StopInv /\ [Next]_vars => StopInv'
  <2> SUFFICES ASSUME TypeOK, StopInv, [Next]_vars PROVE StopInv'
    OBVIOUS
  <2> USE DEF StopInv, CleanStopDrained
  <2>1. ASSUME NEW c \in Checks, Begin(c) PROVE StopInv'
    BY <2>1 DEF Begin, srvVars
  <2>2. ASSUME NEW c \in Checks, Record(c) PROVE StopInv'
    BY <2>2 DEF Record, srvVars, TypeOK
  <2>3. ASSUME Start \/ Cancel \/ Shutdown PROVE StopInv'
    BY <2>3 DEF Start, Cancel, Shutdown, checkVars
  <2>4. ASSUME ServeFails \/ OwnerCloses \/ Drained \/ DrainTimeout PROVE StopInv'
    BY <2>4 DEF ServeFails, OwnerCloses, Drained, DrainTimeout, checkVars
  <2>5. ASSUME UNCHANGED <<srv, err, probing>> PROVE StopInv'
    BY <2>5
  <2>6. \/ \E c \in Checks: Begin(c) \/ Record(c)
        \/ Start \/ Cancel \/ Shutdown \/ ServeFails \/ OwnerCloses \/ Drained \/ DrainTimeout
        \/ UNCHANGED <<srv, err, probing>>
    BY DEF Next, AtRest, vars, checkVars, srvVars, Probe, Load, SetServing
  <2> QED BY <2>1, <2>2, <2>3, <2>4, <2>5, <2>6
<1>3. StopInv => CleanStopDrained
  BY DEF StopInv
<1> QED BY <1>1, <1>2, <1>3, TypeCorrect, PTL DEF Spec
=============================================================================
