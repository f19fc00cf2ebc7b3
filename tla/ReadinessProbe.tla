--------------------------- MODULE ReadinessProbe ---------------------------
(***************************************************************************)
(* The readiness endpoint: pkg/probe/probe.go.                             *)
(*                                                                         *)
(* HealthCheck.Check is called by any number of concurrent requests.  Each *)
(* takes a snapshot of the uninitialized issuers under the lock, probes    *)
(* them without it, and takes it again to record what it saw and to decide *)
(* readiness, which latches.  Server owns the listener: it stops when its  *)
(* context is canceled or when serving fails, and drains what is in        *)
(* flight.  The issuers' authenticators are the environment.               *)
(***************************************************************************)
EXTENDS Naturals, FiniteSets

CONSTANTS
  Checks,     \* concurrent calls of Check
  Issuers     \* configured issuers; their names are distinct (run.go)

ASSUME ProbeAssumption == Issuers # {}

VARIABLES
  requireAll,   \* HealthCheck.requireAll: --readiness-require-all-issuers
  loaded,       \* issuers whose authenticator has completed its initialization
  serving,      \* HealthCheck.serving
  ready,        \* HealthCheck.ready, and the ready gauge
  initialized,  \* HealthCheck.initialized, and the issuer gauges
  lastPending,  \* HealthCheck.lastPending
  newest,       \* per issuer, its newest oidc.issuer.* record
  probing,      \* the check is in flight
  answer,       \* per check and issuer, what this round's probe returned
  sawReady,     \* ready had latched when the check began (history)
  result,       \* what the last call of Check returned, once it has
  srv,          \* state of the listener and of the goroutine that owns it
  canceled,     \* the context passed to Start is done
  err           \* the terminal error, as the set of its causes

checkVars == <<serving, ready, initialized, lastPending, newest, probing, answer, sawReady, result>>
srvVars == <<srv, canceled, err>>
vars == <<requireAll, loaded, serving, ready, initialized, lastPending, newest, probing, answer,
          sawReady, result, srv, canceled, err>>

PendingReasons == {"not_initialized", "transient"}
NonePending == [i \in Issuers |-> "none"]

Init ==
  /\ requireAll \in BOOLEAN
  /\ loaded = {} /\ serving = FALSE /\ ready = FALSE /\ initialized = {}
  /\ lastPending = NonePending
  /\ newest = NonePending
  /\ probing = [c \in Checks |-> FALSE]
  /\ answer = [c \in Checks |-> NonePending]
  /\ sawReady = [c \in Checks |-> FALSE]
  /\ result = [c \in Checks |-> "none"]
  /\ srv = "new" /\ canceled = FALSE /\ err = {}

-----------------------------------------------------------------------------
(* HealthCheck.                                                            *)

\* SetServing: the proxy has started to serve.
SetServing ==
  /\ srv \notin {"new", "failed"} /\ ~serving
  /\ serving' = TRUE
  /\ UNCHANGED <<requireAll, loaded, ready, initialized, lastPending, newest, probing, answer,
                 sawReady, result, srvVars>>

\* Check, up to the unlock: refused while the proxy does not serve, otherwise
\* the issuers not yet initialized are the ones to probe.
Begin(c) ==
  /\ srv = "up" /\ ~probing[c]
  /\ \/ /\ ~serving
        /\ result' = [result EXCEPT ![c] = "unavailable"]
        /\ UNCHANGED <<probing, answer, sawReady>>
     \/ /\ serving
        /\ probing' = [probing EXCEPT ![c] = TRUE]
        /\ answer' = [answer EXCEPT ![c] =
             [i \in Issuers |-> IF i \in initialized THEN "none" ELSE "todo"]]
        /\ sawReady' = [sawReady EXCEPT ![c] = ready]
        /\ result' = [result EXCEPT ![c] = "none"]
  /\ UNCHANGED <<requireAll, loaded, serving, ready, initialized, lastPending, newest, srvVars>>

\* Fault: an error of any other kind is kept as a third reason to be pending.
ClassificationsUnfiltered(i) ==
  {"transient", "error"} \cup (IF i \in loaded THEN {} ELSE {"not_initialized"})

\* Fault: every error is taken for a transient one.
ClassificationsWide(i) == {"transient"}

\* AuthenticateToken and pendingReason.  Any issuer may be out of reach, and one
\* that has not completed its initialization may say so.  Whatever else it
\* returns, no error included, counts as verified: the code does not look
\* whether keys were fetched, and prefers a false ready to a false pending.
Classifications(i) ==
  {"transient", "verified"} \cup (IF i \in loaded THEN {} ELSE {"not_initialized"})

\* Check probes one issuer, without the lock.
Probe(c, i) ==
  /\ probing[c] /\ answer[c][i] = "todo"
  /\ \E a \in Classifications(i): answer' = [answer EXCEPT ![c][i] = a]
  /\ UNCHANGED <<requireAll, loaded, serving, ready, initialized, lastPending, newest, probing,
                 sawReady, result, srvVars>>

\* The issuers the check counts as initialized.
Verified(c) == {i \in Issuers: answer[c][i] = "verified"}

\* Fault: results of issuers initialized in the meantime are kept.
StillPendingAll(c) == {i \in Issuers: answer[c][i] \in PendingReasons}

\* recordProbeResults: its pending results, without those made stale by
\* another check.
StillPending(c) ==
  {i \in Issuers: answer[c][i] \in PendingReasons} \ (initialized \cup Verified(c))

\* Fault: the latch is not consulted, this round's answers are.
NowReadyFresh(c) ==
  IF requireAll THEN StillPending(c) = {} ELSE Verified(c) # {}

\* Fault: an issuer out of reach does not hold readiness up.
NowReadyTransient(c) ==
  \/ ready
  \/ IF requireAll THEN {i \in StillPending(c): answer[c][i] = "not_initialized"} = {}
     ELSE initialized \cup Verified(c) # {}

\* The end of Check: readiness has latched, or its condition now holds.
NowReady(c) ==
  \/ ready
  \/ IF requireAll THEN StillPending(c) = {} ELSE initialized \cup Verified(c) # {}

\* Check from the second lock on: record, report a pending set that changed,
\* decide.
Record(c) ==
  LET pending == [i \in Issuers |-> IF i \in StillPending(c) THEN answer[c][i] ELSE "none"] IN
  /\ probing[c] /\ \A i \in Issuers: answer[c][i] # "todo"
  /\ initialized' = initialized \cup Verified(c)
  /\ lastPending' = pending
  /\ newest' = [i \in Issuers |->
       IF i \in StillPending(c) /\ pending # lastPending THEN pending[i]
       ELSE IF i \in Verified(c) \ initialized THEN "initialized"
       ELSE newest[i]]
  /\ ready' = NowReady(c)
  /\ result' = [result EXCEPT ![c] = IF NowReady(c) THEN "ok" ELSE "unavailable"]
  /\ probing' = [probing EXCEPT ![c] = FALSE]
  /\ answer' = [answer EXCEPT ![c] = NonePending]
  /\ UNCHANGED <<requireAll, loaded, serving, sawReady, srvVars>>

\* An authenticator completes its initialization.
Load(i) ==
  /\ i \notin loaded
  /\ loaded' = loaded \cup {i}
  /\ UNCHANGED <<requireAll, checkVars, srvVars>>

-----------------------------------------------------------------------------
(* Server.                                                                 *)

\* Start: the port is bound, or the caller is told that it is not.
Start ==
  /\ srv = "new"
  /\ srv' \in {"up", "failed"}
  /\ UNCHANGED <<requireAll, loaded, checkVars, canceled, err>>

Cancel ==
  /\ ~canceled
  /\ canceled' = TRUE
  /\ UNCHANGED <<requireAll, loaded, checkVars, srv, err>>

\* Serve returns although nobody asked it to.
ServeFails ==
  /\ srv = "up"
  /\ srv' = "broken" /\ err' = err \cup {"serve"}
  /\ UNCHANGED <<requireAll, loaded, checkVars, canceled>>

\* The owner sees that: it closes the connections and closes done.
OwnerCloses ==
  /\ srv = "broken"
  /\ srv' = "stopped"
  /\ UNCHANGED <<requireAll, loaded, checkVars, canceled, err>>

\* Fault: done is closed as soon as Serve has returned.
ShutdownUnjoined ==
  /\ srv \in {"up", "broken"} /\ canceled
  /\ srv' = "stopped"
  /\ UNCHANGED <<requireAll, loaded, checkVars, canceled, err>>

\* The owner sees that the context is done, and calls Shutdown, which closes
\* the listener and waits for the checks in flight.
Shutdown ==
  /\ srv \in {"up", "broken"} /\ canceled
  /\ srv' = "draining"
  /\ UNCHANGED <<requireAll, loaded, checkVars, canceled, err>>

Drained ==
  /\ srv = "draining" /\ \A c \in Checks: ~probing[c]
  /\ srv' = "stopped"
  /\ UNCHANGED <<requireAll, loaded, checkVars, canceled, err>>

\* Fault: Shutdown has no timeout.
DrainTimeoutNever == FALSE /\ UNCHANGED vars

\* shutdownTimeout passes with a check still in flight.
DrainTimeout ==
  /\ srv = "draining" /\ \E c \in Checks: probing[c]
  /\ srv' = "stopped" /\ err' = err \cup {"drain"}
  /\ UNCHANGED <<requireAll, loaded, checkVars, canceled>>

\* The listener is gone and the last check has returned.
AtRest ==
  /\ srv \in {"failed", "stopped"} /\ \A c \in Checks: ~probing[c]
  /\ UNCHANGED vars

Next ==
  \/ \E c \in Checks: Begin(c) \/ Record(c) \/ \E i \in Issuers: Probe(c, i)
  \/ \E i \in Issuers: Load(i)
  \/ SetServing
  \/ Start \/ Cancel \/ ServeFails \/ OwnerCloses \/ Shutdown \/ Drained \/ DrainTimeout
  \/ AtRest

Spec == Init /\ [][Next]_vars

\* The owner goroutine runs and Shutdown returns within its timeout.  Nothing
\* is assumed of the checks in flight.
OwnerFairness ==
  /\ WF_vars(OwnerCloses \/ Shutdown)
  /\ WF_vars(Drained \/ DrainTimeout)

OwnerSpec == Spec /\ OwnerFairness

\* The kubelet keeps asking, a probe returns within its timeout, and a loaded
\* issuer that is asked again and again answers in the end.
ProbeFairness ==
  \A c \in Checks:
    /\ WF_vars(Begin(c)) /\ WF_vars(Record(c))
    /\ \A i \in Issuers:
         /\ WF_vars(Probe(c, i))
         /\ SF_vars(i \in loaded /\ Probe(c, i) /\ answer'[c][i] = "verified")

-----------------------------------------------------------------------------
(* Properties.                                                             *)

\* Type invariant of the probe's state.
TypeOK ==
  /\ requireAll \in BOOLEAN
  /\ loaded \subseteq Issuers
  /\ initialized \subseteq Issuers
  /\ serving \in BOOLEAN /\ ready \in BOOLEAN /\ canceled \in BOOLEAN
  /\ lastPending \in [Issuers -> PendingReasons \cup {"none"}]
  /\ newest \in [Issuers -> PendingReasons \cup {"none", "initialized"}]
  /\ probing \in [Checks -> BOOLEAN]
  /\ answer \in [Checks -> [Issuers -> PendingReasons \cup {"none", "todo", "verified"}]]
  /\ sawReady \in [Checks -> BOOLEAN]
  /\ result \in [Checks -> {"none", "ok", "unavailable"}]
  /\ srv \in {"new", "failed", "up", "broken", "draining", "stopped"}
  /\ err \subseteq {"serve", "drain"}

\* Check: the proxy is ready only when it serves and some issuer, with
\* --readiness-require-all-issuers every issuer, was found neither uninitialized
\* nor out of reach by some check, however the rounds of concurrent checks
\* overlap.  It does not follow that an issuer's keys were fetched.
ReadyMeansInitialized ==
  ready => /\ serving
           /\ initialized # {}
           /\ requireAll => initialized = Issuers

\* recordProbeResults: "the newest record for that issuer stays the initialized
\* one", and for any other issuer it is the one the pending set was last
\* reported with.
NewestRecordCurrent ==
  \A i \in Issuers:
    /\ i \in initialized <=> newest[i] = "initialized"
    /\ i \notin initialized => newest[i] = lastPending[i]

\* Check: "once readiness latches it always returns nil", so a call that began
\* after that never answers 503.
LatchHolds ==
  \A c \in Checks: (sawReady[c] /\ ~probing[c]) => result[c] = "ok"

\* Server.Start: done is closed without an error only when nothing is being
\* answered any more; a drain that was cut short is reported.
CleanStopDrained ==
  (srv = "stopped" /\ err = {}) => \A c \in Checks: ~probing[c]

\* A canceled context stops the listener, even when a probe never returns.
StopEnds == (canceled /\ srv # "new") ~> srv \in {"failed", "stopped"}

\* When the proxy serves and all issuers have loaded, it becomes ready, unless
\* its listener is stopped first, provided that somebody keeps asking.
BecomesReady ==
  ProbeFairness => ((serving /\ loaded = Issuers) ~> (ready \/ srv # "up"))
=============================================================================
