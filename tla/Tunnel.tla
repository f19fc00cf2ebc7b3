-------------------------------- MODULE Tunnel --------------------------------
(***************************************************************************)
(* The port-forward of the load generator: tunnel and startPortForward of  *)
(* hack/metrics-demo/load/main.go.                                         *)
(*                                                                         *)
(* A tunnel keeps one kubectl child serving and opens another when it      *)
(* dies.  open runs on the caller's goroutine and, after each death, on a  *)
(* goroutine of its own; every forward has a waiter that reaps it; Close   *)
(* is called by the caller and by a watchdog of the context.  A forward is *)
(* named by the kubectl process it runs.                                   *)
(***************************************************************************)
EXTENDS Naturals, FiniteSets

CONSTANTS
  Forwards,   \* model bound: the kubectl processes
  Attempts,   \* tunnelReopenAttempts
  MaxDeaths   \* model bound: how often a serving kubectl dies by itself

Main == "main"
Watchdog == "watchdog"
NoForward == "none"

ASSUME TunnelAssumption ==
  /\ Attempts \in Nat \ {0}
  /\ MaxDeaths \in Nat
  /\ {Main, Watchdog, NoForward} \cap Forwards = {}
  /\ IsFiniteSet(Forwards) /\ Cardinality(Forwards) > MaxDeaths

Openers == {Main} \cup Forwards      \* newTunnel, and reopen after each death
Closers == {Main, Watchdog}

VARIABLES
  done,      \* tunnel.ctx is done
  closed,    \* tunnel.closed
  stop,      \* tunnel.stop: the forward that is published
  process,   \* the kubectl processes
  waiter,    \* the goroutine that owns cmd.Wait of a forward
  stopping,  \* how often stop() closed the forward's stopping channel
  waited,    \* the forward's waited channel is closed
  opener,    \* where a goroutine that opens forwards is
  opening,   \* the forward it is opening
  attempt,   \* the attempts of its loop so far
  closer,    \* where a goroutine that closes the tunnel is
  taken,     \* the forward it took from tunnel.stop
  deaths     \* how often a serving kubectl died by itself

vars == <<done, closed, stop, process, waiter, stopping, waited, opener, opening,
          attempt, closer, taken, deaths>>
procVars == <<process, waiter, stopping, waited, deaths>>
openVars == <<opener, opening, attempt>>
closeVars == <<closer, taken>>

Init ==
  /\ done = FALSE /\ closed = FALSE /\ stop = NoForward
  /\ process = [f \in Forwards |-> "unused"]
  /\ waiter = [f \in Forwards |-> "none"]
  /\ stopping = [f \in Forwards |-> 0]
  /\ waited = [f \in Forwards |-> FALSE]
  /\ opener = [o \in Openers |-> IF o = Main THEN "start" ELSE "none"]
  /\ opening = [o \in Openers |-> NoForward]
  /\ attempt = [o \in Openers |-> 0]
  /\ closer = [c \in Closers |-> "none"]
  /\ taken = [c \in Closers |-> NoForward]
  /\ deaths = 0

-----------------------------------------------------------------------------
(* open and startPortForward.                                              *)

\* Fault: reopen makes one attempt.
OpenFailsOnce(o) ==
  /\ opening' = [opening EXCEPT ![o] = NoForward]
  /\ attempt' = [attempt EXCEPT ![o] = @ + 1]
  /\ opener' = [opener EXCEPT ![o] = IF o = Main THEN "failed" ELSE "ended"]
  /\ done' = (done \/ o = Main)

\* open reports an error: newTunnel cancels the context and returns it, the
\* loop of reopen tries again or gives up.
OpenFails(o) ==
  /\ opening' = [opening EXCEPT ![o] = NoForward]
  /\ attempt' = [attempt EXCEPT ![o] = @ + 1]
  /\ opener' = [opener EXCEPT ![o] =
       IF o = Main THEN "failed" ELSE IF attempt[o] + 1 < Attempts THEN "delay" ELSE "gaveUp"]
  /\ done' = (done \/ o = Main)

\* cmd.Start: refused on a context that is done, or for another reason.
StartFails(o) ==
  /\ opener[o] = "start"
  /\ OpenFails(o)
  /\ UNCHANGED <<closed, stop, procVars, closeVars>>

Start(o) ==
  /\ opener[o] = "start" /\ ~done
  /\ \E f \in Forwards:
       /\ process[f] = "unused"
       /\ process' = [process EXCEPT ![f] = "starting"]
       /\ opening' = [opening EXCEPT ![o] = f]
  /\ opener' = [opener EXCEPT ![o] = "await"]
  /\ UNCHANGED <<done, closed, stop, waiter, stopping, waited, attempt, closeVars, deaths>>

\* The select takes the announcement: the waiter starts.
Announced(o) ==
  LET f == opening[o] IN
  /\ opener[o] = "await" /\ process[f] = "serving"
  /\ opener' = [opener EXCEPT ![o] = "publish"]
  /\ waiter' = [waiter EXCEPT ![f] = "wait"]
  /\ UNCHANGED <<done, closed, stop, process, stopping, waited, opening, attempt,
                 closeVars, deaths>>

\* Fault: the timeout and the context end neither the wait nor the child, only
\* what the child prints does.
NotAnnouncedSilently(o) ==
  /\ opener[o] = "await" /\ process[opening[o]] = "serving"
  /\ process' = [process EXCEPT ![opening[o]] = "unused"]
  /\ OpenFails(o)
  /\ UNCHANGED <<closed, stop, waiter, stopping, waited, closeVars, deaths>>

\* The select takes an announcement of failure, the ready timeout or the
\* context: the child is killed and waited for, and its name is free again.
NotAnnounced(o) ==
  /\ opener[o] = "await"
  /\ process' = [process EXCEPT ![opening[o]] = "unused"]
  /\ OpenFails(o)
  /\ UNCHANGED <<closed, stop, waiter, stopping, waited, closeVars, deaths>>

\* Fault: the forward is published whether or not the tunnel was closed.
PublishAlways(o) ==
  /\ opener[o] = "publish"
  /\ stop' = opening[o]
  /\ opener' = [opener EXCEPT ![o] = "opened"]
  /\ opening' = [opening EXCEPT ![o] = NoForward]
  /\ closer' = [closer EXCEPT ![Watchdog] = IF o = Main THEN "watch" ELSE @]
  /\ UNCHANGED <<done, closed, procVars, attempt, taken>>

\* open publishes the forward, unless Close came first: then it is stopped.
\* newTunnel starts its watchdog and hands the tunnel to the caller.
Publish(o) ==
  /\ opener[o] = "publish"
  /\ \/ /\ ~closed
        /\ stop' = opening[o]
        /\ opener' = [opener EXCEPT ![o] = "opened"]
        /\ opening' = [opening EXCEPT ![o] = NoForward]
        /\ closer' = [closer EXCEPT ![Watchdog] = IF o = Main THEN "watch" ELSE @]
     \/ /\ closed
        /\ opener' = [opener EXCEPT ![o] = "discard"]
        /\ UNCHANGED <<stop, opening, closer>>
  /\ UNCHANGED <<done, closed, procVars, attempt, taken>>

\* stop(): stopping is closed and the process killed; the caller then waits.
StopForward(f) ==
  /\ stopping' = [stopping EXCEPT ![f] = @ + 1]
  /\ process' = [process EXCEPT ![f] = IF @ = "serving" THEN "exited" ELSE @]
  /\ UNCHANGED <<waiter, waited, deaths>>

Discard(o) ==
  /\ opener[o] = "discard"
  /\ StopForward(opening[o])
  /\ opener' = [opener EXCEPT ![o] = "discarding"]
  /\ UNCHANGED <<done, closed, stop, opening, attempt, closeVars>>

\* errTunnelClosed: reopen returns.
Discarded(o) ==
  /\ opener[o] = "discarding" /\ waited[opening[o]]
  /\ opener' = [opener EXCEPT ![o] = "ended"]
  /\ opening' = [opening EXCEPT ![o] = NoForward]
  /\ UNCHANGED <<done, closed, stop, procVars, attempt, closeVars>>

\* The waiter: cmd.Wait returns and waited is closed ...
Reap(f) ==
  /\ waiter[f] = "wait" /\ process[f] = "exited"
  /\ process' = [process EXCEPT ![f] = "reaped"]
  /\ waited' = [waited EXCEPT ![f] = TRUE]
  /\ waiter' = [waiter EXCEPT ![f] = "report"]
  /\ UNCHANGED <<done, closed, stop, stopping, openVars, closeVars, deaths>>

\* ... then a death nobody asked for starts a reopen goroutine.
ReportDeath(f) ==
  /\ waiter[f] = "report"
  /\ waiter' = [waiter EXCEPT ![f] = "ended"]
  /\ opener' = [opener EXCEPT ![f] = IF stopping[f] = 0 THEN "check" ELSE @]
  /\ UNCHANGED <<done, closed, stop, process, stopping, waited, opening, attempt,
                 closeVars, deaths>>

-----------------------------------------------------------------------------
(* reopen.                                                                 *)

Reopen(o) ==
  /\ opener[o] = "check"
  /\ opener' = [opener EXCEPT ![o] = IF closed THEN "ended" ELSE "delay"]
  /\ UNCHANGED <<done, closed, stop, procVars, opening, attempt, closeVars>>

\* The timer of the select.  A second is longer than any goroutine takes from
\* an announced port to its publication.  On a context that is done the select
\* may take either case once the timer has fired too.
Delayed(o) ==
  /\ opener[o] = "delay" /\ \A p \in Openers: opener[p] # "publish"
  /\ opener' = [opener EXCEPT ![o] = "start"]
  /\ UNCHANGED <<done, closed, stop, procVars, opening, attempt, closeVars>>

DelayCanceled(o) ==
  /\ opener[o] = "delay" /\ done
  /\ opener' = [opener EXCEPT ![o] = "ended"]
  /\ UNCHANGED <<done, closed, stop, procVars, opening, attempt, closeVars>>

-----------------------------------------------------------------------------
(* Close.                                                                  *)

\* The caller's deferred Close, and the watchdog once the context is done.
CallClose(c) ==
  /\ \/ c = Main /\ opener[Main] = "opened" /\ closer[c] = "none"
     \/ c = Watchdog /\ closer[c] = "watch" /\ done
  /\ closer' = [closer EXCEPT ![c] = "close"]
  /\ UNCHANGED <<done, closed, stop, procVars, openVars, taken>>

\* Fault: a second Close does not return early.
TakeStopAgain(c) ==
  /\ closer[c] = "close"
  /\ closed' = TRUE
  /\ taken' = [taken EXCEPT ![c] = stop]
  /\ closer' = [closer EXCEPT ![c] = "cancel"]
  /\ UNCHANGED <<done, stop, procVars, openVars>>

\* Under the lock: the first Close takes the forward.
TakeStop(c) ==
  /\ closer[c] = "close"
  /\ \/ closed /\ closer' = [closer EXCEPT ![c] = "returned"] /\ UNCHANGED <<closed, stop, taken>>
     \/ /\ ~closed /\ closed' = TRUE
        /\ taken' = [taken EXCEPT ![c] = stop]
        /\ stop' = NoForward
        /\ closer' = [closer EXCEPT ![c] = "cancel"]
  /\ UNCHANGED <<done, procVars, openVars>>

Cancel(c) ==
  /\ closer[c] = "cancel"
  /\ done' = TRUE
  /\ closer' = [closer EXCEPT ![c] = IF taken[c] = NoForward THEN "returned" ELSE "stop"]
  /\ UNCHANGED <<closed, stop, procVars, openVars, taken>>

StopTaken(c) ==
  /\ closer[c] = "stop"
  /\ StopForward(taken[c])
  /\ closer' = [closer EXCEPT ![c] = "stopping"]
  /\ UNCHANGED <<done, closed, stop, openVars, taken>>

Stopped(c) ==
  /\ closer[c] = "stopping" /\ waited[taken[c]]
  /\ closer' = [closer EXCEPT ![c] = "returned"]
  /\ UNCHANGED <<done, closed, stop, procVars, openVars, taken>>

-----------------------------------------------------------------------------
(* The environment: kubectl, signals, the context.                         *)

\* kubectl prints the port it forwards.
KubectlServes(f) ==
  /\ process[f] = "starting"
  /\ process' = [process EXCEPT ![f] = "serving"]
  /\ UNCHANGED <<done, closed, stop, waiter, stopping, waited, openVars, closeVars, deaths>>

\* A forward that serves loses its connection and exits.
KubectlDies(f) ==
  /\ process[f] = "serving" /\ waiter[f] = "wait" /\ deaths < MaxDeaths
  /\ deaths' = deaths + 1
  /\ process' = [process EXCEPT ![f] = "exited"]
  /\ UNCHANGED <<done, closed, stop, waiter, stopping, waited, openVars, closeVars>>

\* exec.CommandContext kills the process when the context is done.
ContextKills(f) ==
  /\ done /\ process[f] = "serving" /\ waiter[f] = "wait"
  /\ process' = [process EXCEPT ![f] = "exited"]
  /\ UNCHANGED <<done, closed, stop, waiter, stopping, waited, openVars, closeVars, deaths>>

\* SIGINT or SIGTERM cancels the context the tunnel's derives from.
Signal ==
  /\ ~done /\ done' = TRUE
  /\ UNCHANGED <<closed, stop, procVars, openVars, closeVars>>

Resting(o) == opener[o] \in {"none", "opened", "failed", "gaveUp", "ended"}

Ended ==
  /\ \A o \in Openers: Resting(o)
  /\ \A c \in Closers: closer[c] \in {"none", "returned"}
  /\ \A f \in Forwards: process[f] \in {"unused", "reaped"} /\ waiter[f] \in {"none", "ended"}

AtRest == Ended /\ UNCHANGED vars

-----------------------------------------------------------------------------
OpenerStep(o) ==
  \/ StartFails(o) \/ Start(o) \/ Announced(o) \/ NotAnnounced(o) \/ Publish(o)
  \/ Discard(o) \/ Discarded(o) \/ Reopen(o) \/ Delayed(o) \/ DelayCanceled(o)
CloserStep(c) == TakeStop(c) \/ Cancel(c) \/ StopTaken(c) \/ Stopped(c)
WaiterStep(f) == Reap(f) \/ ReportDeath(f)

Next ==
  \/ \E o \in Openers: OpenerStep(o)
  \/ \E c \in Closers: CallClose(c) \/ CloserStep(c)
  \/ \E f \in Forwards: WaiterStep(f) \/ KubectlServes(f) \/ KubectlDies(f) \/ ContextKills(f)
  \/ Signal
  \/ AtRest

Spec == Init /\ [][Next]_vars

\* Goroutines are scheduled, a started kubectl that says nothing runs into the
\* ready timeout, and the watchdog sees its context end.
FairSpec ==
  /\ Spec
  /\ \A o \in Openers: WF_vars(OpenerStep(o))
  /\ \A c \in Closers: WF_vars(CloserStep(c))
  /\ WF_vars(CallClose(Watchdog))
  /\ \A f \in Forwards: WF_vars(WaiterStep(f)) /\ WF_vars(ContextKills(f))

-----------------------------------------------------------------------------
\* Type invariant of the tunnel.
TypeOK ==
  /\ {done, closed} \subseteq BOOLEAN
  /\ stop \in Forwards \cup {NoForward}
  /\ process \in [Forwards -> {"unused", "starting", "serving", "exited", "reaped"}]
  /\ waiter \in [Forwards -> {"none", "wait", "report", "ended"}]
  /\ stopping \in [Forwards -> Nat]
  /\ waited \in [Forwards -> BOOLEAN]
  /\ opener \in [Openers -> {"none", "check", "delay", "start", "await", "publish", "discard",
                             "discarding", "opened", "failed", "gaveUp", "ended"}]
  /\ opening \in [Openers -> Forwards \cup {NoForward}]
  /\ attempt \in [Openers -> 0..Attempts]
  /\ closer \in [Closers -> {"none", "watch", "close", "cancel", "stop", "stopping", "returned"}]
  /\ taken \in [Closers -> Forwards \cup {NoForward}]
  /\ deaths \in 0..MaxDeaths

\* stop(): the stopping channel of a forward is closed at most once (a second
\* close panics), whoever stops it: Close, called twice, or open.
StoppedOnce == \A f \in Forwards: stopping[f] <= 1

\* errTunnelClosed: a kubectl that serves can still be stopped by somebody: it
\* is published in a tunnel Close has yet to look at, or in the hands of the
\* goroutine that opens it or of the Close that took it.
NobodysKubectl ==
  \A f \in Forwards: process[f] = "serving" /\ stopping[f] = 0 =>
    \/ stop = f /\ ~closed
    \/ \E o \in Openers: opening[o] = f
    \/ \E c \in Closers: taken[c] = f /\ closer[c] \in {"cancel", "stop"}

\* "the tunnel reopens itself": while the tunnel is open, its published
\* forward serves, or its death is being reported or repaired, or repair was
\* given up after all attempts.
StaysOpen ==
  stop # NoForward /\ ~done =>
    \/ process[stop] = "serving"
    \/ waiter[stop] \in {"wait", "report"}
    \/ \E o \in Forwards: opener[o] = "gaveUp" \/ ~Resting(o)

\* Close returns, and leaves neither a kubectl nor a goroutine behind, even
\* when it meets a reopen half way.
CloseEnds == closed ~> Ended
=============================================================================
