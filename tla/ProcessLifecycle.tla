-------------------------- MODULE ProcessLifecycle --------------------------
(***************************************************************************)
(* Start and shutdown of the process: the run command of cmd/app/run.go,   *)
(* the signal handler, the listeners of metrics and readiness with the     *)
(* goroutines that own them, the secure server, and the pre-shutdown hook  *)
(* that flushes the audit backend.                                         *)
(*                                                                         *)
(* The main goroutine starts the parts in order, waits for the secure      *)
(* server and drains.  The signal handler, the goroutine that relays the   *)
(* stop channel to the context, the owners and the secure server run       *)
(* beside it.  What a readiness check answers is in ReadinessProbe.        *)
(***************************************************************************)
EXTENDS Naturals

CONSTANT MaxInFlight  \* bound on the proxied requests in flight

ASSUME LifecycleAssumption == MaxInFlight \in Nat

VARIABLES
  config,      \* which optional parts are configured
  pc,          \* where the main goroutine is
  pending,     \* signals buffered in the channel of signal.Notify
  taken,       \* signals the handler has read
  stopCh,      \* the stop channel is closed
  ctxDone,     \* the context of the readiness listener is canceled
  metricsDone, \* the context of the metrics listener is canceled
  lst,         \* the two listeners
  srv,         \* the secure server
  hook,        \* the hook "AuditBackend"
  failures,    \* what has failed so far (history)
  exit         \* how the process ended

sigVars == <<pending, taken, stopCh>>
vars == <<config, pc, pending, taken, stopCh, ctxDone, metricsDone, lst, srv, hook, failures, exit>>

Listeners == {"metrics", "probe"}
forcedSignalCount == 3
signalBuffer == 2
Running == exit = "none"

Init ==
  /\ config \in [metrics: BOOLEAN, backend: {"none", "bundled", "reporting"}]
  /\ pc = "start_metrics"
  /\ pending = 0 /\ taken = 0 /\ stopCh = FALSE
  /\ ctxDone = FALSE /\ metricsDone = FALSE
  /\ lst = [l \in Listeners |-> [phase |-> "off", broken |-> FALSE, busy |-> FALSE, err |-> FALSE]]
  /\ srv = [phase |-> "off", serveReturned |-> FALSE, inFlight |-> 0, overran |-> FALSE]
  /\ hook = "unregistered"
  /\ failures = {}
  /\ exit = "none"

-----------------------------------------------------------------------------
(* The signal handler.                                                     *)

\* The runtime delivers a signal to the channel, or drops it when it is full.
Signal ==
  /\ Running /\ pending < signalBuffer
  /\ pending' = pending + 1
  /\ UNCHANGED <<config, pc, taken, stopCh, ctxDone, metricsDone, lst, srv, hook, failures, exit>>

\* Fault: the handler returns after the first signal.
HandleOnce ==
  /\ Running /\ pending > 0 /\ taken = 0
  /\ pending' = pending - 1 /\ taken' = 1 /\ stopCh' = TRUE
  /\ UNCHANGED <<config, pc, ctxDone, metricsDone, lst, srv, hook, failures, exit>>

\* handle: the first signal closes the stop channel; after forcedSignalCount
\* more the process exits at once.
Handle ==
  /\ Running /\ pending > 0
  /\ pending' = pending - 1 /\ taken' = taken + 1 /\ stopCh' = TRUE
  /\ exit' = IF taken' = 1 + forcedSignalCount THEN "forced" ELSE exit
  /\ UNCHANGED <<config, pc, ctxDone, metricsDone, lst, srv, hook, failures>>

\* The goroutine of RunE that cancels the shared context on the stop channel.
RelayStop ==
  /\ Running /\ stopCh /\ ~ctxDone
  /\ ctxDone' = TRUE
  /\ UNCHANGED <<config, pc, sigVars, metricsDone, lst, srv, hook, failures, exit>>

-----------------------------------------------------------------------------
(* The listeners of metrics and readiness; each has one owner goroutine.   *)

\* Fault: both listeners run on the shared context.
ContextDoneShared(l) == ctxDone

\* The context each listener was started with.
ContextDone(l) == IF l = "metrics" THEN metricsDone ELSE ctxDone

Set(l, r) == lst' = [lst EXCEPT ![l] = r]

\* A scrape or a check arrives, and is answered.
Scrape(l) ==
  /\ Running /\ lst[l].phase = "serving" /\ ~lst[l].broken /\ ~lst[l].busy
  /\ Set(l, [lst[l] EXCEPT !.busy = TRUE])
  /\ UNCHANGED <<config, pc, sigVars, ctxDone, metricsDone, srv, hook, failures, exit>>

Answer(l) ==
  /\ Running /\ lst[l].busy
  /\ Set(l, [lst[l] EXCEPT !.busy = FALSE])
  /\ UNCHANGED <<config, pc, sigVars, ctxDone, metricsDone, srv, hook, failures, exit>>

\* Serve returns on its own: the listener broke.
ServeFails(l) ==
  /\ Running /\ lst[l].phase = "serving" /\ ~lst[l].broken
  /\ Set(l, [lst[l] EXCEPT !.broken = TRUE])
  /\ failures' = failures \cup {l}
  /\ UNCHANGED <<config, pc, sigVars, ctxDone, metricsDone, srv, hook, exit>>

\* The owner sees that serving ended, and closes what is open.
OwnerClose(l) ==
  /\ Running /\ lst[l].phase = "serving" /\ lst[l].broken
  /\ Set(l, [lst[l] EXCEPT !.phase = "done", !.err = TRUE])
  /\ UNCHANGED <<config, pc, sigVars, ctxDone, metricsDone, srv, hook, failures, exit>>

\* The owner sees the cancellation, and starts the graceful shutdown; if the
\* listener broke at the same time its select may take either branch.
OwnerShutdown(l) ==
  /\ Running /\ lst[l].phase = "serving" /\ ContextDone(l)
  /\ Set(l, [lst[l] EXCEPT !.phase = "draining"])
  /\ UNCHANGED <<config, pc, sigVars, ctxDone, metricsDone, srv, hook, failures, exit>>

\* Fault: after a shutdown the result of Serve is not joined.
DrainedUnjoined(l) ==
  /\ Running /\ lst[l].phase = "draining" /\ ~lst[l].busy
  /\ Set(l, [lst[l] EXCEPT !.phase = "done"])
  /\ UNCHANGED <<config, pc, sigVars, ctxDone, metricsDone, srv, hook, failures, exit>>

\* Shutdown found nothing in flight; the result of Serve is joined.
Drained(l) ==
  /\ Running /\ lst[l].phase = "draining" /\ ~lst[l].busy
  /\ Set(l, [lst[l] EXCEPT !.phase = "done", !.err = lst[l].broken])
  /\ UNCHANGED <<config, pc, sigVars, ctxDone, metricsDone, srv, hook, failures, exit>>

\* Fault: the shutdown has no deadline.
DrainOverrunsNever(l) == FALSE /\ UNCHANGED vars

\* shutdownTimeout passed with a handler in flight: it is cut off.
DrainOverruns(l) ==
  /\ Running /\ lst[l].phase = "draining" /\ lst[l].busy
  /\ Set(l, [lst[l] EXCEPT !.phase = "done", !.err = TRUE])
  /\ failures' = failures \cup {l}
  /\ UNCHANGED <<config, pc, sigVars, ctxDone, metricsDone, srv, hook, exit>>

-----------------------------------------------------------------------------
(* The secure server, k8s.io/apiserver's RunServer.                        *)

\* A request is accepted, and ends or, being hijacked, leaves the server's care.
Admit ==
  /\ Running /\ srv.phase = "serving" /\ srv.inFlight < MaxInFlight
  /\ srv' = [srv EXCEPT !.inFlight = @ + 1]
  /\ UNCHANGED <<config, pc, sigVars, ctxDone, metricsDone, lst, hook, failures, exit>>

Finish ==
  /\ Running /\ srv.inFlight > 0
  /\ srv' = [srv EXCEPT !.inFlight = @ - 1]
  /\ UNCHANGED <<config, pc, sigVars, ctxDone, metricsDone, lst, hook, failures, exit>>

\* Serve failed although nobody asked it to stop: its goroutine panics.
ServerPanics ==
  /\ Running /\ srv.phase = "serving" /\ ~stopCh
  /\ exit' = "panic"
  /\ UNCHANGED <<config, pc, sigVars, ctxDone, metricsDone, lst, srv, hook, failures>>

\* The stop channel closed: Shutdown closes the listener first.
ServerShutdown ==
  /\ Running /\ srv.phase = "serving" /\ stopCh
  /\ srv' = [srv EXCEPT !.phase = "draining"]
  /\ UNCHANGED <<config, pc, sigVars, ctxDone, metricsDone, lst, hook, failures, exit>>

\* Serve has returned: listenerStoppedCh is closed.
ListenerStops ==
  /\ Running /\ srv.phase \in {"draining", "stopped"} /\ ~srv.serveReturned
  /\ srv' = [srv EXCEPT !.serveReturned = TRUE]
  /\ UNCHANGED <<config, pc, sigVars, ctxDone, metricsDone, lst, hook, failures, exit>>

\* Shutdown returns, with nothing in flight or after its 60 seconds: waitCh
\* is closed.
ServerStops ==
  /\ Running /\ srv.phase = "draining"
  /\ srv' = [srv EXCEPT !.phase = "stopped", !.overran = srv.inFlight > 0]
  /\ UNCHANGED <<config, pc, sigVars, ctxDone, metricsDone, lst, hook, failures, exit>>

-----------------------------------------------------------------------------
(* The main goroutine: RunE.                                               *)

\* fail: the error is reported; the deferred calls stop the metrics listener.
Fail ==
  /\ pc' = "fail"
  /\ metricsDone' = TRUE
  /\ failures' = failures \cup {"start"}
  /\ UNCHANGED <<ctxDone, exit>>

Proceed(next) ==
  /\ pc' = next
  /\ UNCHANGED <<ctxDone, metricsDone, failures, exit>>

Bind(l) == Set(l, [lst[l] EXCEPT !.phase = "serving"])

\* The metrics listener starts first, on a context of its own.
StartMetrics ==
  /\ Running /\ pc = "start_metrics"
  /\ \/ /\ config.metrics
        /\ \/ Bind("metrics") /\ Proceed("configure")
           \/ Fail /\ UNCHANGED lst
     \/ ~config.metrics /\ Proceed("configure") /\ UNCHANGED lst
  /\ UNCHANGED <<config, sigVars, srv, hook>>

\* Clients, reviewers, the authenticators and the proxy are built.
Configure ==
  /\ Running /\ pc = "configure"
  /\ Proceed("start_probe") \/ Fail
  /\ UNCHANGED <<config, sigVars, lst, srv, hook>>

\* The readiness listener starts on the shared context.
StartProbe ==
  /\ Running /\ pc = "start_probe"
  /\ \/ Bind("probe") /\ Proceed("run_proxy")
     \/ Fail /\ UNCHANGED lst
  /\ UNCHANGED <<config, sigVars, srv, hook>>

\* Audit.Run: a configured backend may fail to start.
AuditFails == config.backend # "none" /\ Fail /\ UNCHANGED srv

\* Proxy.Run: an error of a transport or URL comes first; withHandlers
\* registers the hook; the audit backend starts, then the secure server.
RunProxy ==
  /\ Running /\ pc = "run_proxy"
  /\ \/ Fail /\ UNCHANGED <<srv, hook>>
     \/ /\ hook' = "registered"
        /\ \/ AuditFails
           \/ Fail /\ UNCHANGED srv
           \/ srv' = [srv EXCEPT !.phase = "serving"] /\ Proceed("await")
  /\ UNCHANGED <<config, sigVars, lst>>

\* Fault: only the listener of the secure server is awaited.
AwaitListenerOnly ==
  /\ Running /\ pc = "await" /\ srv.serveReturned
  /\ pc' = "wait_probe" /\ ctxDone' = TRUE
  /\ UNCHANGED <<config, sigVars, metricsDone, lst, srv, hook, failures, exit>>

\* RunE waits for waitCh and listenerStoppedCh, and drain cancels the context.
Await ==
  /\ Running /\ pc = "await" /\ srv.phase = "stopped" /\ srv.serveReturned
  /\ pc' = "wait_probe" /\ ctxDone' = TRUE
  /\ UNCHANGED <<config, sigVars, metricsDone, lst, srv, hook, failures, exit>>

\* drain: Wait of the readiness listener.
WaitProbe ==
  /\ Running /\ pc = "wait_probe" /\ lst["probe"].phase = "done"
  /\ Proceed("hooks")
  /\ UNCHANGED <<config, sigVars, lst, srv, hook>>

\* Audit.Shutdown: only a backend that reports can make the flush fail.
Flush ==
  \/ hook' = "completed" /\ UNCHANGED failures
  \/ config.backend = "reporting" /\ hook' = "failed" /\ failures' = failures \cup {"hook"}

\* drain: RunPreShutdownHooks runs the one hook registered.
RunHooks ==
  /\ Running /\ pc = "hooks"
  /\ Flush
  /\ pc' = "stop_metrics"
  /\ UNCHANGED <<config, sigVars, ctxDone, metricsDone, lst, srv, exit>>

\* drain: the metrics listener is told to stop.
StopMetrics ==
  /\ Running /\ pc = "stop_metrics"
  /\ metricsDone' = TRUE
  /\ pc' = "wait_metrics"
  /\ UNCHANGED <<config, sigVars, ctxDone, lst, srv, hook, failures, exit>>

\* Fault: drain does not wait for the metrics listener.
MetricsReleasedAlways == TRUE

\* Wait of the metrics listener, if there is one.
MetricsReleased == lst["metrics"].phase \in {"off", "done"}

\* drain joins the errors, and the run command returns.
Return ==
  /\ Running /\ pc = "wait_metrics" /\ MetricsReleased
  /\ exit' = IF lst["probe"].err \/ lst["metrics"].err \/ hook = "failed" THEN "error" ELSE "ok"
  /\ pc' = "exited"
  /\ UNCHANGED <<config, sigVars, ctxDone, metricsDone, lst, srv, hook, failures>>

\* The deferred wait after a failed start.
ReturnFailed ==
  /\ Running /\ pc = "fail" /\ MetricsReleased
  /\ exit' = "error" /\ pc' = "exited" /\ ctxDone' = TRUE
  /\ UNCHANGED <<config, sigVars, metricsDone, lst, srv, hook, failures>>

-----------------------------------------------------------------------------
\* The steps that need no environment, but for the hooks, which may block.
MainStep ==
  \/ StartMetrics \/ Configure \/ StartProbe \/ RunProxy \/ Await \/ WaitProbe
  \/ StopMetrics \/ Return \/ ReturnFailed

OwnerStep(l) == OwnerClose(l) \/ OwnerShutdown(l) \/ Drained(l) \/ DrainOverruns(l)

ServerStep == ServerShutdown \/ ListenerStops \/ ServerStops

\* The process has ended.
Ended == ~Running /\ UNCHANGED vars

Next ==
  \/ Signal \/ Handle \/ RelayStop
  \/ \E l \in Listeners: Scrape(l) \/ Answer(l) \/ ServeFails(l) \/ OwnerStep(l)
  \/ Admit \/ Finish \/ ServerPanics \/ ServerStep
  \/ MainStep \/ RunHooks
  \/ Ended

Spec == Init /\ [][Next]_vars

\* Runnable goroutines run, and the timeouts of the three shutdowns pass.
\* Nothing is assumed of clients, handlers, hooks or signals.
FairSpec ==
  /\ Spec
  /\ WF_vars(Handle) /\ WF_vars(RelayStop) /\ WF_vars(MainStep)
  /\ \A l \in Listeners: WF_vars(OwnerStep(l))
  /\ WF_vars(ServerShutdown) /\ WF_vars(ListenerStops) /\ WF_vars(ServerStops)

-----------------------------------------------------------------------------
Configurations == [metrics: BOOLEAN, backend: {"none", "bundled", "reporting"}]
PCs == {"start_metrics", "configure", "start_probe", "run_proxy", "await", "wait_probe", "hooks",
        "stop_metrics", "wait_metrics", "fail", "exited"}
ListenerStates == [phase: {"off", "serving", "draining", "done"},
                   broken: BOOLEAN, busy: BOOLEAN, err: BOOLEAN]
ServerStates == [phase: {"off", "serving", "draining", "stopped"}, serveReturned: BOOLEAN,
                 inFlight: 0..MaxInFlight, overran: BOOLEAN]

\* Type invariant of the process.
TypeOK ==
  /\ config \in Configurations
  /\ pc \in PCs
  /\ pending \in 0..signalBuffer
  /\ taken \in Nat
  /\ stopCh \in BOOLEAN /\ ctxDone \in BOOLEAN /\ metricsDone \in BOOLEAN
  /\ lst \in [Listeners -> ListenerStates]
  /\ srv \in ServerStates
  /\ hook \in {"unregistered", "registered", "completed", "failed"}
  /\ failures \subseteq (Listeners \cup {"start", "hook"})
  /\ exit \in {"none", "ok", "error", "forced", "panic"}

\* The metrics listener serves scrapes until every hook has returned, so that
\* a scrape in the drain window reads what a failed flush recorded: unless it
\* broke or the start failed, it does not drain before that (the order of
\* drain in run.go, and the context of its own the listener runs on).
MetricsOutliveHooks ==
  lst["metrics"].phase \in {"draining", "done"} =>
    \/ lst["metrics"].broken
    \/ hook \in {"completed", "failed"}
    \/ "start" \in failures

\* The audit backend is flushed only when no request can add to the trail
\* unnoticed: readiness has released its port, the secure server accepts
\* nothing, and what is still in flight has overrun the 60 seconds (the waits
\* of RunE ahead of drain, and drain's order).
FlushAfterServing ==
  hook \in {"completed", "failed"} =>
    /\ lst["probe"].phase = "done"
    /\ srv.phase = "stopped" /\ srv.serveReturned
    /\ srv.inFlight > 0 => srv.overran

\* A process that returns reports every failure of its start, its listeners
\* and its hook in the exit status, also one that happened long before the
\* stop or during the drain of another part, and reports no other (drain joins
\* all errors; the owners join the result of Serve).
HonestExit == exit \in {"ok", "error"} => (exit = "error" <=> failures # {})

\* A process that returns has released the metrics port, and one that exits
\* cleanly has also released the readiness port, cut off no scrape and no
\* check, and flushed the audit backend (Wait of both servers in drain, and the
\* deferred wait after a failed start).
ReleasedOnExit ==
  /\ exit \in {"ok", "error"} => lst["metrics"].phase \in {"off", "done"}
  /\ exit = "ok" =>
       /\ lst["probe"].phase = "done"
       /\ \A l \in Listeners: ~lst[l].busy
       /\ hook = "completed"

\* Once the stop channel is closed the process ends if its hook returns,
\* whatever clients, scrapes and checks do, and also if the signal came while
\* it was starting (the timeouts of the three shutdowns).
StopEnds == WF_vars(RunHooks) => (stopCh ~> exit # "none")

\* A process whose hook never returns ends all the same if signals keep
\* coming (handle's loop).
RepeatedSignalsEnd == ([]<>(pending > 0)) => <>(exit # "none")
=============================================================================
