----------------------- MODULE ProcessLifecycleProofs -----------------------
(***************************************************************************)
(* Proofs about ProcessLifecycle, for any number of requests in flight:    *)
(* the order of the drain, the exit status and the release of the ports.   *)
(***************************************************************************)
EXTENDS ProcessLifecycle, TLAPS

\* The steps that act on one listener.
ListenerStep(l) ==
  \/ Scrape(l) \/ Answer(l) \/ ServeFails(l)
  \/ OwnerClose(l) \/ OwnerShutdown(l) \/ Drained(l) \/ DrainOverruns(l)

\* The steps of the secure server.
SecureStep == Admit \/ Finish \/ ServerPanics \/ ServerShutdown \/ ListenerStops \/ ServerStops

\* The type invariant, and that reading the last signal ends the process.
TypeInv ==
  /\ TypeOK
  /\ taken \in 0..(1 + forcedSignalCount)
  /\ taken = 1 + forcedSignalCount => exit # "none"

\* The initial state has its type.
LEMMA TypeInit == Init => TypeInv
<1> SUFFICES ASSUME Init PROVE TypeInv
  OBVIOUS
<1>1. /\ config \in Configurations /\ pc \in PCs
      /\ pending \in 0..signalBuffer /\ taken \in 0..(1 + forcedSignalCount)
      /\ taken # 1 + forcedSignalCount
  BY DEF Init, Configurations, PCs, signalBuffer, forcedSignalCount
<1>2. lst \in [Listeners -> ListenerStates]
  BY DEF Init, ListenerStates
<1>3. srv \in ServerStates
  BY LifecycleAssumption DEF Init, ServerStates
<1> QED BY <1>1, <1>2, <1>3 DEF Init, TypeInv, TypeOK

\* Steps keep the type of the signal handler's state: it has read at most as
\* many signals as make it force the exit.
LEMMA SignalsStep ==
  ASSUME TypeInv, [Next]_vars
  PROVE  /\ pending' \in 0..signalBuffer
         /\ taken' \in 0..(1 + forcedSignalCount)
         /\ taken' = 1 + forcedSignalCount => exit' # "none"
<1> USE DEF TypeInv, TypeOK, signalBuffer, forcedSignalCount
<1>1. CASE Signal BY <1>1 DEF Signal, Running
<1>2. CASE Handle BY <1>2 DEF Handle, Running
<1>3. CASE RelayStop BY <1>3 DEF RelayStop, Running, sigVars
<1>4. ASSUME NEW l \in Listeners, ListenerStep(l)
      PROVE  UNCHANGED <<pending, taken, exit>>
  BY <1>4 DEF ListenerStep, Scrape, Answer, ServeFails, OwnerClose, OwnerShutdown, Drained,
              DrainOverruns, sigVars
<1>5. CASE SecureStep
  BY <1>5 DEF SecureStep, Admit, Finish, ServerPanics, ServerShutdown, ListenerStops, ServerStops,
              sigVars, Running
<1>6. CASE MainStep \/ RunHooks
  BY <1>6 DEF MainStep, StartMetrics, Configure, StartProbe, RunProxy, AuditFails, Await, WaitProbe,
              RunHooks, StopMetrics, Return, ReturnFailed, Fail, Proceed, sigVars, Running
<1>7. CASE UNCHANGED vars BY <1>7 DEF vars
<1> QED
  BY <1>1, <1>2, <1>3, <1>4, <1>5, <1>6, <1>7
  DEF Next, Ended, OwnerStep, ServerStep, ListenerStep, SecureStep

\* Steps keep the type of the listeners.
LEMMA ListenersStep == ASSUME TypeOK, [Next]_vars PROVE lst' \in [Listeners -> ListenerStates]
<1>1. CASE Signal \/ Handle \/ RelayStop \/ SecureStep \/ UNCHANGED vars
  BY <1>1 DEF TypeOK, Signal, Handle, RelayStop, SecureStep, Admit, Finish, ServerPanics,
              ServerShutdown, ListenerStops, ServerStops, vars
<1>2. ASSUME NEW l \in Listeners, ListenerStep(l) PROVE lst' \in [Listeners -> ListenerStates]
  <2>1. lst[l] \in ListenerStates
    BY DEF TypeOK
  <2>2. ASSUME NEW r \in ListenerStates, Set(l, r) PROVE lst' \in [Listeners -> ListenerStates]
    BY <2>2 DEF TypeOK, Set
  <2>3. /\ \A b \in BOOLEAN: /\ [lst[l] EXCEPT !.busy = b] \in ListenerStates
                              /\ [lst[l] EXCEPT !.broken = b] \in ListenerStates
                              /\ [lst[l] EXCEPT !.phase = "done", !.err = b] \in ListenerStates
        /\ [lst[l] EXCEPT !.phase = "draining"] \in ListenerStates
        /\ lst[l].broken \in BOOLEAN
    BY <2>1 DEF ListenerStates
  <2>4. CASE Scrape(l) BY <2>2, <2>3, <2>4 DEF Scrape
  <2>5. CASE Answer(l) BY <2>2, <2>3, <2>5 DEF Answer
  <2>6. CASE ServeFails(l) BY <2>2, <2>3, <2>6 DEF ServeFails
  <2>7. CASE OwnerClose(l) BY <2>2, <2>3, <2>7 DEF OwnerClose
  <2>8. CASE OwnerShutdown(l) BY <2>2, <2>3, <2>8 DEF OwnerShutdown
  <2>9. CASE Drained(l) BY <2>2, <2>3, <2>9 DEF Drained
  <2>10. CASE DrainOverruns(l) BY <2>2, <2>3, <2>10 DEF DrainOverruns
  <2> QED BY <1>2, <2>4, <2>5, <2>6, <2>7, <2>8, <2>9, <2>10 DEF ListenerStep
<1>3. CASE StartMetrics \/ StartProbe
  BY <1>3 DEF TypeOK, Set, ListenerStates, StartMetrics, StartProbe, Bind, Listeners
<1>4. CASE Configure \/ RunProxy \/ Await \/ WaitProbe \/ StopMetrics \/ Return \/ ReturnFailed
           \/ RunHooks
  BY <1>4 DEF TypeOK, Configure, RunProxy, Await, WaitProbe, StopMetrics, Return, ReturnFailed,
              RunHooks
<1> QED
  BY <1>1, <1>2, <1>3, <1>4
  DEF Next, Ended, OwnerStep, ServerStep, ListenerStep, SecureStep, MainStep

\* Steps keep the type of the secure server.
LEMMA ServerTypeStep == ASSUME TypeOK, [Next]_vars PROVE srv' \in ServerStates
<1>1. CASE Admit \/ Finish
  BY <1>1, LifecycleAssumption DEF TypeOK, ServerStates, Admit, Finish
<1>2. CASE ServerPanics \/ ServerShutdown \/ ListenerStops
  BY <1>2 DEF TypeOK, ServerStates, ServerPanics, ServerShutdown, ListenerStops
<1>3. CASE ServerStops
  <2>1. (srv.inFlight > 0) \in BOOLEAN
    OBVIOUS
  <2>2. \A b \in BOOLEAN: [srv EXCEPT !.phase = "stopped", !.overran = b] \in ServerStates
    BY DEF TypeOK, ServerStates
  <2> QED BY <1>3, <2>1, <2>2 DEF ServerStops
<1>4. CASE RunProxy
  BY <1>4 DEF TypeOK, ServerStates, RunProxy, AuditFails
<1>5. CASE Signal \/ Handle \/ RelayStop \/ UNCHANGED vars
  BY <1>5 DEF TypeOK, Signal, Handle, RelayStop, vars
<1>6. ASSUME NEW l \in Listeners, ListenerStep(l) PROVE srv' = srv
  BY <1>6 DEF ListenerStep, Scrape, Answer, ServeFails, OwnerClose, OwnerShutdown, Drained,
              DrainOverruns
<1>7. CASE StartMetrics \/ Configure \/ StartProbe \/ Await \/ WaitProbe \/ StopMetrics \/ Return
           \/ ReturnFailed \/ RunHooks
  BY <1>7 DEF TypeOK, StartMetrics, Configure, StartProbe, Await, WaitProbe, StopMetrics, Return,
              ReturnFailed, RunHooks
<1> QED
  BY <1>1, <1>2, <1>3, <1>4, <1>5, <1>6, <1>7
  DEF TypeOK, Next, Ended, OwnerStep, ServerStep, ListenerStep, MainStep

\* Steps keep the type of the rest.
LEMMA MainTypeStep ==
  ASSUME TypeOK, [Next]_vars
  PROVE  /\ config' \in Configurations /\ pc' \in PCs
         /\ stopCh' \in BOOLEAN /\ ctxDone' \in BOOLEAN /\ metricsDone' \in BOOLEAN
         /\ hook' \in {"unregistered", "registered", "completed", "failed"}
         /\ failures' \subseteq (Listeners \cup {"start", "hook"})
         /\ exit' \in {"none", "ok", "error", "forced", "panic"}
<1> USE DEF TypeOK, PCs
<1>1. CASE Signal \/ Handle \/ RelayStop
  BY <1>1 DEF Signal, Handle, RelayStop, sigVars
<1>2. CASE SecureStep
  BY <1>2 DEF SecureStep, Admit, Finish, ServerPanics, ServerShutdown, ListenerStops, ServerStops,
              sigVars
<1>3. CASE StartMetrics \/ Configure \/ StartProbe \/ RunProxy
  BY <1>3 DEF StartMetrics, Configure, StartProbe, RunProxy, AuditFails, Fail, Proceed, sigVars
<1>4. CASE Await \/ WaitProbe \/ RunHooks \/ StopMetrics \/ Return \/ ReturnFailed
  BY <1>4 DEF Await, WaitProbe, RunHooks, Flush, StopMetrics, Return, ReturnFailed, Proceed, sigVars
<1>5. CASE UNCHANGED vars BY <1>5 DEF vars
<1>6. ASSUME NEW l \in Listeners, ListenerStep(l)
      PROVE  /\ UNCHANGED <<config, pc, stopCh, ctxDone, metricsDone, hook, exit>>
             /\ failures' \subseteq failures \cup {l}
  BY <1>6 DEF ListenerStep, Scrape, Answer, ServeFails, OwnerClose, OwnerShutdown, Drained,
              DrainOverruns, sigVars
<1>7. CASE \E l \in Listeners: ListenerStep(l)
  BY <1>6, <1>7
<1> QED
  BY <1>1, <1>2, <1>3, <1>4, <1>5, <1>7
  DEF Next, Ended, OwnerStep, ServerStep, ListenerStep, SecureStep, MainStep

\* Steps keep the type invariant.
LEMMA TypeStep == ASSUME TypeInv, [Next]_vars PROVE TypeInv'
<1>1. TypeOK
  BY DEF TypeInv
<1> QED
  BY <1>1, SignalsStep, ListenersStep, ServerTypeStep, MainTypeStep DEF TypeInv, TypeOK

\* The type invariant of the process holds always (TypeOK).
THEOREM TypeCorrect == Spec => []TypeOK
<1>1. TypeInv /\ [Next]_vars => TypeInv'
  BY TypeStep
<1>2. TypeInv => TypeOK
  BY DEF TypeInv
<1> QED BY TypeInit, <1>1, <1>2, PTL DEF Spec

-----------------------------------------------------------------------------
(* The inductive invariant behind the safety properties.                   *)

\* The hook has run.
HookDone == hook \in {"completed", "failed"}

\* The positions of the main goroutine before the secure server serves, and
\* once it has stopped.
Starting == {"start_metrics", "configure", "start_probe", "run_proxy"}
Draining == {"wait_probe", "hooks", "stop_metrics", "wait_metrics"}

\* What has happened by the time the main goroutine is where it is.
Progress ==
  /\ pc = "start_metrics" => lst["metrics"].phase = "off"
  /\ pc \in {"start_metrics", "configure", "start_probe"} => lst["probe"].phase = "off"
  /\ pc \in Starting => srv.phase = "off"
  /\ pc \in {"stop_metrics", "wait_metrics"} => HookDone
  /\ HookDone => pc \in {"stop_metrics", "wait_metrics", "exited"}
  /\ metricsDone => HookDone \/ "start" \in failures
  /\ pc \in Draining \/ HookDone => srv.phase = "stopped" /\ srv.serveReturned
  /\ pc \in {"hooks", "stop_metrics", "wait_metrics"} \/ HookDone => lst["probe"].phase = "done"

\* A request in flight when the server has stopped has overrun its deadline.
OverrunSeen == srv.phase = "stopped" /\ srv.inFlight > 0 => srv.overran

\* The errors of a listener are its failures, and it drains for a reason.
ListenerSound(l) ==
  /\ lst[l].phase = "off" => ~lst[l].busy /\ ~lst[l].broken
  /\ lst[l].phase # "done" => ~lst[l].err /\ (l \in failures <=> lst[l].broken)
  /\ lst[l].phase = "done" => (lst[l].err <=> l \in failures)
  /\ lst[l].phase = "done" /\ ~lst[l].err => ~lst[l].busy
  /\ l = "metrics" /\ lst[l].phase \in {"draining", "done"} => metricsDone \/ lst[l].broken

ListenersSound == \A l \in Listeners: ListenerSound(l)

\* The failures of the start and of the hook are those the main goroutine
\* knows of, and it returns with the status it owes.
StatusOwed ==
  /\ "hook" \in failures <=> hook = "failed"
  /\ "start" \in failures => pc \in {"fail", "exited"}
  /\ pc = "fail" => "start" \in failures
  /\ pc = "exited" => exit # "none"
  /\ HonestExit /\ ReleasedOnExit

IInv == TypeInv /\ Progress /\ OverrunSeen /\ ListenersSound /\ StatusOwed

\* The initial state satisfies the invariant.
LEMMA InvInit == Init => IInv
<1> SUFFICES ASSUME Init PROVE IInv
  OBVIOUS
<1>1. TypeInv
  BY TypeInit
<1>2. Progress /\ OverrunSeen
  BY DEF Init, Progress, HookDone, Starting, Draining, OverrunSeen, Listeners
<1>3. ListenersSound
  BY DEF Init, ListenersSound, ListenerSound
<1>4. StatusOwed
  BY DEF Init, StatusOwed, HonestExit, ReleasedOnExit
<1> QED BY <1>1, <1>2, <1>3, <1>4 DEF IInv

\* A step of a listener changes that listener and the failures only; one that
\* has not started does not start, and one that is done stays done.
LEMMA ListenerFrame ==
  ASSUME TypeOK, NEW l \in Listeners, ListenerStep(l)
  PROVE  /\ UNCHANGED <<config, pc, ctxDone, metricsDone, srv, hook, exit>> /\ exit = "none"
         /\ \A k \in Listeners: k # l => lst'[k] = lst[k]
         /\ lst[l].phase \in {"off", "done"} => lst'[l].phase = lst[l].phase
         /\ failures' = failures \/ failures' = failures \cup {l}
<1>1. /\ UNCHANGED <<config, pc, ctxDone, metricsDone, srv, hook, exit>> /\ exit = "none"
      /\ failures' = failures \/ failures' = failures \cup {l}
  BY DEF ListenerStep, Scrape, Answer, ServeFails, OwnerClose, OwnerShutdown, Drained,
         DrainOverruns, Running
<1>2. /\ lst[l] \in ListenerStates
      /\ \A r: Set(l, r) => lst'[l] = r /\ \A k \in Listeners: k # l => lst'[k] = lst[k]
  BY DEF TypeOK, Set
<1>3. \E r: Set(l, r)
  BY DEF ListenerStep, Scrape, Answer, ServeFails, OwnerClose, OwnerShutdown, Drained, DrainOverruns
<1>4. lst[l].phase \in {"off", "done"} => lst'[l].phase = lst[l].phase
  <2>1. CASE Scrape(l) BY <2>1 DEF Scrape
  <2>2. CASE Answer(l) BY <1>2, <2>2 DEF Answer, ListenerStates
  <2>3. CASE ServeFails(l) BY <2>3 DEF ServeFails
  <2>4. CASE OwnerClose(l) BY <2>4 DEF OwnerClose
  <2>5. CASE OwnerShutdown(l) BY <2>5 DEF OwnerShutdown
  <2>6. CASE Drained(l) BY <2>6 DEF Drained
  <2>7. CASE DrainOverruns(l) BY <2>7 DEF DrainOverruns
  <2> QED BY <2>1, <2>2, <2>3, <2>4, <2>5, <2>6, <2>7 DEF ListenerStep
<1> QED BY <1>1, <1>2, <1>3, <1>4

\* The main goroutine passes its stations in order, and what it has waited for
\* stays as it was.
LEMMA ProgressStep == ASSUME IInv, [Next]_vars PROVE Progress'
<1> USE DEF IInv, TypeInv, Progress, HookDone, Starting, Draining
<1>1. CASE Signal BY <1>1 DEF Signal
<1>2. CASE Handle BY <1>2 DEF Handle
<1>3. CASE RelayStop BY <1>3 DEF RelayStop
<1>4. ASSUME NEW l \in Listeners, ListenerStep(l) PROVE Progress'
  BY <1>4, ListenerFrame DEF Listeners
<1>5. CASE Admit \/ Finish \/ ServerPanics \/ ServerShutdown \/ ListenerStops \/ ServerStops
  BY <1>5 DEF TypeOK, ServerStates, Admit, Finish, ServerPanics, ServerShutdown, ListenerStops,
              ServerStops
<1>6. CASE StartMetrics
  BY <1>6 DEF TypeOK, StatusOwed, StartMetrics, Bind, Set, Fail, Proceed, Listeners
<1>7. CASE Configure
  BY <1>7 DEF StatusOwed, Configure, Fail, Proceed
<1>8. CASE StartProbe
  BY <1>8 DEF TypeOK, StatusOwed, StartProbe, Bind, Set, Fail, Proceed, Listeners
<1>9. CASE RunProxy
  BY <1>9 DEF StatusOwed, RunProxy, AuditFails, Fail, Proceed
<1>10. CASE Await BY <1>10 DEF Await
<1>11. CASE WaitProbe BY <1>11 DEF WaitProbe, Proceed
<1>12. CASE RunHooks BY <1>12 DEF StatusOwed, RunHooks, Flush
<1>13. CASE StopMetrics BY <1>13 DEF StopMetrics
<1>14. CASE Return \/ ReturnFailed BY <1>14 DEF Return, ReturnFailed
<1>15. CASE UNCHANGED vars BY <1>15 DEF vars
<1> QED
  BY <1>1, <1>2, <1>3, <1>4, <1>5, <1>6, <1>7, <1>8, <1>9, <1>10, <1>11, <1>12, <1>13, <1>14, <1>15
  DEF Next, Ended, OwnerStep, ServerStep, ListenerStep, MainStep

\* The secure server admits nothing once it has stopped.
LEMMA OverrunStep == ASSUME IInv, [Next]_vars PROVE OverrunSeen'
<1> USE DEF IInv, TypeInv, OverrunSeen
<1>1. CASE Finish \/ Admit \/ ServerShutdown \/ ListenerStops
  BY <1>1 DEF TypeOK, ServerStates, Admit, Finish, ServerShutdown, ListenerStops
<1>2. CASE ServerStops
  BY <1>2 DEF TypeOK, ServerStates, ServerStops
<1>3. CASE RunProxy
  BY <1>3 DEF TypeOK, ServerStates, RunProxy, AuditFails
<1>4. ASSUME NEW l \in Listeners, ListenerStep(l) PROVE srv' = srv
  BY <1>4, ListenerFrame
<1>5. CASE Signal \/ Handle \/ RelayStop \/ ServerPanics \/ UNCHANGED vars
  BY <1>5 DEF Signal, Handle, RelayStop, ServerPanics, vars
<1>6. CASE StartMetrics \/ Configure \/ StartProbe \/ Await \/ WaitProbe \/ StopMetrics \/ Return
           \/ ReturnFailed \/ RunHooks
  BY <1>6 DEF StartMetrics, Configure, StartProbe, Await, WaitProbe, StopMetrics, Return,
              ReturnFailed, RunHooks
<1> QED
  BY <1>1, <1>2, <1>3, <1>4, <1>5, <1>6
  DEF Next, Ended, OwnerStep, ServerStep, ListenerStep, MainStep

\* A listener of which neither the state nor the failure changes stays sound.
LEMMA ListenerKept ==
  ASSUME NEW l \in Listeners, ListenerSound(l), lst'[l] = lst[l],
         l \in failures' <=> l \in failures, metricsDone => metricsDone'
  PROVE  ListenerSound(l)'
BY DEF ListenerSound

\* Each step of a listener keeps its errors and its failures in agreement.
LEMMA OwnListenerStep ==
  ASSUME TypeOK, NEW l \in Listeners, ListenerSound(l), ListenerStep(l)
  PROVE  ListenerSound(l)'
<1>1. /\ lst[l] \in ListenerStates
      /\ \A r: Set(l, r) => lst'[l] = r
  BY DEF TypeOK, Set
<1>2. metricsDone' = metricsDone
  BY ListenerFrame
<1> USE DEF ListenerStates, ListenerSound
<1>3. CASE Scrape(l) BY <1>1, <1>2, <1>3 DEF Scrape
<1>4. CASE Answer(l) BY <1>1, <1>2, <1>4 DEF Answer
<1>5. CASE ServeFails(l) BY <1>1, <1>2, <1>5 DEF ServeFails
<1>6. CASE OwnerClose(l) BY <1>1, <1>2, <1>6 DEF OwnerClose
<1>7. CASE OwnerShutdown(l) BY <1>1, <1>2, <1>7 DEF OwnerShutdown, ContextDone
<1>8. CASE Drained(l)
  <2>1. /\ lst'[l] = [lst[l] EXCEPT !.phase = "done", !.err = lst[l].broken]
        /\ lst[l].phase = "draining" /\ ~lst[l].busy /\ failures' = failures
    BY <1>1, <1>8 DEF Drained
  <2>2. /\ lst'[l].phase = "done" /\ lst'[l].err = lst[l].broken
        /\ lst'[l].broken = lst[l].broken /\ lst'[l].busy = lst[l].busy
    BY <1>1, <2>1
  <2> QED BY <1>2, <2>1, <2>2
<1>9. CASE DrainOverruns(l)
  <2>1. /\ lst'[l] = [lst[l] EXCEPT !.phase = "done", !.err = TRUE]
        /\ lst[l].phase = "draining" /\ failures' = failures \cup {l}
    BY <1>1, <1>9 DEF DrainOverruns
  <2>2. lst'[l].phase = "done" /\ lst'[l].err /\ lst'[l].broken = lst[l].broken
    BY <1>1, <2>1
  <2> QED BY <1>2, <2>1, <2>2
<1> QED BY <1>3, <1>4, <1>5, <1>6, <1>7, <1>8, <1>9 DEF ListenerStep

\* Steps keep every listener sound.
LEMMA ListenersSoundStep == ASSUME IInv, [Next]_vars PROVE ListenersSound'
<1> SUFFICES ASSUME NEW k \in Listeners PROVE ListenerSound(k)'
  BY DEF ListenersSound
<1>0. ListenerSound(k) /\ TypeOK /\ Progress
  BY DEF IInv, TypeInv, ListenersSound
<1>1. CASE Signal \/ Handle \/ RelayStop \/ UNCHANGED vars
  BY <1>0, <1>1, ListenerKept DEF Signal, Handle, RelayStop, vars
<1>2. ASSUME NEW l \in Listeners, ListenerStep(l) PROVE ListenerSound(k)'
  <2>1. CASE k = l
    BY <1>0, <1>2, <2>1, OwnListenerStep
  <2>2. CASE k # l
    <3>1. lst'[k] = lst[k] /\ (k \in failures' <=> k \in failures) /\ metricsDone' = metricsDone
      BY <1>0, <1>2, <2>2, ListenerFrame
    <3> QED BY <1>0, <3>1, ListenerKept
  <2> QED BY <2>1, <2>2
<1>3. CASE SecureStep
  BY <1>0, <1>3, ListenerKept
  DEF SecureStep, Admit, Finish, ServerPanics, ServerShutdown, ListenerStops, ServerStops
<1>4. ASSUME NEW l \in Listeners, Bind(l), lst[l].phase = "off",
             UNCHANGED <<failures, metricsDone>>
      PROVE  ListenerSound(k)'
  <2>1. lst[l] \in ListenerStates
    BY <1>0 DEF TypeOK
  <2>2. CASE k = l
    <3>1. lst'[k] = [lst[k] EXCEPT !.phase = "serving"]
      BY <1>0, <1>4, <2>2 DEF Bind, Set, TypeOK
    <3> QED BY <1>0, <1>4, <2>1, <2>2, <3>1 DEF ListenerSound, ListenerStates
  <2>3. CASE k # l
    <3>1. lst'[k] = lst[k]
      BY <1>0, <1>4, <2>3 DEF Bind, Set, TypeOK
    <3> QED BY <1>0, <1>4, <3>1, ListenerKept
  <2> QED BY <2>2, <2>3
<1>5. CASE StartMetrics
  <2>1. lst["metrics"].phase = "off" /\ "metrics" \in Listeners
    BY <1>0, <1>5 DEF StartMetrics, Progress, Listeners
  <2>2. CASE Bind("metrics") /\ Proceed("configure")
    BY <1>4, <2>1, <2>2 DEF Proceed
  <2>3. CASE lst' = lst /\ (Fail \/ Proceed("configure"))
    BY <1>0, <2>3, ListenerKept DEF Fail, Proceed, Listeners
  <2> QED BY <1>5, <2>2, <2>3 DEF StartMetrics
<1>6. CASE StartProbe
  <2>1. lst["probe"].phase = "off" /\ "probe" \in Listeners
    BY <1>0, <1>6 DEF StartProbe, Progress, Listeners
  <2>2. CASE Bind("probe") /\ Proceed("run_proxy")
    BY <1>4, <2>1, <2>2 DEF Proceed
  <2>3. CASE lst' = lst /\ Fail
    BY <1>0, <2>3, ListenerKept DEF Fail, Listeners
  <2> QED BY <1>6, <2>2, <2>3 DEF StartProbe
<1>7. CASE Configure \/ RunProxy
  BY <1>0, <1>7, ListenerKept DEF Configure, RunProxy, AuditFails, Fail, Proceed, Listeners
<1>8. CASE Await \/ WaitProbe \/ StopMetrics \/ Return \/ ReturnFailed
  BY <1>0, <1>8, ListenerKept DEF Await, WaitProbe, Proceed, StopMetrics, Return, ReturnFailed
<1>9. CASE RunHooks
  BY <1>0, <1>9, ListenerKept DEF RunHooks, Flush, Listeners
<1> QED
  BY <1>1, <1>2, <1>3, <1>5, <1>6, <1>7, <1>8, <1>9
  DEF Next, Ended, OwnerStep, ServerStep, ListenerStep, SecureStep, MainStep

\* The main goroutine learns of every failure before it returns.
LEMMA StatusStep == ASSUME IInv, [Next]_vars PROVE StatusOwed'
<1> USE DEF IInv, TypeInv, StatusOwed
<1>1. CASE Signal \/ Handle \/ RelayStop \/ SecureStep
  BY <1>1 DEF Signal, Handle, RelayStop, SecureStep, Admit, Finish, ServerPanics, ServerShutdown,
              ListenerStops, ServerStops, Running, HonestExit, ReleasedOnExit
<1>2. ASSUME NEW l \in Listeners, ListenerStep(l) PROVE StatusOwed'
  BY <1>2, ListenerFrame DEF HonestExit, ReleasedOnExit, Listeners
<1>3. CASE StartMetrics \/ Configure \/ StartProbe \/ RunProxy
  BY <1>3 DEF StartMetrics, Configure, StartProbe, RunProxy, AuditFails, Fail, Proceed, Running,
              Progress, HookDone, HonestExit, ReleasedOnExit
<1>4. CASE Await \/ WaitProbe \/ StopMetrics
  BY <1>4 DEF Await, WaitProbe, StopMetrics, Proceed, Running, HonestExit, ReleasedOnExit
<1>5. CASE RunHooks
  BY <1>5 DEF RunHooks, Flush, Running, Progress, HookDone, HonestExit, ReleasedOnExit
<1>6. CASE Return
  <2>1. /\ "metrics" \in Listeners /\ "probe" \in Listeners
        /\ ListenerSound("metrics") /\ ListenerSound("probe")
    BY DEF Listeners, ListenersSound
  <2>2. HookDone /\ lst["probe"].phase = "done" /\ lst["metrics"].phase \in {"off", "done"}
    BY <1>6 DEF Return, MetricsReleased, Progress
  <2>3. \A l \in Listeners: lst[l].err <=> l \in failures
    BY <2>1, <2>2 DEF ListenerSound, Listeners
  <2>4. "start" \notin failures
    BY <1>6 DEF Return
  <2>5. failures # {} <=> lst["probe"].err \/ lst["metrics"].err \/ hook = "failed"
    BY <2>1, <2>3, <2>4 DEF TypeOK, Listeners
  <2>6. HonestExit'
    BY <1>6, <2>5 DEF Return, HonestExit
  <2>7. ReleasedOnExit'
    BY <1>6, <2>1, <2>2 DEF Return, ReleasedOnExit, ListenerSound, HookDone, Listeners
  <2> QED BY <1>6, <2>4, <2>6, <2>7 DEF Return
<1>7. CASE ReturnFailed
  BY <1>7 DEF ReturnFailed, MetricsReleased, HonestExit, ReleasedOnExit
<1>8. CASE UNCHANGED vars
  BY <1>8 DEF vars, HonestExit, ReleasedOnExit
<1> QED
  BY <1>1, <1>2, <1>3, <1>4, <1>5, <1>6, <1>7, <1>8
  DEF Next, Ended, OwnerStep, ServerStep, ListenerStep, SecureStep, MainStep

\* The order of the start and of the drain, the agreement of errors and
\* failures, and the status owed hold together in every state (RunE and drain
\* of run.go, the owners of both listeners).
THEOREM Invariance == Spec => []IInv
<1>1. IInv /\ [Next]_vars => IInv'
  BY ProgressStep, OverrunStep, ListenersSoundStep, StatusStep, TypeStep DEF IInv
<1> QED BY InvInit, <1>1, PTL DEF Spec

\* The metrics listener serves until the hooks have returned (drain's order).
THEOREM MetricsOutliveHooksHolds == Spec => []MetricsOutliveHooks
<1>1. IInv => MetricsOutliveHooks
  BY DEF IInv, Progress, HookDone, ListenersSound, ListenerSound, Listeners, MetricsOutliveHooks
<1> QED BY Invariance, <1>1, PTL

\* The audit backend is flushed after the last request that was not cut off
\* (RunE's waits ahead of drain).
THEOREM FlushAfterServingHolds == Spec => []FlushAfterServing
<1>1. IInv => FlushAfterServing
  BY DEF IInv, Progress, HookDone, OverrunSeen, FlushAfterServing
<1> QED BY Invariance, <1>1, PTL

\* The exit status reports every failure and no other (drain's joined errors).
THEOREM HonestExitHolds == Spec => []HonestExit
<1>1. IInv => HonestExit
  BY DEF IInv, StatusOwed
<1> QED BY Invariance, <1>1, PTL

\* A process that returns has released its ports (the waits of drain and the
\* deferred wait of RunE).
THEOREM ReleasedOnExitHolds == Spec => []ReleasedOnExit
<1>1. IInv => ReleasedOnExit
  BY DEF IInv, StatusOwed
<1> QED BY Invariance, <1>1, PTL
=============================================================================
