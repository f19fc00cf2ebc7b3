----------------------------- MODULE TunnelProofs -----------------------------
(***************************************************************************)
(* Proofs about Tunnel, for any number of kubectl processes, of attempts   *)
(* and of deaths.                                                          *)
(***************************************************************************)
EXTENDS Tunnel, TLAPS

-----------------------------------------------------------------------------
(* The invariants.                                                         *)

\* A goroutine that holds a forward, or may still open one.
Holding == {"await", "publish", "discard", "discarding"}
Working == {"check", "delay", "start", "await", "publish"}

\* A loop that goes on has attempts left.
AttemptsLeft ==
  \A o \in Openers: opener[o] \in Working \cup {"none"} => attempt[o] < Attempts

\* Who holds a forward, and since when: a goroutine that opens one holds it
\* until it is published or stopped; tunnel.stop is empty once the tunnel is
\* closed, and only then has a Close taken something.
Stages ==
  /\ \A o \in Openers:
       /\ opener[o] \in Holding <=> opening[o] # NoForward
       /\ opener[o] \in {"discard", "discarding"} => closed
  /\ \A f \in Forwards: opener[f] # "none" => waiter[f] = "ended"
  /\ stop # NoForward => ~closed
  /\ \A c \in Closers:
       /\ closer[c] \in {"cancel", "stop", "stopping"} \/ taken[c] # NoForward => closed
       /\ closer[c] \in {"stop", "stopping"} => taken[c] # NoForward

\* A forward runs until its waiter has reaped it.
Reaped ==
  \A f \in Forwards:
    /\ waiter[f] = "none" => process[f] \in {"unused", "starting", "serving"}
    /\ waiter[f] = "wait" => process[f] \in {"serving", "exited"}
    /\ waiter[f] \in {"report", "ended"} => process[f] = "reaped"
    /\ process[f] \in {"starting", "serving"} /\ waiter[f] = "none" =>
         \E o \in Openers: opener[o] = "await" /\ opening[o] = f
    /\ process[f] = "unused" => stopping[f] = 0

\* A forward is held by one goroutine at most.
HeldOnce ==
  /\ \A o \in Openers: opening[o] # NoForward =>
       /\ opening[o] # o /\ opening[o] # stop
       /\ \A p \in Openers: p # o => opening[p] # opening[o]
       /\ \A c \in Closers: taken[c] # opening[o]
       /\ process[opening[o]] # "unused"
       /\ opener[o] = "await" <=> waiter[opening[o]] = "none"
  /\ stop # NoForward => waiter[stop] # "none"
  /\ \A c \in Closers: taken[c] # NoForward =>
       /\ waiter[taken[c]] # "none"
       /\ \A d \in Closers: d # c => taken[d] = NoForward

\* Whoever is about to stop a forward is the first to do so.
Unstopped ==
  /\ \A o \in Openers:
       /\ opener[o] \in {"await", "publish", "discard"} => stopping[opening[o]] = 0
       /\ opener[o] = "discarding" => stopping[opening[o]] = 1
  /\ stop # NoForward => stopping[stop] = 0
  /\ \A c \in Closers: taken[c] # NoForward =>
       stopping[taken[c]] = (IF closer[c] \in {"cancel", "stop"} THEN 0 ELSE 1)

\* The tunnel has one goroutine in charge of it: a forward's waiter, or the one
\* that opens the next forward ...
InCharge(x) == opener[x] \in Working \/ (x \in Forwards /\ waiter[x] \in {"wait", "report"})

\* ... who is joined only by the forward it has just opened and not published.
Succeeds(y, x) ==
  opener[x] = "publish" /\ opening[x] = y /\ opener[y] \in {"none", "check", "delay"}

Chain ==
  ~closed => \A x, y \in Openers:
    x # y /\ InCharge(x) /\ InCharge(y) => Succeeds(y, x) \/ Succeeds(x, y)

\* A forward whose waiter has not reported is published, or about to be.
WaitedFor ==
  ~closed => \A f \in Forwards: waiter[f] \in {"wait", "report"} =>
    stop = f \/ \E o \in Openers: opener[o] = "publish" /\ opening[o] = f

\* While the tunnel is open, somebody is in charge of the forward that is, or
\* will be, published, or all attempts to replace it have failed.
Repaired ==
  \A f \in Forwards:
    (stop = f \/ \E o \in Openers: opener[o] = "publish" /\ opening[o] = f) =>
      InCharge(f) \/ opener[f] = "gaveUp"
Repair ==
  ~done /\ ~closed => Repaired

IInv == TypeOK /\ AttemptsLeft /\ Stages /\ Reaped /\ HeldOnce /\ Unstopped /\ StoppedOnce
        /\ Chain /\ WaitedFor /\ NobodysKubectl /\ Repair

-----------------------------------------------------------------------------
(* Type correctness.                                                       *)

\* The names of goroutines and forwards are told apart.
LEMMA Names ==
  /\ Openers = {Main} \cup Forwards /\ Closers = {Main, Watchdog}
  /\ Main \notin Forwards /\ NoForward \notin Forwards
  /\ Main # Watchdog /\ Main # NoForward
  /\ Attempts \in Nat /\ Attempts > 0
BY TunnelAssumption DEF Openers, Closers, Main, Watchdog, NoForward

\* What the variables of one goroutine of each kind can be.
OpenerStages == {"none", "check", "delay", "start", "await", "publish", "discard",
                 "discarding", "opened", "failed", "gaveUp", "ended"}

\* The holder of a forward holds one that exists.
LEMMA HeldIsForward ==
  ASSUME TypeOK, Stages
  PROVE  /\ \A o \in Openers: opener[o] \in Holding => opening[o] \in Forwards
         /\ \A c \in Closers: closer[c] \in {"stop", "stopping"} => taken[c] \in Forwards
BY DEF TypeOK, Stages

\* TypeOK and AttemptsLeft hold initially.
LEMMA TypeInit == Init => TypeOK /\ AttemptsLeft
<1> SUFFICES ASSUME Init PROVE TypeOK /\ AttemptsLeft
  OBVIOUS
<1>1. 0 \in 0..Attempts /\ 0 \in 0..MaxDeaths /\ 0 < Attempts
  BY TunnelAssumption
<1>2. TypeOK
  BY <1>1 DEF Init, TypeOK
<1>3. AttemptsLeft
  BY <1>1 DEF Init, AttemptsLeft
<1> QED BY <1>2, <1>3

\* A failed attempt is one of Attempts.
LEMMA OpenFailsType ==
  ASSUME TypeOK, AttemptsLeft, NEW o \in Openers, opener[o] \in Working, OpenFails(o)
  PROVE  /\ opener' \in [Openers -> OpenerStages]
         /\ opening' \in [Openers -> Forwards \cup {NoForward}]
         /\ attempt' \in [Openers -> 0..Attempts]
         /\ done' \in BOOLEAN
         /\ AttemptsLeft'
<1>1. attempt[o] \in 0..Attempts /\ attempt[o] < Attempts
  BY DEF TypeOK, AttemptsLeft
<1>2. attempt[o] + 1 \in 0..Attempts
  BY <1>1, Names
<1>3. opener' \in [Openers -> OpenerStages] /\ opening' \in [Openers -> Forwards \cup {NoForward}]
  BY DEF OpenFails, TypeOK, OpenerStages
<1>4. attempt' \in [Openers -> 0..Attempts]
  BY <1>2 DEF OpenFails, TypeOK
<1>5. done' \in BOOLEAN
  BY DEF OpenFails, TypeOK
<1>6. AttemptsLeft'
  <2> SUFFICES ASSUME NEW p \in Openers, opener'[p] \in Working \cup {"none"}
               PROVE  attempt'[p] < Attempts
    BY DEF AttemptsLeft
  <2>1. CASE p = o
    BY <2>1 DEF OpenFails, TypeOK, Working
  <2>2. CASE p # o
    <3>1. opener'[p] = opener[p] /\ attempt'[p] = attempt[p]
      BY <2>2 DEF OpenFails, TypeOK
    <3> QED BY <3>1 DEF AttemptsLeft
  <2> QED BY <2>1, <2>2
<1> QED BY <1>3, <1>4, <1>5, <1>6

\* Every step keeps TypeOK and AttemptsLeft.
LEMMA TypeStep == TypeOK /\ AttemptsLeft /\ Stages /\ [Next]_vars => TypeOK' /\ AttemptsLeft'
<1> SUFFICES ASSUME TypeOK, AttemptsLeft, Stages, [Next]_vars PROVE TypeOK' /\ AttemptsLeft'
  OBVIOUS
<1> USE DEF procVars, openVars, closeVars
<1>1. ASSUME NEW o \in Openers, StartFails(o) PROVE TypeOK' /\ AttemptsLeft'
  BY <1>1, OpenFailsType DEF StartFails, TypeOK, Working, OpenerStages
<1>2. ASSUME NEW o \in Openers, NotAnnounced(o) PROVE TypeOK' /\ AttemptsLeft'
  <2>1. process' \in [Forwards -> {"unused", "starting", "serving", "exited", "reaped"}]
    BY <1>2 DEF NotAnnounced, TypeOK
  <2> QED BY <1>2, <2>1, OpenFailsType DEF NotAnnounced, TypeOK, Working, OpenerStages
<1>3. ASSUME NEW o \in Openers, Start(o) \/ Announced(o) PROVE TypeOK' /\ AttemptsLeft'
  <2>1. CASE Start(o)
    <3>1. PICK f \in Forwards: /\ process' = [process EXCEPT ![f] = "starting"]
                               /\ opening' = [opening EXCEPT ![o] = f]
      BY <2>1 DEF Start
    <3> QED BY <2>1, <3>1 DEF Start, TypeOK, AttemptsLeft, Working
  <2>2. CASE Announced(o)
    BY <2>2 DEF Announced, TypeOK, AttemptsLeft, Working
  <2> QED BY <1>3, <2>1, <2>2
<1>4. ASSUME NEW o \in Openers, Publish(o) PROVE TypeOK' /\ AttemptsLeft'
  <2>1. CASE closed
    BY <1>4, <2>1 DEF Publish, TypeOK, AttemptsLeft, Working
  <2>2. CASE ~closed
    <3>1. PICK s \in {closer[Watchdog], "watch"}: closer' = [closer EXCEPT ![Watchdog] = s]
      BY <1>4, <2>2 DEF Publish
    <3>2. closer' \in [Closers -> {"none", "watch", "close", "cancel", "stop", "stopping", "returned"}]
      BY <3>1, Names DEF TypeOK
    <3> QED BY <1>4, <2>2, <3>2 DEF Publish, TypeOK, AttemptsLeft, Working
  <2> QED BY <2>1, <2>2
<1>5. ASSUME NEW f \in Forwards, StopForward(f)
      PROVE  /\ stopping' \in [Forwards -> Nat] /\ UNCHANGED <<waiter, waited, deaths>>
             /\ process' \in [Forwards -> {"unused", "starting", "serving", "exited", "reaped"}]
  <2>0. stopping \in [Forwards -> Nat]
    BY DEF TypeOK
  <2>1. stopping' \in [Forwards -> Nat] /\ UNCHANGED <<waiter, waited, deaths>>
    BY <1>5, <2>0 DEF StopForward
  <2>2. process' \in [Forwards -> {"unused", "starting", "serving", "exited", "reaped"}]
    BY <1>5 DEF StopForward, TypeOK
  <2> QED BY <2>1, <2>2
<1>6. ASSUME NEW o \in Openers, Discard(o) PROVE TypeOK' /\ AttemptsLeft'
  <2>1. opening[o] \in Forwards
    BY <1>6, HeldIsForward DEF Discard, Holding
  <2> QED BY <1>5, <1>6, <2>1 DEF Discard, TypeOK, AttemptsLeft, Working
<1>7. ASSUME NEW o \in Openers, Discarded(o) PROVE TypeOK' /\ AttemptsLeft'
  BY <1>7 DEF Discarded, TypeOK, AttemptsLeft, Working
<1>8. ASSUME NEW o \in Openers, Reopen(o) \/ Delayed(o) \/ DelayCanceled(o)
      PROVE  TypeOK' /\ AttemptsLeft'
  BY <1>8 DEF Reopen, Delayed, DelayCanceled, TypeOK, AttemptsLeft, Working
<1>9. ASSUME NEW c \in Closers, CallClose(c) \/ TakeStop(c) \/ Cancel(c) \/ Stopped(c)
      PROVE  TypeOK' /\ AttemptsLeft'
  <2>1. CASE CallClose(c) \/ Stopped(c)
    <3>1. /\ \E s \in {"close", "returned"}: closer' = [closer EXCEPT ![c] = s]
          /\ UNCHANGED <<done, closed, stop, procVars, openVars, taken>>
      BY <2>1 DEF CallClose, Stopped
    <3>2. closer' \in [Closers -> {"none", "watch", "close", "cancel", "stop", "stopping", "returned"}]
      BY <3>1 DEF TypeOK
    <3> QED BY <3>1, <3>2 DEF TypeOK, AttemptsLeft
  <2>2. CASE TakeStop(c)
    BY <2>2 DEF TakeStop, TypeOK, AttemptsLeft
  <2>3. CASE Cancel(c)
    BY <2>3 DEF Cancel, TypeOK, AttemptsLeft
  <2> QED BY <1>9, <2>1, <2>2, <2>3
<1>10. ASSUME NEW c \in Closers, StopTaken(c) PROVE TypeOK' /\ AttemptsLeft'
  <2>1. taken[c] \in Forwards
    BY <1>10, HeldIsForward DEF StopTaken
  <2> QED BY <1>5, <1>10, <2>1 DEF StopTaken, TypeOK, AttemptsLeft
<1>11. ASSUME NEW f \in Forwards, Reap(f) PROVE TypeOK' /\ AttemptsLeft'
  BY <1>11 DEF Reap, TypeOK, AttemptsLeft
<1>12. ASSUME NEW f \in Forwards, ReportDeath(f) PROVE TypeOK' /\ AttemptsLeft'
  <2>1. opener[f] = "none"
    BY <1>12 DEF ReportDeath, Stages
  <2> QED BY <1>12, <2>1 DEF ReportDeath, TypeOK, AttemptsLeft, Working
<1>13. ASSUME NEW f \in Forwards, KubectlServes(f) \/ ContextKills(f) PROVE TypeOK' /\ AttemptsLeft'
  BY <1>13 DEF KubectlServes, ContextKills, TypeOK, AttemptsLeft
<1>14. ASSUME NEW f \in Forwards, KubectlDies(f) PROVE TypeOK' /\ AttemptsLeft'
  <2>1. deaths' \in 0..MaxDeaths
    <3>1. deaths \in 0..MaxDeaths /\ deaths < MaxDeaths /\ deaths' = deaths + 1 /\ MaxDeaths \in Nat
      BY <1>14, TunnelAssumption DEF KubectlDies, TypeOK
    <3> QED BY <3>1
  <2> QED BY <1>14, <2>1 DEF KubectlDies, TypeOK, AttemptsLeft
<1>15. ASSUME Signal \/ UNCHANGED vars PROVE TypeOK' /\ AttemptsLeft'
  BY <1>15 DEF Signal, vars, TypeOK, AttemptsLeft
<1> QED
  BY <1>1, <1>2, <1>3, <1>4, <1>6, <1>7, <1>8, <1>9, <1>10, <1>11, <1>12, <1>13, <1>14, <1>15
     DEF Next, OpenerStep, CloserStep, WaiterStep, AtRest

-----------------------------------------------------------------------------
(* What each step does, goroutine by goroutine and forward by forward.     *)

OpenerTo(o, s, f) ==
  /\ opener'[o] = s /\ opening'[o] = f
  /\ \A p \in Openers: p # o => opener'[p] = opener[p] /\ opening'[p] = opening[p]
CloserTo(c, s, f) ==
  /\ closer'[c] = s /\ taken'[c] = f
  /\ \A d \in Closers: d # c => closer'[d] = closer[d] /\ taken'[d] = taken[d]
ProcessTo(f, s) == process'[f] = s /\ \A g \in Forwards: g # f => process'[g] = process[g]
WaiterTo(f, s) == waiter'[f] = s /\ \A g \in Forwards: g # f => waiter'[g] = waiter[g]
StoppingTo(f, n) == stopping'[f] = n /\ \A g \in Forwards: g # f => stopping'[g] = stopping[g]

\* An attempt that fails: the kubectl is not started, or killed again.
FailDoes(o) ==
  /\ opener'[o] \in {"failed", "delay", "gaveUp"} /\ OpenerTo(o, opener'[o], NoForward)
  /\ o = Main => done'
  /\ o # Main => opener'[o] # "failed" /\ done' = done
  /\ UNCHANGED <<closed, stop, waiter, stopping, closer, taken>>
StartFailsDoes(o) == opener[o] = "start" /\ FailDoes(o) /\ UNCHANGED process
NotAnnouncedDoes(o) ==
  /\ opener[o] = "await" /\ opening[o] \in Forwards
  /\ FailDoes(o) /\ ProcessTo(opening[o], "unused")

\* The effect of OpenFails.
LEMMA FailEffect ==
  ASSUME TypeOK, NEW o \in Openers, OpenFails(o),
         UNCHANGED <<closed, stop, waiter, stopping, closer, taken>>
  PROVE  FailDoes(o)
<1>1. opener'[o] \in {"failed", "delay", "gaveUp"} /\ OpenerTo(o, opener'[o], NoForward)
  BY DEF OpenFails, OpenerTo, TypeOK
<1>2. o = Main => done'
  BY DEF OpenFails
<1>3. o # Main => opener'[o] # "failed" /\ done' = done
  BY DEF OpenFails, TypeOK
<1> QED BY <1>1, <1>2, <1>3 DEF FailDoes

\* The effect of StartFails.
LEMMA StartFailsEffect ==
  ASSUME TypeOK, NEW o \in Openers, StartFails(o)
  PROVE  StartFailsDoes(o)
BY FailEffect DEF StartFails, procVars, closeVars, StartFailsDoes

\* The effect of NotAnnounced.
LEMMA NotAnnouncedEffect ==
  ASSUME TypeOK, Stages, NEW o \in Openers, NotAnnounced(o)
  PROVE  NotAnnouncedDoes(o)
<1>1. FailDoes(o)
  BY FailEffect DEF NotAnnounced, closeVars
<1>2. opening[o] \in Forwards /\ ProcessTo(opening[o], "unused")
  BY HeldIsForward DEF NotAnnounced, Holding, ProcessTo, TypeOK
<1> QED BY <1>1, <1>2 DEF NotAnnouncedDoes, NotAnnounced

\* A kubectl is started.
StartDoes(o, f) ==
  /\ opener[o] = "start" /\ process[f] = "unused"
  /\ ProcessTo(f, "starting") /\ OpenerTo(o, "await", f)
  /\ UNCHANGED <<done, closed, stop, waiter, stopping, closer, taken>>

\* The effect of Start.
LEMMA StartEffect ==
  ASSUME TypeOK, NEW o \in Openers, Start(o)
  PROVE  \E f \in Forwards: StartDoes(o, f)
BY DEF StartDoes, Start, closeVars, ProcessTo, OpenerTo, TypeOK

\* It announces its port.
AnnouncedDoes(o) ==
  /\ opener[o] = "await" /\ opening[o] \in Forwards /\ process[opening[o]] = "serving"
  /\ OpenerTo(o, "publish", opening[o]) /\ WaiterTo(opening[o], "wait")
  /\ UNCHANGED <<done, closed, stop, process, stopping, closer, taken>>

\* The effect of Announced.
LEMMA AnnouncedEffect ==
  ASSUME TypeOK, Stages, NEW o \in Openers, Announced(o)
  PROVE  AnnouncedDoes(o)
<1>1. opener[o] = "await" /\ opening[o] \in Forwards
  BY HeldIsForward DEF Announced, Holding
<1> QED BY <1>1 DEF AnnouncedDoes, Announced, closeVars, OpenerTo, WaiterTo, TypeOK

\* It is published, or to be discarded.
PublishDoes(o) ==
  /\ opener[o] = "publish" /\ opening[o] \in Forwards
  /\ ~closed /\ OpenerTo(o, "opened", NoForward) /\ stop' = opening[o]
  /\ \A c \in Closers: closer'[c] = closer[c] \/ closer'[c] = "watch"
  /\ UNCHANGED <<done, closed, process, waiter, stopping, taken>>
RejectDoes(o) ==
  /\ opener[o] = "publish" /\ opening[o] \in Forwards
  /\ closed /\ OpenerTo(o, "discard", opening[o])
  /\ UNCHANGED <<done, closed, stop, process, waiter, stopping, closer, taken>>

\* The effect of Publish.
LEMMA PublishEffect ==
  ASSUME TypeOK, Stages, NEW o \in Openers, Publish(o)
  PROVE  PublishDoes(o) \/ RejectDoes(o)
<1>1. opener[o] = "publish" /\ opening[o] \in Forwards
  BY HeldIsForward DEF Publish, Holding
<1>2. UNCHANGED <<done, closed, process, waiter, stopping, taken>>
  BY DEF Publish, procVars
<1>3. CASE ~closed
  <2>1. OpenerTo(o, "opened", NoForward) /\ stop' = opening[o]
    BY <1>3 DEF Publish, OpenerTo, TypeOK
  <2>2. \A c \in Closers: closer'[c] = closer[c] \/ closer'[c] = "watch"
    BY <1>3 DEF Publish, TypeOK
  <2> QED BY <1>1, <1>2, <1>3, <2>1, <2>2 DEF PublishDoes
<1>4. CASE closed
  BY <1>1, <1>2, <1>4 DEF Publish, OpenerTo, RejectDoes, TypeOK
<1> QED BY <1>3, <1>4

\* A forward is stopped.
StopDoes(f) ==
  /\ StoppingTo(f, stopping[f] + 1) /\ stopping[f] \in Nat
  /\ IF process[f] = "serving" THEN process'[f] = "exited" ELSE process'[f] = process[f]
  /\ \A g \in Forwards: g # f => process'[g] = process[g]
  /\ UNCHANGED waiter

\* The effect of StopForward.
LEMMA StopEffect ==
  ASSUME TypeOK, NEW f \in Forwards, StopForward(f)
  PROVE  StopDoes(f)
<1>1. stopping \in [Forwards -> Nat] /\ DOMAIN process = Forwards /\ process = [g \in Forwards |-> process[g]]
  BY DEF TypeOK
<1>2. StoppingTo(f, stopping[f] + 1) /\ stopping[f] \in Nat /\ UNCHANGED waiter
  BY <1>1 DEF StopForward, StoppingTo
<1>3. /\ IF process[f] = "serving" THEN process'[f] = "exited" ELSE process'[f] = process[f]
      /\ \A g \in Forwards: g # f => process'[g] = process[g]
  BY <1>1 DEF StopForward
<1> QED BY <1>2, <1>3 DEF StopDoes

\* open stops the forward that came too late, and waits for it.
DiscardDoes(o) ==
  /\ opener[o] = "discard" /\ opening[o] \in Forwards
  /\ OpenerTo(o, "discarding", opening[o]) /\ StopDoes(opening[o])
  /\ UNCHANGED <<done, closed, stop, closer, taken>>

\* The effect of Discard.
LEMMA DiscardEffect ==
  ASSUME TypeOK, Stages, NEW o \in Openers, Discard(o)
  PROVE  DiscardDoes(o)
<1>1. opener[o] = "discard" /\ opening[o] \in Forwards
  BY HeldIsForward DEF Discard, Holding
<1> QED BY <1>1, StopEffect DEF DiscardDoes, Discard, closeVars, OpenerTo, TypeOK

\* The opener has waited for it.
DiscardedDoes(o) ==
  /\ opener[o] = "discarding" /\ OpenerTo(o, "ended", NoForward)
  /\ UNCHANGED <<done, closed, stop, process, waiter, stopping, closer, taken>>

\* The effect of Discarded.
LEMMA DiscardedEffect ==
  ASSUME TypeOK, NEW o \in Openers, Discarded(o)
  PROVE  DiscardedDoes(o)
BY DEF DiscardedDoes, Discarded, procVars, closeVars, OpenerTo, TypeOK

\* The loop of reopen, between two attempts.
PauseDoes(o) ==
  /\ \/ opener[o] = "check" /\ closed /\ OpenerTo(o, "ended", opening[o])
     \/ opener[o] = "check" /\ ~closed /\ OpenerTo(o, "delay", opening[o])
     \/ opener[o] = "delay" /\ done /\ OpenerTo(o, "ended", opening[o])
  /\ UNCHANGED <<done, closed, stop, process, waiter, stopping, opening, closer, taken>>
DelayedDoes(o) ==
  /\ opener[o] = "delay" /\ OpenerTo(o, "start", opening[o])
  /\ \A p \in Openers: opener[p] # "publish"
  /\ UNCHANGED <<done, closed, stop, process, waiter, stopping, opening, closer, taken>>

\* The effect of Reopen, Delayed and DelayCanceled.
LEMMA PauseEffect ==
  ASSUME TypeOK, NEW o \in Openers, Reopen(o) \/ Delayed(o) \/ DelayCanceled(o)
  PROVE  PauseDoes(o) \/ DelayedDoes(o)
<1>1. CASE Reopen(o) \/ DelayCanceled(o)
  BY <1>1 DEF PauseDoes, Reopen, DelayCanceled, procVars, closeVars, OpenerTo, TypeOK
<1>2. CASE Delayed(o)
  BY <1>2 DEF DelayedDoes, Delayed, procVars, closeVars, OpenerTo, TypeOK
<1> QED BY <1>1, <1>2

\* Close is called, cancels the context, or returns.
CloseDoes(c) ==
  /\ UNCHANGED <<closed, stop, process, waiter, stopping, opener, opening, taken>>
  /\ done => done'
  /\ \/ closer[c] \in {"none", "watch"} /\ CloserTo(c, "close", taken[c])
     \/ closer[c] = "cancel" /\ taken[c] # NoForward /\ CloserTo(c, "stop", taken[c])
     \/ closer[c] = "cancel" /\ taken[c] = NoForward /\ CloserTo(c, "returned", taken[c])
     \/ closer[c] = "stopping" /\ CloserTo(c, "returned", taken[c])

\* The effect of CallClose, Cancel and Stopped.
LEMMA CloseEffect ==
  ASSUME TypeOK, Stages, NEW c \in Closers, CallClose(c) \/ Cancel(c) \/ Stopped(c)
  PROVE  CloseDoes(c)
<1> USE DEF CloseDoes
<1> USE DEF procVars, openVars, CloserTo
<1>1. CASE CallClose(c)
  <2>1. closer[c] \in {"none", "watch"} /\ closer' = [closer EXCEPT ![c] = "close"]
    BY <1>1 DEF CallClose
  <2> QED BY <1>1, <2>1 DEF CallClose, TypeOK
<1>2. CASE Cancel(c)
  BY <1>2 DEF Cancel, TypeOK
<1>3. CASE Stopped(c)
  BY <1>3 DEF Stopped, TypeOK
<1> QED BY <1>1, <1>2, <1>3

\* The first Close takes the published forward, the second returns.
TakeDoes(c) ==
  /\ closer[c] = "close" /\ ~closed /\ closed'
  /\ CloserTo(c, "cancel", stop) /\ stop' = NoForward
  /\ UNCHANGED <<done, process, waiter, stopping, opener, opening>>
SecondDoes(c) ==
  /\ closer[c] = "close" /\ closed /\ CloserTo(c, "returned", taken[c])
  /\ UNCHANGED <<done, closed, stop, process, waiter, stopping, opener, opening>>

\* The effect of TakeStop.
LEMMA TakeEffect ==
  ASSUME TypeOK, NEW c \in Closers, TakeStop(c)
  PROVE  TakeDoes(c) \/ SecondDoes(c)
<1> USE DEF procVars, openVars, CloserTo
<1>1. CASE closed
  BY <1>1 DEF TakeStop, SecondDoes, TypeOK
<1>2. CASE ~closed
  BY <1>2 DEF TakeStop, TakeDoes, TypeOK
<1> QED BY <1>1, <1>2

\* It stops what it took.
StopTakenDoes(c) ==
  /\ closer[c] = "stop" /\ taken[c] \in Forwards /\ StopDoes(taken[c])
  /\ CloserTo(c, "stopping", taken[c])
  /\ UNCHANGED <<done, closed, stop, opener, opening>>

\* The effect of StopTaken.
LEMMA StopTakenEffect ==
  ASSUME TypeOK, Stages, NEW c \in Closers, StopTaken(c)
  PROVE  StopTakenDoes(c)
<1>1. taken[c] \in Forwards /\ closer[c] = "stop"
  BY HeldIsForward DEF StopTaken
<1> QED BY <1>1, StopEffect DEF StopTakenDoes, StopTaken, openVars, CloserTo, TypeOK

\* The waiter of a forward.
ReapDoes(f) ==
  /\ waiter[f] = "wait" /\ process[f] = "exited"
  /\ ProcessTo(f, "reaped") /\ WaiterTo(f, "report")
  /\ UNCHANGED <<done, closed, stop, stopping, opener, opening, closer, taken>>

\* The effect of Reap.
LEMMA ReapEffect ==
  ASSUME TypeOK, NEW f \in Forwards, Reap(f)
  PROVE  ReapDoes(f)
BY DEF ReapDoes, Reap, openVars, closeVars, ProcessTo, WaiterTo, TypeOK

\* It reports the death.
ReportDoes(f) ==
  /\ waiter[f] = "report" /\ WaiterTo(f, "ended") /\ opener[f] = "none"
  /\ IF stopping[f] = 0 THEN OpenerTo(f, "check", opening[f]) ELSE OpenerTo(f, "none", opening[f])
  /\ UNCHANGED <<done, closed, stop, process, stopping, opening, closer, taken>>

\* The effect of ReportDeath.
LEMMA ReportEffect ==
  ASSUME TypeOK, Stages, NEW f \in Forwards, ReportDeath(f)
  PROVE  ReportDoes(f)
<1>1. f \in Openers /\ waiter[f] = "report"
  BY Names DEF ReportDeath
<1>2. opener[f] = "none"
  BY <1>1 DEF Stages
<1> QED BY <1>1, <1>2 DEF ReportDoes, ReportDeath, closeVars, WaiterTo, OpenerTo, TypeOK

\* kubectl and the context.
ServesDoes(f) ==
  /\ process[f] = "starting" /\ ProcessTo(f, "serving")
  /\ UNCHANGED <<done, closed, stop, waiter, stopping, opener, opening, closer, taken>>
DiesDoes(f) ==
  /\ process[f] = "serving" /\ waiter[f] = "wait" /\ ProcessTo(f, "exited")
  /\ UNCHANGED <<done, closed, stop, waiter, stopping, opener, opening, closer, taken>>

\* The effect of KubectlServes, KubectlDies and ContextKills.
LEMMA KubectlEffect ==
  ASSUME TypeOK, NEW f \in Forwards, KubectlServes(f) \/ KubectlDies(f) \/ ContextKills(f)
  PROVE  ServesDoes(f) \/ DiesDoes(f)
<1>1. CASE KubectlServes(f)
  BY <1>1 DEF ServesDoes, KubectlServes, openVars, closeVars, ProcessTo, TypeOK
<1>2. CASE KubectlDies(f) \/ ContextKills(f)
  BY <1>2 DEF DiesDoes, KubectlDies, ContextKills, openVars, closeVars, ProcessTo, TypeOK
<1> QED BY <1>1, <1>2

\* Signals and rest.
SignalDoes ==
  /\ UNCHANGED <<closed, stop, process, waiter, stopping, opener, opening, closer, taken>>
  /\ done => done'

\* The effect of Signal, AtRest and a stuttering step.
LEMMA SignalEffect ==
  ASSUME TypeOK, Signal \/ AtRest \/ UNCHANGED vars
  PROVE  SignalDoes
BY DEF SignalDoes, Signal, AtRest, vars, procVars, openVars, closeVars

\* Every step has one of these effects.
LEMMA Effects ==
  ASSUME TypeOK, Stages, [Next]_vars
  PROVE  \/ \E o \in Openers:
              \/ StartFailsDoes(o) \/ NotAnnouncedDoes(o) \/ (\E f \in Forwards: StartDoes(o, f))
              \/ AnnouncedDoes(o) \/ PublishDoes(o) \/ RejectDoes(o) \/ DiscardDoes(o)
              \/ DiscardedDoes(o) \/ PauseDoes(o) \/ DelayedDoes(o)
         \/ \E c \in Closers: CloseDoes(c) \/ TakeDoes(c) \/ SecondDoes(c) \/ StopTakenDoes(c)
         \/ \E f \in Forwards: ReapDoes(f) \/ ReportDoes(f) \/ ServesDoes(f) \/ DiesDoes(f)
         \/ SignalDoes
BY StartFailsEffect, NotAnnouncedEffect, StartEffect, AnnouncedEffect, PublishEffect,
   DiscardEffect, DiscardedEffect, PauseEffect, CloseEffect, TakeEffect, StopTakenEffect,
   ReapEffect, ReportEffect, KubectlEffect, SignalEffect
   DEF Next, OpenerStep, CloserStep, WaiterStep


-----------------------------------------------------------------------------
(* Who holds which forward.                                                *)

\* Every step keeps Stages.
LEMMA StagesStep ==
  ASSUME TypeOK, Stages, Reaped, HeldOnce, Unstopped, [Next]_vars
  PROVE  Stages'
<1> USE Names DEF Stages, HeldOnce, Holding
<1>1. ASSUME NEW o \in Openers, StartFailsDoes(o) PROVE Stages'
  BY <1>1 DEF StartFailsDoes, FailDoes, OpenerTo
<1>2. ASSUME NEW o \in Openers, NotAnnouncedDoes(o) PROVE Stages'
  BY <1>2 DEF NotAnnouncedDoes, FailDoes, OpenerTo, ProcessTo
<1>3. ASSUME NEW o \in Openers, NEW f \in Forwards, StartDoes(o, f) PROVE Stages'
  BY <1>3 DEF StartDoes, OpenerTo, ProcessTo
<1>4. ASSUME NEW o \in Openers, AnnouncedDoes(o) PROVE Stages'
  BY <1>4 DEF AnnouncedDoes, OpenerTo, WaiterTo
<1>5. ASSUME NEW o \in Openers, PublishDoes(o) PROVE Stages'
  BY <1>5 DEF PublishDoes, OpenerTo
<1>6. ASSUME NEW o \in Openers, RejectDoes(o) PROVE Stages'
  BY <1>6 DEF RejectDoes, OpenerTo
<1>7. ASSUME NEW o \in Openers, DiscardDoes(o) PROVE Stages'
  BY <1>7 DEF DiscardDoes, OpenerTo, StopDoes, StoppingTo, ProcessTo
<1>8. ASSUME NEW o \in Openers, DiscardedDoes(o) PROVE Stages'
  BY <1>8 DEF DiscardedDoes, OpenerTo
<1>9. ASSUME NEW o \in Openers, PauseDoes(o) PROVE Stages'
  BY <1>9 DEF PauseDoes, OpenerTo
<1>10. ASSUME NEW o \in Openers, DelayedDoes(o) PROVE Stages'
  BY <1>10 DEF DelayedDoes, OpenerTo
<1>11. ASSUME NEW c \in Closers, CloseDoes(c) PROVE Stages'
  BY <1>11 DEF CloseDoes, CloserTo
<1>12. ASSUME NEW c \in Closers, TakeDoes(c) PROVE Stages'
  BY <1>12 DEF TakeDoes, CloserTo
<1>13. ASSUME NEW c \in Closers, SecondDoes(c) PROVE Stages'
  BY <1>13 DEF SecondDoes, CloserTo
<1>14. ASSUME NEW c \in Closers, StopTakenDoes(c) PROVE Stages'
  BY <1>14 DEF StopTakenDoes, CloserTo, StopDoes, StoppingTo, ProcessTo
<1>15. ASSUME NEW f \in Forwards, ReapDoes(f) PROVE Stages'
  BY <1>15 DEF ReapDoes, ProcessTo, WaiterTo
<1>16. ASSUME NEW f \in Forwards, ReportDoes(f) PROVE Stages'
  BY <1>16 DEF ReportDoes, OpenerTo, WaiterTo
<1>17. ASSUME NEW f \in Forwards, ServesDoes(f) PROVE Stages'
  BY <1>17 DEF ServesDoes, ProcessTo
<1>18. ASSUME NEW f \in Forwards, DiesDoes(f) PROVE Stages'
  BY <1>18 DEF DiesDoes, ProcessTo
<1>19. ASSUME SignalDoes PROVE Stages'
  BY <1>19 DEF SignalDoes
<1> HIDE DEF Stages, HeldOnce, Holding
<1> QED
  BY Effects, <1>1, <1>2, <1>3, <1>4, <1>5, <1>6, <1>7, <1>8, <1>9, <1>10,
     <1>11, <1>12, <1>13, <1>14, <1>15, <1>16, <1>17, <1>18, <1>19

\* Every step keeps Reaped.
LEMMA ReapedStep ==
  ASSUME TypeOK, Stages, Reaped, HeldOnce, Unstopped, [Next]_vars
  PROVE  Reaped'
<1> USE Names DEF Stages, HeldOnce, Reaped, Unstopped, Holding
<1>1. ASSUME NEW o \in Openers, StartFailsDoes(o) PROVE Reaped'
  BY <1>1 DEF StartFailsDoes, FailDoes, OpenerTo
<1>2. ASSUME NEW o \in Openers, NotAnnouncedDoes(o) PROVE Reaped'
  BY <1>2 DEF NotAnnouncedDoes, FailDoes, OpenerTo, ProcessTo
<1>3. ASSUME NEW o \in Openers, NEW f \in Forwards, StartDoes(o, f) PROVE Reaped'
  BY <1>3 DEF StartDoes, OpenerTo, ProcessTo
<1>4. ASSUME NEW o \in Openers, AnnouncedDoes(o) PROVE Reaped'
  BY <1>4 DEF AnnouncedDoes, OpenerTo, WaiterTo
<1>5. ASSUME NEW o \in Openers, PublishDoes(o) PROVE Reaped'
  BY <1>5 DEF PublishDoes, OpenerTo
<1>6. ASSUME NEW o \in Openers, RejectDoes(o) PROVE Reaped'
  BY <1>6 DEF RejectDoes, OpenerTo
<1>7. ASSUME NEW o \in Openers, DiscardDoes(o) PROVE Reaped'
  BY <1>7 DEF DiscardDoes, OpenerTo, StopDoes, StoppingTo, ProcessTo
<1>8. ASSUME NEW o \in Openers, DiscardedDoes(o) PROVE Reaped'
  BY <1>8 DEF DiscardedDoes, OpenerTo
<1>9. ASSUME NEW o \in Openers, PauseDoes(o) PROVE Reaped'
  BY <1>9 DEF PauseDoes, OpenerTo
<1>10. ASSUME NEW o \in Openers, DelayedDoes(o) PROVE Reaped'
  BY <1>10 DEF DelayedDoes, OpenerTo
<1>11. ASSUME NEW c \in Closers, CloseDoes(c) PROVE Reaped'
  BY <1>11 DEF CloseDoes, CloserTo
<1>12. ASSUME NEW c \in Closers, TakeDoes(c) PROVE Reaped'
  BY <1>12 DEF TakeDoes, CloserTo
<1>13. ASSUME NEW c \in Closers, SecondDoes(c) PROVE Reaped'
  BY <1>13 DEF SecondDoes, CloserTo
<1>14. ASSUME NEW c \in Closers, StopTakenDoes(c) PROVE Reaped'
  <2>1. waiter[taken[c]] # "none"
    BY <1>14 DEF StopTakenDoes
  <2>2. /\ taken[c] \in Forwards /\ UNCHANGED <<waiter, opener, opening>>
        /\ \A g \in Forwards: g # taken[c] => process'[g] = process[g] /\ stopping'[g] = stopping[g]
        /\ IF process[taken[c]] = "serving" THEN process'[taken[c]] = "exited"
           ELSE process'[taken[c]] = process[taken[c]]
    BY <1>14 DEF StopTakenDoes, StopDoes, StoppingTo
  <2>3. process[taken[c]] # "unused"
    BY <1>14, <2>1 DEF StopTakenDoes, TypeOK
  <2> QED BY <2>1, <2>2, <2>3
<1>15. ASSUME NEW f \in Forwards, ReapDoes(f) PROVE Reaped'
  BY <1>15 DEF ReapDoes, ProcessTo, WaiterTo
<1>16. ASSUME NEW f \in Forwards, ReportDoes(f) PROVE Reaped'
  BY <1>16 DEF ReportDoes, OpenerTo, WaiterTo
<1>17. ASSUME NEW f \in Forwards, ServesDoes(f) PROVE Reaped'
  BY <1>17 DEF ServesDoes, ProcessTo
<1>18. ASSUME NEW f \in Forwards, DiesDoes(f) PROVE Reaped'
  BY <1>18 DEF DiesDoes, ProcessTo
<1>19. ASSUME SignalDoes PROVE Reaped'
  BY <1>19 DEF SignalDoes
<1> HIDE DEF Stages, HeldOnce, Reaped, Unstopped, Holding
<1> QED
  BY Effects, <1>1, <1>2, <1>3, <1>4, <1>5, <1>6, <1>7, <1>8, <1>9, <1>10,
     <1>11, <1>12, <1>13, <1>14, <1>15, <1>16, <1>17, <1>18, <1>19

\* Every step keeps HeldOnce.
LEMMA HeldOnceStep ==
  ASSUME TypeOK, Stages, Reaped, HeldOnce, Unstopped, [Next]_vars
  PROVE  HeldOnce'
<1>t. /\ stop \in Forwards \cup {NoForward}
      /\ \A o \in Openers: opening[o] \in Forwards \cup {NoForward}
      /\ \A c \in Closers: taken[c] \in Forwards \cup {NoForward}
  BY DEF TypeOK
<1> USE Names, <1>t DEF Stages, HeldOnce, Reaped, Holding
<1>1. ASSUME NEW o \in Openers, StartFailsDoes(o) PROVE HeldOnce'
  BY <1>1 DEF StartFailsDoes, FailDoes, OpenerTo
<1>2. ASSUME NEW o \in Openers, NotAnnouncedDoes(o) PROVE HeldOnce'
  BY <1>2 DEF NotAnnouncedDoes, FailDoes, OpenerTo, ProcessTo
<1>3. ASSUME NEW o \in Openers, NEW f \in Forwards, StartDoes(o, f) PROVE HeldOnce'
  <2>1. /\ opener'[o] = "await" /\ opening'[o] = f /\ process[f] = "unused" /\ opening[o] = NoForward
        /\ \A p \in Openers: p # o => opener'[p] = opener[p] /\ opening'[p] = opening[p]
        /\ process'[f] = "starting" /\ \A g \in Forwards: g # f => process'[g] = process[g]
        /\ UNCHANGED <<stop, waiter, taken>>
    BY <1>3 DEF StartDoes, OpenerTo, ProcessTo
  <2>2. waiter[f] = "none" /\ f # o /\ f # stop /\ f # NoForward
    BY <1>3, <2>1 DEF StartDoes, TypeOK
  <2>3. (\A p \in Openers: opening[p] # f) /\ (\A c \in Closers: taken[c] # f)
    BY <2>1, <2>2
  <2> QED BY <2>1, <2>2, <2>3
<1>4. ASSUME NEW o \in Openers, AnnouncedDoes(o) PROVE HeldOnce'
  BY <1>4 DEF AnnouncedDoes, OpenerTo, WaiterTo
<1>5. ASSUME NEW o \in Openers, PublishDoes(o) PROVE HeldOnce'
  BY <1>5 DEF PublishDoes, OpenerTo
<1>6. ASSUME NEW o \in Openers, RejectDoes(o) PROVE HeldOnce'
  BY <1>6 DEF RejectDoes, OpenerTo
<1>7. ASSUME NEW o \in Openers, DiscardDoes(o) PROVE HeldOnce'
  BY <1>7 DEF DiscardDoes, OpenerTo, StopDoes, StoppingTo, ProcessTo
<1>8. ASSUME NEW o \in Openers, DiscardedDoes(o) PROVE HeldOnce'
  BY <1>8 DEF DiscardedDoes, OpenerTo
<1>9. ASSUME NEW o \in Openers, PauseDoes(o) PROVE HeldOnce'
  BY <1>9 DEF PauseDoes, OpenerTo
<1>10. ASSUME NEW o \in Openers, DelayedDoes(o) PROVE HeldOnce'
  BY <1>10 DEF DelayedDoes, OpenerTo
<1>11. ASSUME NEW c \in Closers, CloseDoes(c) PROVE HeldOnce'
  BY <1>11 DEF CloseDoes, CloserTo
<1>12. ASSUME NEW c \in Closers, TakeDoes(c) PROVE HeldOnce'
  BY <1>12 DEF TakeDoes, CloserTo
<1>13. ASSUME NEW c \in Closers, SecondDoes(c) PROVE HeldOnce'
  BY <1>13 DEF SecondDoes, CloserTo
<1>14. ASSUME NEW c \in Closers, StopTakenDoes(c) PROVE HeldOnce'
  BY <1>14 DEF StopTakenDoes, CloserTo, StopDoes, StoppingTo, ProcessTo
<1>15. ASSUME NEW f \in Forwards, ReapDoes(f) PROVE HeldOnce'
  BY <1>15 DEF ReapDoes, ProcessTo, WaiterTo
<1>16. ASSUME NEW f \in Forwards, ReportDoes(f) PROVE HeldOnce'
  BY <1>16 DEF ReportDoes, OpenerTo, WaiterTo
<1>17. ASSUME NEW f \in Forwards, ServesDoes(f) PROVE HeldOnce'
  BY <1>17 DEF ServesDoes, ProcessTo
<1>18. ASSUME NEW f \in Forwards, DiesDoes(f) PROVE HeldOnce'
  BY <1>18 DEF DiesDoes, ProcessTo
<1>19. ASSUME SignalDoes PROVE HeldOnce'
  BY <1>19 DEF SignalDoes
<1> HIDE DEF Stages, HeldOnce, Reaped, Holding
<1> QED
  BY Effects, <1>1, <1>2, <1>3, <1>4, <1>5, <1>6, <1>7, <1>8, <1>9, <1>10,
     <1>11, <1>12, <1>13, <1>14, <1>15, <1>16, <1>17, <1>18, <1>19

\* Every step keeps Unstopped.
LEMMA UnstoppedStep ==
  ASSUME TypeOK, Stages, Reaped, HeldOnce, Unstopped, [Next]_vars
  PROVE  Unstopped'
<1>t. /\ stop \in Forwards \cup {NoForward}
      /\ \A o \in Openers: opening[o] \in Forwards \cup {NoForward}
      /\ \A c \in Closers: taken[c] \in Forwards \cup {NoForward}
  BY DEF TypeOK
<1> USE Names, <1>t DEF Stages, HeldOnce, Reaped, Unstopped, Holding
<1>1. ASSUME NEW o \in Openers, StartFailsDoes(o) PROVE Unstopped'
  BY <1>1 DEF StartFailsDoes, FailDoes, OpenerTo
<1>2. ASSUME NEW o \in Openers, NotAnnouncedDoes(o) PROVE Unstopped'
  BY <1>2 DEF NotAnnouncedDoes, FailDoes, OpenerTo, ProcessTo
<1>3. ASSUME NEW o \in Openers, NEW f \in Forwards, StartDoes(o, f) PROVE Unstopped'
  BY <1>3 DEF StartDoes, OpenerTo, ProcessTo
<1>4. ASSUME NEW o \in Openers, AnnouncedDoes(o) PROVE Unstopped'
  BY <1>4 DEF AnnouncedDoes, OpenerTo, WaiterTo
<1>5. ASSUME NEW o \in Openers, PublishDoes(o) PROVE Unstopped'
  BY <1>5 DEF PublishDoes, OpenerTo
<1>6. ASSUME NEW o \in Openers, RejectDoes(o) PROVE Unstopped'
  BY <1>6 DEF RejectDoes, OpenerTo
<1>7. ASSUME NEW o \in Openers, DiscardDoes(o) PROVE Unstopped'
  <2>1. /\ opener[o] = "discard" /\ opening[o] \in Forwards /\ UNCHANGED <<stop, closer, taken>>
        /\ opener'[o] = "discarding" /\ opening'[o] = opening[o]
        /\ \A p \in Openers: p # o => opener'[p] = opener[p] /\ opening'[p] = opening[p]
        /\ stopping'[opening[o]] = stopping[opening[o]] + 1
        /\ \A g \in Forwards: g # opening[o] => stopping'[g] = stopping[g]
    BY <1>7 DEF DiscardDoes, OpenerTo, StopDoes, StoppingTo
  <2>2. stopping'[opening[o]] = 1
    BY <2>1
  <2> QED BY <2>1, <2>2, <1>t
<1>8. ASSUME NEW o \in Openers, DiscardedDoes(o) PROVE Unstopped'
  BY <1>8 DEF DiscardedDoes, OpenerTo
<1>9. ASSUME NEW o \in Openers, PauseDoes(o) PROVE Unstopped'
  BY <1>9 DEF PauseDoes, OpenerTo
<1>10. ASSUME NEW o \in Openers, DelayedDoes(o) PROVE Unstopped'
  BY <1>10 DEF DelayedDoes, OpenerTo
<1>11. ASSUME NEW c \in Closers, CloseDoes(c) PROVE Unstopped'
  BY <1>11 DEF CloseDoes, CloserTo
<1>12. ASSUME NEW c \in Closers, TakeDoes(c) PROVE Unstopped'
  BY <1>12 DEF TakeDoes, CloserTo
<1>13. ASSUME NEW c \in Closers, SecondDoes(c) PROVE Unstopped'
  BY <1>13 DEF SecondDoes, CloserTo
<1>14. ASSUME NEW c \in Closers, StopTakenDoes(c) PROVE Unstopped'
  <2>1. /\ closer[c] = "stop" /\ taken[c] \in Forwards /\ UNCHANGED <<stop, opener, opening>>
        /\ closer'[c] = "stopping" /\ taken'[c] = taken[c]
        /\ \A d \in Closers: d # c => closer'[d] = closer[d] /\ taken'[d] = taken[d]
        /\ stopping'[taken[c]] = stopping[taken[c]] + 1
        /\ \A g \in Forwards: g # taken[c] => stopping'[g] = stopping[g]
    BY <1>14 DEF StopTakenDoes, CloserTo, StopDoes, StoppingTo
  <2>2. stopping'[taken[c]] = 1 /\ stop # taken[c]
    BY <2>1
  <2>3. \A p \in Openers: opening[p] # taken[c]
    BY <2>1
  <2>4. \A d \in Closers: d # c => taken[d] = NoForward
    BY <2>1
  <2> QED BY <2>1, <2>2, <2>3, <2>4, <1>t
<1>15. ASSUME NEW f \in Forwards, ReapDoes(f) PROVE Unstopped'
  BY <1>15 DEF ReapDoes, ProcessTo, WaiterTo
<1>16. ASSUME NEW f \in Forwards, ReportDoes(f) PROVE Unstopped'
  BY <1>16 DEF ReportDoes, OpenerTo, WaiterTo
<1>17. ASSUME NEW f \in Forwards, ServesDoes(f) PROVE Unstopped'
  BY <1>17 DEF ServesDoes, ProcessTo
<1>18. ASSUME NEW f \in Forwards, DiesDoes(f) PROVE Unstopped'
  BY <1>18 DEF DiesDoes, ProcessTo
<1>19. ASSUME SignalDoes PROVE Unstopped'
  BY <1>19 DEF SignalDoes
<1> HIDE DEF Stages, HeldOnce, Reaped, Unstopped, Holding
<1> QED
  BY Effects, <1>1, <1>2, <1>3, <1>4, <1>5, <1>6, <1>7, <1>8, <1>9, <1>10,
     <1>11, <1>12, <1>13, <1>14, <1>15, <1>16, <1>17, <1>18, <1>19

\* Every step keeps StoppedOnce: who stops a forward is the first to do so.
LEMMA StoppedOnceStep ==
  ASSUME TypeOK, Stages, Reaped, HeldOnce, Unstopped, StoppedOnce, [Next]_vars
  PROVE  StoppedOnce'
<1> USE Names DEF Unstopped, StoppedOnce
<1>1. ASSUME NEW o \in Openers, StartFailsDoes(o) PROVE StoppedOnce'
  BY <1>1 DEF StartFailsDoes, FailDoes, OpenerTo
<1>2. ASSUME NEW o \in Openers, NotAnnouncedDoes(o) PROVE StoppedOnce'
  BY <1>2 DEF NotAnnouncedDoes, FailDoes, OpenerTo, ProcessTo
<1>3. ASSUME NEW o \in Openers, NEW f \in Forwards, StartDoes(o, f) PROVE StoppedOnce'
  BY <1>3 DEF StartDoes, OpenerTo, ProcessTo
<1>4. ASSUME NEW o \in Openers, AnnouncedDoes(o) PROVE StoppedOnce'
  BY <1>4 DEF AnnouncedDoes, OpenerTo, WaiterTo
<1>5. ASSUME NEW o \in Openers, PublishDoes(o) PROVE StoppedOnce'
  BY <1>5 DEF PublishDoes, OpenerTo
<1>6. ASSUME NEW o \in Openers, RejectDoes(o) PROVE StoppedOnce'
  BY <1>6 DEF RejectDoes, OpenerTo
<1>7. ASSUME NEW o \in Openers, DiscardDoes(o) PROVE StoppedOnce'
  BY <1>7 DEF DiscardDoes, OpenerTo, StopDoes, StoppingTo, ProcessTo
<1>8. ASSUME NEW o \in Openers, DiscardedDoes(o) PROVE StoppedOnce'
  BY <1>8 DEF DiscardedDoes, OpenerTo
<1>9. ASSUME NEW o \in Openers, PauseDoes(o) PROVE StoppedOnce'
  BY <1>9 DEF PauseDoes, OpenerTo
<1>10. ASSUME NEW o \in Openers, DelayedDoes(o) PROVE StoppedOnce'
  BY <1>10 DEF DelayedDoes, OpenerTo
<1>11. ASSUME NEW c \in Closers, CloseDoes(c) PROVE StoppedOnce'
  BY <1>11 DEF CloseDoes, CloserTo
<1>12. ASSUME NEW c \in Closers, TakeDoes(c) PROVE StoppedOnce'
  BY <1>12 DEF TakeDoes, CloserTo
<1>13. ASSUME NEW c \in Closers, SecondDoes(c) PROVE StoppedOnce'
  BY <1>13 DEF SecondDoes, CloserTo
<1>14. ASSUME NEW c \in Closers, StopTakenDoes(c) PROVE StoppedOnce'
  BY <1>14 DEF StopTakenDoes, CloserTo, StopDoes, StoppingTo, ProcessTo
<1>15. ASSUME NEW f \in Forwards, ReapDoes(f) PROVE StoppedOnce'
  BY <1>15 DEF ReapDoes, ProcessTo, WaiterTo
<1>16. ASSUME NEW f \in Forwards, ReportDoes(f) PROVE StoppedOnce'
  BY <1>16 DEF ReportDoes, OpenerTo, WaiterTo
<1>17. ASSUME NEW f \in Forwards, ServesDoes(f) PROVE StoppedOnce'
  BY <1>17 DEF ServesDoes, ProcessTo
<1>18. ASSUME NEW f \in Forwards, DiesDoes(f) PROVE StoppedOnce'
  BY <1>18 DEF DiesDoes, ProcessTo
<1>19. ASSUME SignalDoes PROVE StoppedOnce'
  BY <1>19 DEF SignalDoes
<1> HIDE DEF Unstopped, StoppedOnce
<1> QED
  BY Effects, <1>1, <1>2, <1>3, <1>4, <1>5, <1>6, <1>7, <1>8, <1>9, <1>10,
     <1>11, <1>12, <1>13, <1>14, <1>15, <1>16, <1>17, <1>18, <1>19

\* Every step keeps Chain.
LEMMA ChainStep ==
  ASSUME TypeOK, Stages, Reaped, HeldOnce, Unstopped, Chain, [Next]_vars
  PROVE  Chain'
<1> USE Names DEF Stages, HeldOnce, Reaped, Chain, InCharge, Succeeds, Working, Holding
<1>1. ASSUME NEW o \in Openers, StartFailsDoes(o) PROVE Chain'
  BY <1>1 DEF StartFailsDoes, FailDoes, OpenerTo
<1>2. ASSUME NEW o \in Openers, NotAnnouncedDoes(o) PROVE Chain'
  BY <1>2 DEF NotAnnouncedDoes, FailDoes, OpenerTo, ProcessTo
<1>3. ASSUME NEW o \in Openers, NEW f \in Forwards, StartDoes(o, f) PROVE Chain'
  BY <1>3 DEF StartDoes, OpenerTo, ProcessTo
<1>4. ASSUME NEW o \in Openers, AnnouncedDoes(o) PROVE Chain'
  BY <1>4 DEF AnnouncedDoes, OpenerTo, WaiterTo
<1>5. ASSUME NEW o \in Openers, PublishDoes(o) PROVE Chain'
  BY <1>5 DEF PublishDoes, OpenerTo
<1>6. ASSUME NEW o \in Openers, RejectDoes(o) PROVE Chain'
  BY <1>6 DEF RejectDoes, OpenerTo
<1>7. ASSUME NEW o \in Openers, DiscardDoes(o) PROVE Chain'
  BY <1>7 DEF DiscardDoes, OpenerTo, StopDoes, StoppingTo, ProcessTo
<1>8. ASSUME NEW o \in Openers, DiscardedDoes(o) PROVE Chain'
  BY <1>8 DEF DiscardedDoes, OpenerTo
<1>9. ASSUME NEW o \in Openers, PauseDoes(o) PROVE Chain'
  BY <1>9 DEF PauseDoes, OpenerTo
<1>10. ASSUME NEW o \in Openers, DelayedDoes(o) PROVE Chain'
  BY <1>10 DEF DelayedDoes, OpenerTo
<1>11. ASSUME NEW c \in Closers, CloseDoes(c) PROVE Chain'
  BY <1>11 DEF CloseDoes, CloserTo
<1>12. ASSUME NEW c \in Closers, TakeDoes(c) PROVE Chain'
  BY <1>12 DEF TakeDoes, CloserTo
<1>13. ASSUME NEW c \in Closers, SecondDoes(c) PROVE Chain'
  BY <1>13 DEF SecondDoes, CloserTo
<1>14. ASSUME NEW c \in Closers, StopTakenDoes(c) PROVE Chain'
  BY <1>14 DEF StopTakenDoes, CloserTo, StopDoes, StoppingTo, ProcessTo
<1>15. ASSUME NEW f \in Forwards, ReapDoes(f) PROVE Chain'
  BY <1>15 DEF ReapDoes, ProcessTo, WaiterTo
<1>16. ASSUME NEW f \in Forwards, ReportDoes(f) PROVE Chain'
  BY <1>16 DEF ReportDoes, OpenerTo, WaiterTo
<1>17. ASSUME NEW f \in Forwards, ServesDoes(f) PROVE Chain'
  BY <1>17 DEF ServesDoes, ProcessTo
<1>18. ASSUME NEW f \in Forwards, DiesDoes(f) PROVE Chain'
  BY <1>18 DEF DiesDoes, ProcessTo
<1>19. ASSUME SignalDoes PROVE Chain'
  BY <1>19 DEF SignalDoes
<1> HIDE DEF Stages, HeldOnce, Reaped, Chain, InCharge, Succeeds, Working, Holding
<1> QED
  BY Effects, <1>1, <1>2, <1>3, <1>4, <1>5, <1>6, <1>7, <1>8, <1>9, <1>10,
     <1>11, <1>12, <1>13, <1>14, <1>15, <1>16, <1>17, <1>18, <1>19

\* Every step keeps WaitedFor.
LEMMA WaitedForStep ==
  ASSUME TypeOK, Stages, Reaped, HeldOnce, Unstopped, Chain, WaitedFor, [Next]_vars
  PROVE  WaitedFor'
<1> USE Names DEF Stages, HeldOnce, Reaped, Chain, InCharge, Succeeds, Working, Holding, WaitedFor
<1>1. ASSUME NEW o \in Openers, StartFailsDoes(o) PROVE WaitedFor'
  BY <1>1 DEF StartFailsDoes, FailDoes, OpenerTo
<1>2. ASSUME NEW o \in Openers, NotAnnouncedDoes(o) PROVE WaitedFor'
  BY <1>2 DEF NotAnnouncedDoes, FailDoes, OpenerTo, ProcessTo
<1>3. ASSUME NEW o \in Openers, NEW f \in Forwards, StartDoes(o, f) PROVE WaitedFor'
  BY <1>3 DEF StartDoes, OpenerTo, ProcessTo
<1>4. ASSUME NEW o \in Openers, AnnouncedDoes(o) PROVE WaitedFor'
  BY <1>4 DEF AnnouncedDoes, OpenerTo, WaiterTo
<1>5. ASSUME NEW o \in Openers, PublishDoes(o) PROVE WaitedFor'
  BY <1>5 DEF PublishDoes, OpenerTo
<1>6. ASSUME NEW o \in Openers, RejectDoes(o) PROVE WaitedFor'
  BY <1>6 DEF RejectDoes, OpenerTo
<1>7. ASSUME NEW o \in Openers, DiscardDoes(o) PROVE WaitedFor'
  BY <1>7 DEF DiscardDoes, OpenerTo, StopDoes, StoppingTo, ProcessTo
<1>8. ASSUME NEW o \in Openers, DiscardedDoes(o) PROVE WaitedFor'
  BY <1>8 DEF DiscardedDoes, OpenerTo
<1>9. ASSUME NEW o \in Openers, PauseDoes(o) PROVE WaitedFor'
  BY <1>9 DEF PauseDoes, OpenerTo
<1>10. ASSUME NEW o \in Openers, DelayedDoes(o) PROVE WaitedFor'
  BY <1>10 DEF DelayedDoes, OpenerTo
<1>11. ASSUME NEW c \in Closers, CloseDoes(c) PROVE WaitedFor'
  BY <1>11 DEF CloseDoes, CloserTo
<1>12. ASSUME NEW c \in Closers, TakeDoes(c) PROVE WaitedFor'
  BY <1>12 DEF TakeDoes, CloserTo
<1>13. ASSUME NEW c \in Closers, SecondDoes(c) PROVE WaitedFor'
  BY <1>13 DEF SecondDoes, CloserTo
<1>14. ASSUME NEW c \in Closers, StopTakenDoes(c) PROVE WaitedFor'
  BY <1>14 DEF StopTakenDoes, CloserTo, StopDoes, StoppingTo, ProcessTo
<1>15. ASSUME NEW f \in Forwards, ReapDoes(f) PROVE WaitedFor'
  BY <1>15 DEF ReapDoes, ProcessTo, WaiterTo
<1>16. ASSUME NEW f \in Forwards, ReportDoes(f) PROVE WaitedFor'
  BY <1>16 DEF ReportDoes, OpenerTo, WaiterTo
<1>17. ASSUME NEW f \in Forwards, ServesDoes(f) PROVE WaitedFor'
  BY <1>17 DEF ServesDoes, ProcessTo
<1>18. ASSUME NEW f \in Forwards, DiesDoes(f) PROVE WaitedFor'
  BY <1>18 DEF DiesDoes, ProcessTo
<1>19. ASSUME SignalDoes PROVE WaitedFor'
  BY <1>19 DEF SignalDoes
<1> HIDE DEF Stages, HeldOnce, Reaped, Chain, InCharge, Succeeds, Working, Holding, WaitedFor
<1> QED
  BY Effects, <1>1, <1>2, <1>3, <1>4, <1>5, <1>6, <1>7, <1>8, <1>9, <1>10,
     <1>11, <1>12, <1>13, <1>14, <1>15, <1>16, <1>17, <1>18, <1>19

\* Every step keeps NobodysKubectl.
LEMMA NobodysStep ==
  ASSUME TypeOK, Stages, Reaped, HeldOnce, Unstopped, WaitedFor, Chain, NobodysKubectl, [Next]_vars
  PROVE  NobodysKubectl'
<1> USE Names DEF Stages, HeldOnce, Reaped, Unstopped, WaitedFor, Chain,
      InCharge, Succeeds, Working, Holding, NobodysKubectl
<1>1. ASSUME NEW o \in Openers, StartFailsDoes(o) PROVE NobodysKubectl'
  BY <1>1 DEF StartFailsDoes, FailDoes, OpenerTo
<1>2. ASSUME NEW o \in Openers, NotAnnouncedDoes(o) PROVE NobodysKubectl'
  BY <1>2 DEF NotAnnouncedDoes, FailDoes, OpenerTo, ProcessTo
<1>3. ASSUME NEW o \in Openers, NEW f \in Forwards, StartDoes(o, f) PROVE NobodysKubectl'
  BY <1>3 DEF StartDoes, OpenerTo, ProcessTo
<1>4. ASSUME NEW o \in Openers, AnnouncedDoes(o) PROVE NobodysKubectl'
  BY <1>4 DEF AnnouncedDoes, OpenerTo, WaiterTo
<1>5. ASSUME NEW o \in Openers, PublishDoes(o) PROVE NobodysKubectl'
  <2>1. /\ opener[o] = "publish" /\ ~closed /\ ~closed' /\ stop' = opening[o] /\ opening[o] \in Forwards
        /\ \A p \in Openers: p # o => opening'[p] = opening[p]
        /\ UNCHANGED <<process, stopping, taken>>
    BY <1>5 DEF PublishDoes, OpenerTo
  <2> SUFFICES ASSUME NEW f \in Forwards, process[f] = "serving", stopping[f] = 0
               PROVE  stop' = f \/ \E p \in Openers: opening'[p] = f
    BY <2>1
  <2>2. CASE stop = f
    <3>1. waiter[f] = "wait" /\ opener[f] = "none"
      BY <2>2 DEF HeldOnce, Reaped, Stages, TypeOK
    <3>2. f \in Openers /\ f # o /\ InCharge(f) /\ InCharge(o)
      BY <2>1, <3>1 DEF InCharge, Working
    <3>3. opening[o] = f
      BY <2>1, <3>1, <3>2 DEF Chain, Succeeds
    <3> QED BY <2>1, <3>3
  <2>3. CASE \E p \in Openers: opening[p] = f
    BY <2>1, <2>3
  <2>4. CASE \E c \in Closers: taken[c] = f /\ closer[c] \in {"cancel", "stop"}
    BY <2>1, <2>4 DEF Stages
  <2> QED BY <2>2, <2>3, <2>4 DEF NobodysKubectl
<1>6. ASSUME NEW o \in Openers, RejectDoes(o) PROVE NobodysKubectl'
  BY <1>6 DEF RejectDoes, OpenerTo
<1>7. ASSUME NEW o \in Openers, DiscardDoes(o) PROVE NobodysKubectl'
  BY <1>7 DEF DiscardDoes, OpenerTo, StopDoes, StoppingTo, ProcessTo
<1>8. ASSUME NEW o \in Openers, DiscardedDoes(o) PROVE NobodysKubectl'
  BY <1>8 DEF DiscardedDoes, OpenerTo
<1>9. ASSUME NEW o \in Openers, PauseDoes(o) PROVE NobodysKubectl'
  BY <1>9 DEF PauseDoes, OpenerTo
<1>10. ASSUME NEW o \in Openers, DelayedDoes(o) PROVE NobodysKubectl'
  BY <1>10 DEF DelayedDoes, OpenerTo
<1>11. ASSUME NEW c \in Closers, CloseDoes(c) PROVE NobodysKubectl'
  BY <1>11 DEF CloseDoes, CloserTo
<1>12. ASSUME NEW c \in Closers, TakeDoes(c) PROVE NobodysKubectl'
  BY <1>12 DEF TakeDoes, CloserTo
<1>13. ASSUME NEW c \in Closers, SecondDoes(c) PROVE NobodysKubectl'
  BY <1>13 DEF SecondDoes, CloserTo
<1>14. ASSUME NEW c \in Closers, StopTakenDoes(c) PROVE NobodysKubectl'
  BY <1>14 DEF StopTakenDoes, CloserTo, StopDoes, StoppingTo, ProcessTo
<1>15. ASSUME NEW f \in Forwards, ReapDoes(f) PROVE NobodysKubectl'
  BY <1>15 DEF ReapDoes, ProcessTo, WaiterTo
<1>16. ASSUME NEW f \in Forwards, ReportDoes(f) PROVE NobodysKubectl'
  BY <1>16 DEF ReportDoes, OpenerTo, WaiterTo
<1>17. ASSUME NEW f \in Forwards, ServesDoes(f) PROVE NobodysKubectl'
  <2>1. /\ process[f] = "starting" /\ \A g \in Forwards: g # f => process'[g] = process[g]
        /\ UNCHANGED <<closed, stop, stopping, opening, closer, taken>>
    BY <1>17 DEF ServesDoes, ProcessTo
  <2>2. waiter[f] = "none"
    BY <2>1 DEF TypeOK
  <2>3. \E o \in Openers: opening[o] = f
    BY <2>1, <2>2
  <2> QED BY <2>1, <2>3
<1>18. ASSUME NEW f \in Forwards, DiesDoes(f) PROVE NobodysKubectl'
  BY <1>18 DEF DiesDoes, ProcessTo
<1>19. ASSUME SignalDoes PROVE NobodysKubectl'
  BY <1>19 DEF SignalDoes
<1> HIDE DEF Stages, HeldOnce, Reaped, Unstopped, WaitedFor, Chain,
      InCharge, Succeeds, Working, Holding, NobodysKubectl
<1> QED
  BY Effects, <1>1, <1>2, <1>3, <1>4, <1>5, <1>6, <1>7, <1>8, <1>9, <1>10,
     <1>11, <1>12, <1>13, <1>14, <1>15, <1>16, <1>17, <1>18, <1>19

\* Every step keeps Repair.
LEMMA RepairStep ==
  ASSUME TypeOK, Stages, Reaped, HeldOnce, Unstopped, WaitedFor, Chain, Repair, [Next]_vars
  PROVE  Repair'
<1> USE Names DEF InCharge, Working
<1>1. ASSUME NEW o \in Openers, StartFailsDoes(o) PROVE Repair'
  <2> SUFFICES ASSUME ~done', ~closed' PROVE Repaired'
    BY DEF Repair
  <2>1. ~done /\ ~closed
    BY <1>1 DEF StartFailsDoes, FailDoes, TypeOK
  <2>2. Repaired
    BY <2>1 DEF Repair
  <2> QED BY <1>1, <2>1, <2>2 DEF StartFailsDoes, FailDoes, OpenerTo, Repaired
<1>2. ASSUME NEW o \in Openers, NotAnnouncedDoes(o) PROVE Repair'
  <2> SUFFICES ASSUME ~done', ~closed' PROVE Repaired'
    BY DEF Repair
  <2>1. ~done /\ ~closed
    BY <1>2 DEF NotAnnouncedDoes, FailDoes, TypeOK
  <2>2. Repaired
    BY <2>1 DEF Repair
  <2> QED BY <1>2, <2>1, <2>2 DEF NotAnnouncedDoes, FailDoes, OpenerTo, ProcessTo, Repaired
<1>3. ASSUME NEW o \in Openers, NEW f \in Forwards, StartDoes(o, f) PROVE Repair'
  <2> SUFFICES ASSUME ~done', ~closed' PROVE Repaired'
    BY DEF Repair
  <2>1. ~done /\ ~closed
    BY <1>3 DEF StartDoes, TypeOK
  <2>2. Repaired
    BY <2>1 DEF Repair
  <2> QED BY <1>3, <2>1, <2>2 DEF StartDoes, OpenerTo, ProcessTo, Repaired
<1>4. ASSUME NEW o \in Openers, AnnouncedDoes(o) PROVE Repair'
  <2> SUFFICES ASSUME ~done', ~closed' PROVE Repaired'
    BY DEF Repair
  <2>1. ~done /\ ~closed
    BY <1>4 DEF AnnouncedDoes, TypeOK
  <2>2. Repaired
    BY <2>1 DEF Repair
  <2> QED BY <1>4, <2>1, <2>2 DEF AnnouncedDoes, OpenerTo, WaiterTo, Repaired
<1>5. ASSUME NEW o \in Openers, PublishDoes(o) PROVE Repair'
  <2> SUFFICES ASSUME ~done', ~closed' PROVE Repaired'
    BY DEF Repair
  <2>1. ~done /\ ~closed
    BY <1>5 DEF PublishDoes, TypeOK
  <2>2. Repaired
    BY <2>1 DEF Repair
  <2>3. opening[o] # o /\ \A p \in Openers: p # o /\ opener[p] = "publish" => opening[p] # o
    BY <1>5, <2>1 DEF PublishDoes, HeldOnce, Chain, Succeeds
  <2>4. /\ opener'[o] = "opened" /\ stop' = opening[o] /\ opener[o] = "publish"
        /\ \A p \in Openers: p # o => opener'[p] = opener[p] /\ opening'[p] = opening[p]
        /\ UNCHANGED waiter
    BY <1>5 DEF PublishDoes, OpenerTo
  <2>5. ASSUME NEW f \in Forwards, NEW p \in Openers, opener[p] = "publish", opening[p] = f
        PROVE  InCharge(f)' \/ opener'[f] = "gaveUp"
    <3>1. f # o
      BY <2>3, <2>5
    <3>2. InCharge(f) \/ opener[f] = "gaveUp"
      BY <2>2, <2>5 DEF Repaired
    <3> QED BY <2>4, <3>1, <3>2
  <2> SUFFICES ASSUME NEW f \in Forwards,
                      stop' = f \/ \E p \in Openers: opener'[p] = "publish" /\ opening'[p] = f
               PROVE  InCharge(f)' \/ opener'[f] = "gaveUp"
    BY DEF Repaired
  <2>6. CASE stop' = f
    BY <2>4, <2>5, <2>6 DEF PublishDoes
  <2>7. ASSUME NEW p \in Openers, opener'[p] = "publish", opening'[p] = f
        PROVE  InCharge(f)' \/ opener'[f] = "gaveUp"
    <3>1. p # o
      BY <2>4, <2>7
    <3>2. opener[p] = "publish" /\ opening[p] = f
      BY <2>4, <2>7, <3>1
    <3> QED BY <2>5, <2>7, <3>1, <3>2
  <2> QED BY <2>6, <2>7
<1>6. ASSUME NEW o \in Openers, RejectDoes(o) PROVE Repair'
  <2> SUFFICES ASSUME ~done', ~closed' PROVE Repaired'
    BY DEF Repair
  <2>1. ~done /\ ~closed
    BY <1>6 DEF RejectDoes, TypeOK
  <2>2. Repaired
    BY <2>1 DEF Repair
  <2> QED BY <1>6, <2>1, <2>2 DEF RejectDoes, OpenerTo, Repaired
<1>7. ASSUME NEW o \in Openers, DiscardDoes(o) PROVE Repair'
  <2> SUFFICES ASSUME ~done', ~closed' PROVE Repaired'
    BY DEF Repair
  <2>1. ~done /\ ~closed
    BY <1>7 DEF DiscardDoes, TypeOK
  <2>2. Repaired
    BY <2>1 DEF Repair
  <2> QED BY <1>7, <2>1, <2>2 DEF DiscardDoes, OpenerTo, StopDoes, StoppingTo, ProcessTo, Repaired
<1>8. ASSUME NEW o \in Openers, DiscardedDoes(o) PROVE Repair'
  <2> SUFFICES ASSUME ~done', ~closed' PROVE Repaired'
    BY DEF Repair
  <2>1. ~done /\ ~closed
    BY <1>8 DEF DiscardedDoes, TypeOK
  <2>2. Repaired
    BY <2>1 DEF Repair
  <2> QED BY <1>8, <2>1, <2>2 DEF DiscardedDoes, OpenerTo, Repaired
<1>9. ASSUME NEW o \in Openers, PauseDoes(o) PROVE Repair'
  <2> SUFFICES ASSUME ~done', ~closed' PROVE Repaired'
    BY DEF Repair
  <2>1. ~done /\ ~closed
    BY <1>9 DEF PauseDoes, TypeOK
  <2>2. Repaired
    BY <2>1 DEF Repair
  <2> QED BY <1>9, <2>1, <2>2 DEF PauseDoes, OpenerTo, Repaired
<1>10. ASSUME NEW o \in Openers, DelayedDoes(o) PROVE Repair'
  <2> SUFFICES ASSUME ~done', ~closed' PROVE Repaired'
    BY DEF Repair
  <2>1. ~done /\ ~closed
    BY <1>10 DEF DelayedDoes, TypeOK
  <2>2. Repaired
    BY <2>1 DEF Repair
  <2> QED BY <1>10, <2>1, <2>2 DEF DelayedDoes, OpenerTo, Repaired
<1>11. ASSUME NEW c \in Closers, CloseDoes(c) PROVE Repair'
  <2> SUFFICES ASSUME ~done', ~closed' PROVE Repaired'
    BY DEF Repair
  <2>1. ~done /\ ~closed
    BY <1>11 DEF CloseDoes, TypeOK
  <2>2. Repaired
    BY <2>1 DEF Repair
  <2> QED BY <1>11, <2>1, <2>2 DEF CloseDoes, CloserTo, Repaired
<1>12. ASSUME NEW c \in Closers, TakeDoes(c) PROVE Repair'
  <2> SUFFICES ASSUME ~done', ~closed' PROVE Repaired'
    BY DEF Repair
  <2>1. ~done /\ ~closed
    BY <1>12 DEF TakeDoes, TypeOK
  <2>2. Repaired
    BY <2>1 DEF Repair
  <2> QED BY <1>12, <2>1, <2>2 DEF TakeDoes, CloserTo, Repaired
<1>13. ASSUME NEW c \in Closers, SecondDoes(c) PROVE Repair'
  <2> SUFFICES ASSUME ~done', ~closed' PROVE Repaired'
    BY DEF Repair
  <2>1. ~done /\ ~closed
    BY <1>13 DEF SecondDoes, TypeOK
  <2>2. Repaired
    BY <2>1 DEF Repair
  <2> QED BY <1>13, <2>1, <2>2 DEF SecondDoes, CloserTo, Repaired
<1>14. ASSUME NEW c \in Closers, StopTakenDoes(c) PROVE Repair'
  <2> SUFFICES ASSUME ~done', ~closed' PROVE Repaired'
    BY DEF Repair
  <2>1. ~done /\ ~closed
    BY <1>14 DEF StopTakenDoes, TypeOK
  <2>2. Repaired
    BY <2>1 DEF Repair
  <2> QED BY <1>14, <2>1, <2>2 DEF StopTakenDoes, CloserTo, StopDoes, StoppingTo, ProcessTo, Repaired
<1>15. ASSUME NEW f \in Forwards, ReapDoes(f) PROVE Repair'
  <2> SUFFICES ASSUME ~done', ~closed' PROVE Repaired'
    BY DEF Repair
  <2>1. ~done /\ ~closed
    BY <1>15 DEF ReapDoes, TypeOK
  <2>2. Repaired
    BY <2>1 DEF Repair
  <2> QED BY <1>15, <2>1, <2>2 DEF ReapDoes, ProcessTo, WaiterTo, Repaired
<1>16. ASSUME NEW f \in Forwards, ReportDoes(f) PROVE Repair'
  <2> SUFFICES ASSUME ~done', ~closed' PROVE Repaired'
    BY DEF Repair
  <2>1. ~done /\ ~closed
    BY <1>16 DEF ReportDoes, TypeOK
  <2>2. Repaired
    BY <2>1 DEF Repair
  <2>3. stopping[f] = 0
    BY <1>16, <2>1 DEF ReportDoes, WaitedFor, Unstopped
  <2> QED BY <1>16, <2>2, <2>3 DEF ReportDoes, OpenerTo, WaiterTo, Repaired
<1>17. ASSUME NEW f \in Forwards, ServesDoes(f) PROVE Repair'
  <2> SUFFICES ASSUME ~done', ~closed' PROVE Repaired'
    BY DEF Repair
  <2>1. ~done /\ ~closed
    BY <1>17 DEF ServesDoes, TypeOK
  <2>2. Repaired
    BY <2>1 DEF Repair
  <2> QED BY <1>17, <2>1, <2>2 DEF ServesDoes, ProcessTo, Repaired
<1>18. ASSUME NEW f \in Forwards, DiesDoes(f) PROVE Repair'
  <2> SUFFICES ASSUME ~done', ~closed' PROVE Repaired'
    BY DEF Repair
  <2>1. ~done /\ ~closed
    BY <1>18 DEF DiesDoes, TypeOK
  <2>2. Repaired
    BY <2>1 DEF Repair
  <2> QED BY <1>18, <2>1, <2>2 DEF DiesDoes, ProcessTo, Repaired
<1>19. ASSUME SignalDoes PROVE Repair'
  <2> SUFFICES ASSUME ~done', ~closed' PROVE Repaired'
    BY DEF Repair
  <2>1. ~done /\ ~closed
    BY <1>19 DEF SignalDoes, TypeOK
  <2>2. Repaired
    BY <2>1 DEF Repair
  <2> QED BY <1>19, <2>1, <2>2 DEF SignalDoes, Repaired
<1> HIDE DEF InCharge, Working
<1> QED
  BY Effects, <1>1, <1>2, <1>3, <1>4, <1>5, <1>6, <1>7, <1>8, <1>9, <1>10,
     <1>11, <1>12, <1>13, <1>14, <1>15, <1>16, <1>17, <1>18, <1>19

-----------------------------------------------------------------------------
(* The theorems.                                                           *)

\* The invariants hold initially: nothing is open and nobody is in charge but
\* the caller of newTunnel.
LEMMA IInvInit == Init => IInv
<1> SUFFICES ASSUME Init PROVE IInv
  OBVIOUS
<1> USE Names DEF Init
<1>1. TypeOK /\ AttemptsLeft
  BY TypeInit
<1>2. Stages
  BY DEF Stages, Holding
<1>3. Reaped /\ StoppedOnce /\ NobodysKubectl
  BY DEF Reaped, StoppedOnce, NobodysKubectl
<1>4. HeldOnce
  BY DEF HeldOnce
<1>5. Unstopped
  BY DEF Unstopped
<1>6. Chain /\ WaitedFor
  BY DEF Chain, WaitedFor, InCharge, Working
<1>7. Repair
  BY DEF Repair, Repaired
<1> QED BY <1>1, <1>2, <1>3, <1>4, <1>5, <1>6, <1>7 DEF IInv

\* Every step keeps them.
LEMMA IInvStep == IInv /\ [Next]_vars => IInv'
<1> SUFFICES ASSUME IInv, [Next]_vars PROVE IInv'
  OBVIOUS
<1> USE DEF IInv
<1>1. TypeOK' /\ AttemptsLeft'
  BY TypeStep
<1>2. Stages' /\ Reaped' /\ HeldOnce' /\ Unstopped' /\ StoppedOnce'
  BY StagesStep, ReapedStep, HeldOnceStep, UnstoppedStep, StoppedOnceStep
<1>3. Chain' /\ WaitedFor' /\ NobodysKubectl' /\ Repair'
  BY ChainStep, WaitedForStep, NobodysStep, RepairStep
<1> QED BY <1>1, <1>2, <1>3

\* The inductive invariant.
LEMMA Invariance == Spec => []IInv
BY IInvInit, IInvStep, PTL DEF Spec

\* TypeOK: every goroutine of the tunnel stays in its stages, and the loop of
\* reopen within tunnelReopenAttempts.
THEOREM TypeCorrect == Spec => []TypeOK
<1>1. IInv => TypeOK
  BY DEF IInv
<1> QED BY <1>1, Invariance, PTL

\* StoppedOnce: the stopping channel of a forward is closed at most once, by
\* Close, called twice, or by open.
THEOREM StopsOnce == Spec => []StoppedOnce
<1>1. IInv => StoppedOnce
  BY DEF IInv
<1> QED BY <1>1, Invariance, PTL

\* NobodysKubectl: a kubectl that serves is always in somebody's hands, also
\* when a reopen meets Close.
THEOREM SomebodyStops == Spec => []NobodysKubectl
<1>1. IInv => NobodysKubectl
  BY DEF IInv
<1> QED BY <1>1, Invariance, PTL

\* StaysOpen: while the tunnel is open and its context lives, its published
\* forward serves, or its death is being reported or repaired, or repair was
\* given up after all attempts.
THEOREM TunnelStaysOpen == Spec => []StaysOpen
<1>1. IInv => StaysOpen
  <2> SUFFICES ASSUME IInv, stop # NoForward, ~done
               PROVE  \/ waiter[stop] \in {"wait", "report"}
                      \/ \E o \in Forwards: opener[o] = "gaveUp" \/ ~Resting(o)
    BY DEF StaysOpen
  <2>1. stop \in Forwards /\ ~closed
    BY DEF IInv, TypeOK, Stages
  <2>2. InCharge(stop) \/ opener[stop] = "gaveUp"
    BY <2>1 DEF IInv, Repair, Repaired
  <2>3. opener[stop] \in Working => ~Resting(stop)
    BY DEF Working, Resting
  <2> QED BY <2>1, <2>2, <2>3 DEF InCharge
<1> QED BY <1>1, Invariance, PTL

=============================================================================
