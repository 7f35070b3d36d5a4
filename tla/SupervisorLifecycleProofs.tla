---------------------- MODULE SupervisorLifecycleProofs ----------------------
(***************************************************************************)
(* What the supervisor promises a daemon that calls it from one goroutine  *)
(* at a time: it implements ServiceLifecycle, a Stop leaves no process, a  *)
(* successful start leaves the service running, and a service shown as     *)
(* running has listened.                                                   *)
(***************************************************************************)
EXTENDS SupervisorOwnershipProofs

(* What ServiceLifecycle sees of the supervisor.                           *)
Shown == [id \in Ids |-> procs[id].state]
Live == {id \in Ids : \E g \in Runs : home[g] = id /\ Alive(g)}

(***************************************************************************)
(* What each step that writes a record does, field by field                *)
(***************************************************************************)
LEMMA StartNewDoes ==
  ASSUME TypeInv, NEW c \in Callers, StartNew(c)
  PROVE  /\ pc[c] = "start" /\ ~closing /\ target[c] \in Ids /\ gen + 1 \in Runs
         /\ procs[target[c]].state \notin {"running", "starting"}
         /\ Wrote(target[c], gen + 1, gen + 1, "starting", FALSE, "none")
         /\ pc'[c] = "portWait" /\ mine'[c] = gen + 1
         /\ home'[gen + 1] = target[c] /\ \A g \in Runs \ {gen + 1} : home'[g] = home[g]
         /\ UNCHANGED <<closing, op, target, proc, taken>>
<1>1. /\ pc[c] = "start" /\ ~closing /\ target[c] \in Ids /\ gen + 1 \in Runs
      /\ procs[target[c]].state \notin {"running", "starting"}
  BY CallerTypes DEF StartNew
<1>2. Wrote(target[c], gen + 1, gen + 1, "starting", FALSE, "none")
  BY ZenonT(60), <1>1, StartingWrite DEF StartNew, Wrote, TypeInv, TypeOK
<1>3. /\ pc'[c] = "portWait" /\ mine'[c] = gen + 1
      /\ home'[gen + 1] = target[c] /\ \A g \in Runs \ {gen + 1} : home'[g] = home[g]
      /\ UNCHANGED <<closing, op, target, proc, taken>>
  BY <1>1 DEF StartNew, Goto, TypeInv, TypeOK
<1> QED BY <1>1, <1>2, <1>3

LEMMA AdoptDoes ==
  ASSUME TypeInv, NEW c \in Callers, Adopt(c)
  PROVE  LET m == procs[target[c]] IN
         /\ pc[c] = "adopt" /\ target[c] \in Ids
         /\ Wrote(target[c], m.run, m.gen, m.state, TRUE, m.err)
         /\ pc'[c] = "bindWait"
         /\ UNCHANGED <<closing, op, target, mine, proc, home, taken>>
<1>1. pc[c] = "adopt" /\ target[c] \in Ids /\ procs[target[c]] \in Managed
  BY CallerTypes DEF Adopt
<1>2. LET m == procs[target[c]] IN Wrote(target[c], m.run, m.gen, m.state, TRUE, m.err)
  BY <1>1, HandleWrite DEF Adopt, Wrote, TypeInv, TypeOK
<1>3. pc'[c] = "bindWait" /\ UNCHANGED <<closing, op, target, mine, proc, home, taken>>
  BY DEF Adopt, Goto, callVars, osVars, TypeInv, TypeOK
<1> QED BY <1>1, <1>2, <1>3

LEMMA FailDoes ==
  ASSUME TypeInv, NEW c \in Callers, Fail(c)
  PROVE  LET m == procs[target[c]] IN
         /\ pc[c] = "fail" /\ target[c] \in Ids
         /\ m.gen = mine[c] => Wrote(target[c], m.run, m.gen, "failed", FALSE, "start")
         /\ Return(c, "error")
         /\ UNCHANGED <<closing, proc, home, taken>>
<1>1. pc[c] = "fail" /\ target[c] \in Ids /\ procs[target[c]] \in Managed
  BY CallerTypes DEF Fail
<1>2. ASSUME procs[target[c]].gen = mine[c]
      PROVE  LET m == procs[target[c]] IN Wrote(target[c], m.run, m.gen, "failed", FALSE, "start")
  <2>1. procs' = [procs EXCEPT ![target[c]] = Failed(@, "start")]
    BY <1>2 DEF Fail, Known
  <2>2. "start" \in Errors BY DEF Errors
  <2>3. procs \in [Ids -> Managed] BY DEF TypeInv, TypeOK
  <2> QED BY <1>1, <2>1, <2>2, <2>3, FailedWrite DEF Wrote
<1>3. Return(c, "error") /\ UNCHANGED <<closing, proc, home, taken>>
  BY DEF Fail, osVars
<1> QED BY <1>1, <1>2, <1>3

LEMMA ConfirmDoes ==
  ASSUME TypeInv, NEW c \in Callers, Confirm(c)
  PROVE  LET m == procs[target[c]] IN
         /\ pc[c] = "confirm" /\ target[c] \in Ids /\ m.state \notin {"failed", "stopped"}
         /\ m.run = mine[c] /\ m.gen = mine[c]
         /\ Wrote(target[c], m.run, m.gen, "running", m.handle, "none")
         /\ Return(c, "ok")
         /\ UNCHANGED <<closing, proc, home, taken>>
<1>1. /\ pc[c] = "confirm" /\ target[c] \in Ids /\ procs[target[c]] \in Managed
      /\ Known(c) = procs[target[c]]
  BY CallerTypes DEF Confirm
<1>2. LET m == procs[target[c]] IN Wrote(target[c], m.run, m.gen, "running", m.handle, "none")
  BY <1>1, RunningWrite DEF Confirm, Wrote, TypeInv, TypeOK
<1>3. LET m == procs[target[c]] IN
      /\ m.state \notin {"failed", "stopped"} /\ m.run = mine[c] /\ m.gen = mine[c]
      /\ Return(c, "ok") /\ UNCHANGED <<closing, proc, home, taken>>
  BY <1>1 DEF Confirm, Current, osVars
<1> QED BY <1>1, <1>2, <1>3

LEMMA BeginStopDoes ==
  ASSUME TypeInv, NEW c \in Callers, BeginStop(c)
  PROVE  LET m == procs[target[c]] IN
         /\ pc[c] = "stop" /\ target[c] \in Ids
         /\ m.handle /\ m.state \notin {"stopped", "stopping"}
         /\ Wrote(target[c], m.run, m.gen, "stopping", m.handle, m.err)
         /\ pc'[c] = "terminate" /\ mine'[c] = m.run
         /\ UNCHANGED <<closing, op, target, proc, home, taken>>
<1>1. /\ pc[c] = "stop" /\ target[c] \in Ids /\ procs[target[c]] \in Managed
      /\ Known(c) = procs[target[c]]
  BY CallerTypes DEF BeginStop
<1>2. LET m == procs[target[c]] IN Wrote(target[c], m.run, m.gen, "stopping", m.handle, m.err)
  BY <1>1, StoppingWrite DEF BeginStop, Wrote, TypeInv, TypeOK
<1>3. LET m == procs[target[c]] IN
      /\ m.handle /\ m.state \notin {"stopped", "stopping"}
      /\ pc'[c] = "terminate" /\ mine'[c] = m.run
      /\ UNCHANGED <<closing, op, target, proc, home, taken>>
  BY <1>1 DEF BeginStop, Goto, osVars, TypeInv, TypeOK
<1> QED BY <1>1, <1>2, <1>3

LEMMA EndStopDoes ==
  ASSUME TypeInv, NEW c \in Callers, EndStop(c)
  PROVE  LET m == procs[target[c]] IN
         /\ pc[c] \in {"released", "unreleased"} /\ target[c] \in Ids
         /\ m.run = mine[c] /\ m.gen = seen[c]
              => Wrote(target[c], m.run, m.gen, "stopped", FALSE, "none")
         /\ AfterStop(c, "ok") \/ AfterStop(c, "error")
         /\ UNCHANGED <<closing, proc, home, taken>>
<1>1. /\ pc[c] \in {"released", "unreleased"} /\ target[c] \in Ids
      /\ procs[target[c]] \in Managed /\ Known(c) = procs[target[c]]
  BY CallerTypes DEF EndStop
<1>2. ASSUME procs[target[c]].run = mine[c], procs[target[c]].gen = seen[c]
      PROVE  LET m == procs[target[c]] IN Wrote(target[c], m.run, m.gen, "stopped", FALSE, "none")
  <2>1. procs' = [procs EXCEPT ![target[c]] = Stopped(@)]
    BY <1>1, <1>2 DEF EndStop
  <2> QED BY <1>1, <2>1, StoppedWrite DEF Wrote, TypeInv, TypeOK
<1>3. /\ AfterStop(c, "ok") \/ AfterStop(c, "error")
      /\ UNCHANGED <<closing, proc, home, taken>>
  BY DEF EndStop, osVars
<1> QED BY <1>1, <1>2, <1>3

LEMMA WatchDoes ==
  ASSUME TypeInv, OwnershipInv, NEW g \in Runs, Watch(g)
  PROVE  LET m == procs[home[g]] IN
         /\ home[g] \in Ids /\ ~Alive(g)
         /\ \/ procs' = procs
            \/ /\ m.gen = g /\ m.state \notin {"stopping", "stopped"}
               /\ Wrote(home[g], m.run, m.gen, "failed", FALSE, procs'[home[g]].err)
         /\ UNCHANGED <<closing, pc, op, target, mine, proc, home, taken>>
<1>1. home[g] \in Ids /\ ~Alive(g)
  BY DEF Watch, OwnershipInv, FreshOK
<1>2. procs \in [Ids -> Managed] /\ procs[home[g]] \in Managed
  BY <1>1 DEF TypeInv, TypeOK
<1>3. CASE procs[home[g]].gen # g \/ procs[home[g]].state \in {"stopping", "stopped"}
  <2>1. procs' = procs
    BY <1>3 DEF Watch
  <2>2. UNCHANGED <<closing, pc, op, target, mine, proc, home, taken>>
    BY DEF Watch, callVars, osVars
  <2> QED BY <1>1, <2>1, <2>2
<1>4. CASE ~(procs[home[g]].gen # g \/ procs[home[g]].state \in {"stopping", "stopped"})
  <2>2. FALSE \in BOOLEAN /\ "exit" \in Errors
    BY DEF Errors
  <2>3. LET m == procs[home[g]] IN
        Wrote(home[g], m.run, m.gen, "failed", FALSE, procs'[home[g]].err)
    <3>1. CASE procs[home[g]].state = "failed" /\ procs[home[g]].err # "none"
      <4>1. procs' = [procs EXCEPT ![home[g]] = WithHandle(@, FALSE)]
        BY <1>4, <3>1 DEF Watch
      <4> QED BY <1>1, <1>2, <2>2, <3>1, <4>1, HandleWrite DEF Wrote
    <3>2. CASE ~(procs[home[g]].state = "failed" /\ procs[home[g]].err # "none")
      <4>1. procs' = [procs EXCEPT ![home[g]] = Failed(@, "exit")]
        BY <1>4, <3>2 DEF Watch
      <4> QED BY <1>1, <1>2, <2>2, <4>1, FailedWrite DEF Wrote
    <3> QED BY <3>1, <3>2
  <2>4. UNCHANGED <<closing, pc, op, target, mine, proc, home, taken>>
    BY DEF Watch, callVars, osVars
  <2> QED BY <1>1, <1>4, <2>3, <2>4
<1> QED BY <1>3, <1>4

(***************************************************************************)
(* One caller: what it finds where it stands                               *)
(***************************************************************************)
LEMMA SoloFacts ==
  ASSUME NEW c, Callers = {c}, OneCallerInv
  PROVE  c \in Callers /\ CallOK(c) /\ Undisturbed(c) /\ SettledOK(c)
BY DEF OneCallerInv

(* The invariant follows from what a step leaves of the caller's place and *)
(* of the states, when only the record of one ID is written.               *)
LEMMA OneCallerStep ==
  ASSUME NEW c, Callers = {c}, CallOK(c)', Undisturbed(c)', SettledOK(c)'
  PROVE  OneCallerInv'
BY DEF OneCallerInv

LEMMA StartStepSolo ==
  ASSUME NEW c, Callers = {c}, TypeInv, OwnershipInv, OneCallerInv, StartStep(c)
  PROVE  OneCallerInv'
<1>1. c \in Callers /\ CallOK(c) /\ Undisturbed(c) /\ SettledOK(c)
  BY SoloFacts
<1>2. ASSUME NEW r, Return(c, r),
             \A id \in Ids : /\ procs'[id].state # "starting"
                             /\ procs'[id].state = "absent" => procs'[id].gen = 0
      PROVE  OneCallerInv'
  <2>1. pc'[c] = "idle"
    BY <1>1, <1>2, ReturnLeaves
  <2>2. CallOK(c)' /\ Undisturbed(c)'
    BY <2>1 DEF CallOK, Undisturbed, StartPhase, StopPhase, StartLabels
  <2>3. SettledOK(c)'
    BY <1>2 DEF SettledOK
  <2> QED BY <2>2, <2>3, OneCallerStep
<1>3. CASE StartRefused(c) \/ StartAlready(c)
  <2>1. (\E r : Return(c, r)) /\ procs' = procs /\ pc[c] = "start"
    BY <1>3 DEF StartRefused, StartAlready, supVars
  <2>2. \A id \in Ids : /\ procs'[id].state # "starting"
                        /\ procs'[id].state = "absent" => procs'[id].gen = 0
    BY <1>1, <2>1 DEF SettledOK, StartPhase
  <2> QED BY <1>2, <2>1, <2>2
<1>4. CASE CalledOff(c) \/ AdoptCalledOff(c) \/ Discarded(c)
  <2>1. /\ pc[c] \in {"check", "adopt", "discard"}
        /\ closing \/ ~Current(c) \/ pc[c] = "discard"
    BY <1>4 DEF CalledOff, AdoptCalledOff, Discarded
  <2> QED BY <1>1, <2>1 DEF Undisturbed, StartPhase, StartLabels
<1>5. CASE \/ PortWaitDone(c) \/ NotCalledOff(c) \/ Spawn(c) \/ SpawnFails(c)
           \/ BindWaitDone(c) \/ GaveUp(c)
  <2>1. /\ pc[c] \in StartPhase /\ pc'[c] \in StartPhase \ {"discard"}
        /\ UNCHANGED <<procs, closing, op, target, mine>>
    BY <1>5 DEF PortWaitDone, NotCalledOff, Spawn, SpawnFails, BindWaitDone, GaveUp, Goto,
                supVars, callVars, StartPhase, StartLabels, TypeInv, TypeOK
  <2>2. pc[c] \in StartLabels /\ pc'[c] \notin StopPhase \cup {"close", "snapshot", "next"}
    BY <2>1 DEF StartPhase, StartLabels, StopPhase
  <2>3. CallOK(c)'
    BY <1>1, <2>1, <2>2 DEF CallOK
  <2>4. Undisturbed(c)'
    BY <1>1, <2>1, <2>2 DEF Undisturbed, Current, Known
  <2>5. SettledOK(c)'
    BY <1>1, <2>1 DEF SettledOK
  <2> QED BY <2>3, <2>4, <2>5, OneCallerStep
<1>6. CASE StartNew(c)
  <2>1. /\ pc[c] = "start" /\ ~closing /\ target[c] \in Ids
        /\ Wrote(target[c], gen + 1, gen + 1, "starting", FALSE, "none")
        /\ pc'[c] = "portWait" /\ mine'[c] = gen + 1
        /\ UNCHANGED <<closing, op, target>>
    BY <1>1, <1>6, StartNewDoes
  <2>2. CallOK(c)'
    BY <1>1, <2>1 DEF CallOK, StartLabels
  <2>3. Undisturbed(c)'
    BY <2>1 DEF Undisturbed, Current, Known, Wrote, StopPhase
  <2>4. SettledOK(c)'
    BY <1>1, <2>1 DEF SettledOK, Wrote, StartPhase, StartLabels
  <2> QED BY <2>2, <2>3, <2>4, OneCallerStep
<1>7. CASE Adopt(c)
  <2> DEFINE m == procs[target[c]]
  <2>1. /\ pc[c] = "adopt" /\ target[c] \in Ids
        /\ Wrote(target[c], m.run, m.gen, m.state, TRUE, m.err)
        /\ pc'[c] = "bindWait"
        /\ UNCHANGED <<closing, op, target, mine>>
    BY <1>1, <1>7, AdoptDoes
  <2>2. CallOK(c)'
    BY <1>1, <2>1 DEF CallOK, StartLabels
  <2>3. Undisturbed(c)'
    BY <1>1, <2>1 DEF Undisturbed, Current, Known, Wrote, StartPhase, StartLabels, StopPhase
  <2>4. SettledOK(c)'
    BY <1>1, <2>1 DEF SettledOK, Wrote, StartPhase, StartLabels
  <2> QED BY <2>2, <2>3, <2>4, OneCallerStep
<1>8. CASE Fail(c) \/ Confirm(c) \/ ConfirmTooLate(c)
  <2>1. pc[c] \in StartPhase
    BY <1>8 DEF Fail, Confirm, ConfirmTooLate, StartPhase, StartLabels
  <2>2. /\ target[c] \in Ids /\ Known(c) = procs[target[c]] /\ Current(c)
        /\ \A id \in Ids \ {target[c]} : procs[id].state # "starting"
    BY <1>1, <2>1, CallerTypes DEF Undisturbed, SettledOK, StartPhase, StartLabels
  <2>3. (\E r : Return(c, r)) /\ procs'[target[c]].state \in {"failed", "running", "stopped"}
        /\ \A id \in Ids \ {target[c]} : procs'[id] = procs[id]
    <3>1. CASE Fail(c)
      BY <1>1, <2>2, <3>1, FailDoes DEF Current, Wrote
    <3>2. CASE Confirm(c)
      BY <1>1, <3>2, ConfirmDoes DEF Wrote
    <3>3. CASE ConfirmTooLate(c)
      BY <2>2, <3>3 DEF ConfirmTooLate, supVars
    <3> QED BY <1>8, <3>1, <3>2, <3>3
  <2>4. \A id \in Ids : /\ procs'[id].state # "starting"
                        /\ procs'[id].state = "absent" => procs'[id].gen = 0
    BY <1>1, <2>2, <2>3 DEF SettledOK
  <2> QED BY <1>2, <2>3, <2>4
<1> QED BY <1>3, <1>4, <1>5, <1>6, <1>7, <1>8 DEF StartStep

LEMMA StopStepSolo ==
  ASSUME NEW c, Callers = {c}, TypeInv, OwnershipInv, OneCallerInv, StopStep(c)
  PROVE  OneCallerInv'
<1>1. c \in Callers /\ CallOK(c) /\ Undisturbed(c) /\ SettledOK(c)
  BY SoloFacts
<1>2. ASSUME NEW r, AfterStop(c, r),
             \A id \in Ids : /\ procs'[id].state # "starting"
                             /\ procs'[id].state = "absent" => procs'[id].gen = 0
      PROVE  OneCallerInv'
  <2>1. /\ pc'[c] \in {"idle", "start", "next"}
        /\ pc'[c] = "start" => op'[c] = "restart"
        /\ pc'[c] = "next" => op'[c] \in {"stopAll", "shutdown"}
    BY <1>1, <1>2 DEF AfterStop, Return, Goto, waiting, TypeInv, TypeOK
  <2>2. CallOK(c)' /\ Undisturbed(c)'
    BY <2>1 DEF CallOK, Undisturbed, StartPhase, StopPhase, StartLabels
  <2>3. SettledOK(c)'
    BY <1>2 DEF SettledOK
  <2> QED BY <2>2, <2>3, OneCallerStep
<1>3. CASE CallOff(c)
  <2>1. pc[c] = "stop" /\ target[c] \in Ids /\ procs[target[c]].state = "starting"
    BY <1>1, <1>3, CallerTypes DEF CallOff
  <2> QED BY <1>1, <2>1 DEF SettledOK, StartPhase, StartLabels
<1>4. CASE NothingToStop(c)
  <2>1. pc[c] = "stop" /\ procs' = procs /\ AfterStop(c, "ok")
    BY <1>4 DEF NothingToStop, supVars
  <2>2. \A id \in Ids : /\ procs'[id].state # "starting"
                        /\ procs'[id].state = "absent" => procs'[id].gen = 0
    BY <1>1, <2>1 DEF SettledOK, StartPhase, StartLabels
  <2> QED BY <1>2, <2>1, <2>2
<1>5. CASE BeginStop(c)
  <2> DEFINE m == procs[target[c]]
  <2>1. /\ pc[c] = "stop" /\ target[c] \in Ids /\ m.handle
        /\ Wrote(target[c], m.run, m.gen, "stopping", m.handle, m.err)
        /\ pc'[c] = "terminate" /\ mine'[c] = m.run
        /\ UNCHANGED <<closing, op, target>>
    BY <1>1, <1>5, BeginStopDoes
  <2>2. m.gen = m.run
    BY <2>1 DEF OwnershipInv, RecordsOK
  <2>3. CallOK(c)'
    BY <2>1 DEF CallOK, StartLabels
  <2>4. Undisturbed(c)'
    BY <2>1, <2>2 DEF Undisturbed, Current, Known, Wrote, StartPhase, StartLabels
  <2>5. SettledOK(c)'
    BY <1>1, <2>1 DEF SettledOK, Wrote, StartPhase, StartLabels
  <2> QED BY <2>3, <2>4, <2>5, OneCallerStep
<1>6. CASE EndStop(c)
  <2> DEFINE m == procs[target[c]]
  <2>1. /\ pc[c] \in {"released", "unreleased"} /\ target[c] \in Ids
        /\ m.run = mine[c] /\ m.gen = seen[c]
             => Wrote(target[c], m.run, m.gen, "stopped", FALSE, "none")
        /\ \E r : AfterStop(c, r)
    BY <1>1, <1>6, EndStopDoes
  <2>2. OwnRun(c)
    BY <1>1 DEF OwnershipInv, OwnRunOK
  <2>3. m.run = mine[c] /\ m.gen = mine[c] /\ seen[c] = mine[c]
    BY <1>1, <2>1, <2>2 DEF Undisturbed, Current, Known, OwnRun, StopPhase
  <2>4. \A id \in Ids : /\ procs'[id].state # "starting"
                        /\ procs'[id].state = "absent" => procs'[id].gen = 0
    BY <1>1, <2>1, <2>3 DEF SettledOK, Wrote, StartPhase, StartLabels
  <2> QED BY <1>2, <2>1, <2>4
<1>7. CASE Kill(c) \/ Terminated(c) \/ ReleaseWaitDone(c)
  <2>1. /\ UNCHANGED <<procs, closing, op, target, mine>>
        /\ pc'[c] = pc[c] \/ (pc[c] \in StopPhase /\ pc'[c] \in StopPhase)
    BY <1>7 DEF Kill, Terminated, ReleaseWaitDone, Goto, supVars, callVars, StopPhase,
                TypeInv, TypeOK
  <2>2. CallOK(c)' /\ Undisturbed(c)' /\ SettledOK(c)'
    BY <1>1, <2>1 DEF CallOK, Undisturbed, SettledOK, Current, Known, StartPhase, StartLabels,
                      StopPhase
  <2> QED BY <2>2, OneCallerStep
<1>8. CASE Close(c) \/ Snapshot(c) \/ StopNext(c) \/ StoppedAll(c)
  <2>1. /\ pc[c] \in {"close", "snapshot", "next"} /\ procs' = procs
        /\ \/ pc'[c] \in {"snapshot", "next", "stop"} /\ op' = op
           \/ pc'[c] = "idle"
    BY <1>8 DEF Close, Snapshot, StopNext, StoppedAll, Return, Goto, callVars, supVars,
                TypeInv, TypeOK
  <2>2. CallOK(c)'
    BY <1>1, <2>1 DEF CallOK, StartLabels
  <2>3. Undisturbed(c)'
    BY <2>1 DEF Undisturbed, StartPhase, StartLabels, StopPhase
  <2>4. SettledOK(c)'
    BY <1>1, <2>1 DEF SettledOK, StartPhase, StartLabels
  <2> QED BY <2>2, <2>3, <2>4, OneCallerStep
<1> QED BY <1>3, <1>4, <1>5, <1>6, <1>7, <1>8 DEF StopStep

LEMMA OtherStepSolo ==
  ASSUME NEW c, Callers = {c}, TypeInv, OwnershipInv, OneCallerInv,
         \/ Calls(c)
         \/ \E g \in Runs : Watch(g)
         \/ Environment
         \/ UNCHANGED vars
  PROVE  OneCallerInv'
<1>1. c \in Callers /\ CallOK(c) /\ Undisturbed(c) /\ SettledOK(c)
  BY SoloFacts
<1>2. CASE Calls(c)
  <2>1. /\ pc[c] = "idle" /\ procs' = procs
        /\ \/ pc'[c] = "start" /\ op'[c] = "start"
           \/ pc'[c] = "stop"
           \/ pc'[c] = "snapshot" /\ op'[c] = "stopAll"
           \/ pc'[c] = "close" /\ op'[c] = "shutdown"
    BY <1>2 DEF Calls, CallStart, CallStop, CallStopAll, Goto, supVars, TypeInv, TypeOK
  <2>2. CallOK(c)' /\ Undisturbed(c)'
    BY <2>1 DEF CallOK, Undisturbed, StartPhase, StartLabels, StopPhase
  <2>3. SettledOK(c)'
    BY <1>1, <2>1 DEF SettledOK, StartPhase, StartLabels
  <2> QED BY <2>2, <2>3, OneCallerStep
<1>3. ASSUME NEW g \in Runs, Watch(g) PROVE OneCallerInv'
  <2> DEFINE m == procs[home[g]]
  <2>1. /\ home[g] \in Ids
        /\ \/ procs' = procs
           \/ /\ m.gen = g /\ m.state \notin {"stopping", "stopped"}
              /\ Wrote(home[g], m.run, m.gen, "failed", FALSE, procs'[home[g]].err)
        /\ UNCHANGED <<closing, pc, op, target, mine>>
    BY <1>3, WatchDoes
  <2>2. \A id \in Ids : /\ procs'[id].run = procs[id].run /\ procs'[id].gen = procs[id].gen
                        /\ \/ procs'[id].state = procs[id].state
                           \/ procs[id].state # "stopping" /\ procs'[id].state = "failed"
    BY <2>1 DEF Wrote
  <2>3. pc[c] \in StartPhase \cup StopPhase => target[c] \in Ids
    BY <1>1, CallerTypes DEF StartPhase, StartLabels, StopPhase
  <2>4. CallOK(c)'
    BY <1>1, <2>1 DEF CallOK
  <2>5. Undisturbed(c)'
    BY <1>1, <2>1, <2>2, <2>3 DEF Undisturbed, Current, Known
  <2>6. SettledOK(c)'
    BY <1>1, <2>1, <2>2 DEF SettledOK
  <2> QED BY <2>4, <2>5, <2>6, OneCallerStep
<1>4. ASSUME UNCHANGED <<procs, closing, pc, op, target, mine>> PROVE OneCallerInv'
  <2>1. CallOK(c)' /\ Undisturbed(c)' /\ SettledOK(c)'
    BY <1>1, <1>4 DEF CallOK, Undisturbed, SettledOK, Current, Known
  <2> QED BY <2>1, OneCallerStep
<1>5. CASE Environment \/ UNCHANGED vars
  <2>1. UNCHANGED <<procs, closing, pc, op, target, mine>>
    BY <1>5 DEF Environment, ProcessListens, ProcessExits, SocketReleased, OtherProgram, vars,
                supVars, callVars
  <2> QED BY <1>4, <2>1
<1> QED BY <1>2, <1>3, <1>5

LEMMA OneCallerInductive ==
  ASSUME NEW c, Callers = {c}
  PROVE  TypeInv /\ OwnershipInv /\ OneCallerInv /\ [Next]_vars => OneCallerInv'
BY StartStepSolo, StopStepSolo, OtherStepSolo DEF Next, Step

(* With one caller, the strengthened invariant holds.                      *)
LEMMA OneCallerHolds ==
  ASSUME NEW CONSTANT c, Callers = {c}
  PROVE  Spec => [](TypeInv /\ OwnershipInv /\ OneCallerInv)
<1>1. Init => OneCallerInv
  BY DEF Init, OneCallerInv, CallOK, Undisturbed, SettledOK, StartPhase, StartLabels, StopPhase,
         NotManaged
<1> QED BY <1>1, OneCallerInductive, OwnershipHolds, PTL DEF Spec

(***************************************************************************)
(* One caller: what lives                                                  *)
(***************************************************************************)
(* A process that lives is the run its record stands for.                  *)
LEMMA AliveIsCurrent ==
  ASSUME NEW c, Callers = {c}, TypeInv, OwnershipInv, OneCallerInv, NEW g \in Runs, Alive(g)
  PROVE  home[g] \in Ids /\ procs[home[g]].run = g
<1>1. c \in Callers /\ Undisturbed(c)
  BY SoloFacts
<1>2. home[g] \in Ids /\ (Held(g) \/ Attended(g))
  BY DEF OwnershipInv, FreshOK, NoUntrackedProcess
<1>3. CASE Attended(g)
  <2>1. mine[c] = g /\ pc[c] \in StartPhase \cup StopPhase
    BY <1>3 DEF Attended, StartPhase, StartLabels, StopPhase
  <2>2. home[g] = target[c]
    BY <1>1, <2>1 DEF OwnershipInv, OwnRunOK, OwnRun
  <2> QED BY <1>1, <1>2, <2>1, <2>2 DEF Undisturbed, Current, Known
<1> QED BY <1>2, <1>3 DEF Held

(* ... and its record holds it, unless the caller is dealing with it.      *)
LEMMA AliveIsHeld ==
  ASSUME NEW c, Callers = {c}, TypeInv, OwnershipInv, OneCallerInv, NEW g \in Runs, Alive(g),
         pc[c] \notin Dealing
  PROVE  procs[home[g]].handle
BY DEF OwnershipInv, NoUntrackedProcess, Held, Attended, Dealing

(* Nothing lives for an ID whose record is not held, when the caller is    *)
(* elsewhere; nor for one that the caller's own, dead run stands for.      *)
LEMMA NothingLives ==
  ASSUME NEW c, Callers = {c}, TypeInv, OwnershipInv, OneCallerInv, NEW id \in Ids,
         \/ pc[c] \notin Dealing /\ ~procs[id].handle
         \/ procs[id].run \in Runs => ~Alive(procs[id].run)
  PROVE  \A g \in Runs : home[g] = id => ~Alive(g)
BY AliveIsCurrent, AliveIsHeld

(* A service is stopping only under the caller.                            *)
LEMMA StoppingIsMine ==
  ASSUME NEW c, Callers = {c}, OwnershipInv, OneCallerInv, NEW id \in Ids,
         procs[id].state = "stopping"
  PROVE  pc[c] \in StopPhase /\ mine[c] = procs[id].run
BY DEF OwnershipInv, StoppingOK, StoppedBy

LEMMA StopsAreComplete ==
  ASSUME NEW c, Callers = {c}, TypeInv, OwnershipInv, OneCallerInv, [Next]_vars,
         Returns(c), op[c] = "stop"
  PROVE  proc' = proc /\ \A g \in Runs : home[g] = target[c] => ~Alive(g)
<1>1. c \in Callers /\ CallOK(c) /\ Undisturbed(c) /\ SettledOK(c) /\ OwnRun(c)
  BY SoloFacts DEF OwnershipInv, OwnRunOK
<1>2. pc[c] \notin StartLabels \cup {"idle", "close", "snapshot", "next"} /\ pc'[c] = "idle"
  BY <1>1 DEF CallOK, Returns
<1>3. CASE NothingToStop(c)
  <2>1. pc[c] = "stop" /\ target[c] \in Ids /\ proc' = proc
    BY <1>1, <1>3, CallerTypes DEF NothingToStop, osVars
  <2>2. ~procs[target[c]].handle \/ procs[target[c]].state = "stopping"
    BY <1>3, <2>1 DEF NothingToStop, Known, OwnershipInv, RecordsOK
  <2>3. ~procs[target[c]].handle
    BY <1>1, <2>1, <2>2, StoppingIsMine DEF StopPhase
  <2> QED BY <2>1, <2>3, NothingLives DEF Dealing
<1>4. CASE EndStop(c)
  <2>1. pc[c] \in {"released", "unreleased"} /\ target[c] \in Ids /\ proc' = proc
    BY <1>1, <1>4, EndStopDoes
  <2>2. procs[target[c]].run = mine[c] /\ ~Alive(mine[c])
    BY <1>1, <2>1 DEF Undisturbed, Current, Known, OwnRun, StopPhase
  <2> QED BY <2>1, <2>2, NothingLives
<1>5. CASE CallOff(c)
  <2>1. pc[c] = "stop" /\ target[c] \in Ids /\ procs[target[c]].state = "starting"
    BY <1>1, <1>5, CallerTypes DEF CallOff
  <2> QED BY <1>1, <2>1 DEF SettledOK, StartPhase, StartLabels
<1>6. ASSUME pc' = pc PROVE FALSE
  BY <1>2, <1>6
<1>7. CASE StartStep(c)
  BY <1>2, <1>7 DEF StartStep, StartRefused, StartAlready, StartNew, PortWaitDone, CalledOff,
    NotCalledOff, Spawn, SpawnFails, Adopt, AdoptCalledOff, Discarded, BindWaitDone, GaveUp,
    Fail, Confirm, ConfirmTooLate, StartLabels
<1>8. CASE BeginStop(c) \/ Terminated(c) \/ ReleaseWaitDone(c)
  <2>1. pc'[c] \in {"terminate", "release", "released", "unreleased"}
    BY <1>1, <1>8 DEF BeginStop, Terminated, ReleaseWaitDone, Goto, TypeInv, TypeOK
  <2> QED BY <1>2, <2>1
<1>9. CASE Close(c) \/ Snapshot(c) \/ StopNext(c) \/ StoppedAll(c)
  BY <1>2, <1>9 DEF Close, Snapshot, StopNext, StoppedAll
<1>10. CASE Kill(c)
  BY <1>6, <1>10 DEF Kill
<1>11. CASE Calls(c)
  BY <1>2, <1>11 DEF Calls, CallStart, CallStop, CallStopAll
<1>12. CASE (\E g \in Runs : Watch(g)) \/ Environment \/ UNCHANGED vars
  BY <1>6, <1>12 DEF Watch, Environment, ProcessListens, ProcessExits, SocketReleased,
                     OtherProgram, vars
<1> QED
  BY <1>1, <1>3, <1>4, <1>5, <1>7, <1>8, <1>9, <1>10, <1>11, <1>12 DEF Next, Step, StopStep

(* With one caller, no process of an ID is left alive when a Stop of it    *)
(* returns - whether it stopped one, found nothing or gave up on the port. *)
THEOREM StopsLeaveNothing ==
  ASSUME NEW CONSTANT d, Callers = {d}
  PROVE  Spec => StopLeavesNothing
<1>1. ASSUME TypeInv, OwnershipInv, OneCallerInv, [Next]_vars
      PROVE  [\A c \in Callers : Returns(c) /\ op[c] = "stop" =>
                \A g \in Runs : home[g] = target[c]
                  => proc'[g] \in {"none", "closing", "gone"}]_vars
  <2> SUFFICES ASSUME NEW c \in Callers, Returns(c), op[c] = "stop",
                      NEW g \in Runs, home[g] = target[c]
               PROVE  proc'[g] \in {"none", "closing", "gone"}
    OBVIOUS
  <2>1. proc' = proc /\ ~Alive(g)
    BY <1>1, StopsAreComplete
  <2>2. proc[g] \in ProcStates
    BY <1>1 DEF TypeInv, TypeOK
  <2> QED BY <2>1, <2>2 DEF Alive, ProcStates
<1>2. Spec => [](TypeInv /\ OwnershipInv /\ OneCallerInv)
  BY OneCallerHolds
<1> QED BY <1>1, <1>2, PTL DEF Spec, StopLeavesNothing

LEMMA StartsAreComplete ==
  ASSUME NEW c, Callers = {c}, TypeInv, OwnershipInv, OneCallerInv, [Next]_vars,
         Returns(c), op[c] \in {"start", "restart"}, ret'[c] = "ok"
  PROVE  procs'[target[c]].state = "running" /\ procs'[target[c]].handle
<1>1. c \in Callers /\ CallOK(c) /\ Undisturbed(c) /\ SettledOK(c) /\ OwnRun(c)
  BY SoloFacts DEF OwnershipInv, OwnRunOK
<1>2. pc[c] \notin {"idle", "close", "snapshot", "next"} /\ pc'[c] = "idle"
  BY <1>1 DEF CallOK, Returns
<1>3. ASSUME NEW r, Return(c, r) PROVE r = "ok"
  BY <1>1, <1>3 DEF Return, TypeInv, TypeOK
<1>4. CASE StartAlready(c)
  <2>1. /\ pc[c] = "start" /\ target[c] \in Ids /\ procs' = procs
        /\ procs[target[c]].state \in {"running", "starting"}
    BY <1>1, <1>4, CallerTypes DEF StartAlready, supVars
  <2>2. procs[target[c]].state = "running"
    BY <1>1, <2>1 DEF SettledOK, StartPhase
  <2> QED BY <2>1, <2>2 DEF OwnershipInv, RecordsOK
<1>5. CASE Confirm(c)
  <2>1. /\ pc[c] = "confirm" /\ target[c] \in Ids /\ Current(c)
        /\ Known(c) = procs[target[c]] /\ Known(c).state \notin {"failed", "stopped"}
        /\ Wrote(target[c], procs[target[c]].run, procs[target[c]].gen, "running",
                 procs[target[c]].handle, "none")
    BY <1>1, <1>5, ConfirmDoes, CallerTypes DEF Confirm
  <2>2. procs[target[c]].handle
    BY <1>1, <2>1 DEF OwnRun
  <2> QED BY <2>1, <2>2 DEF Wrote
<1>6. CASE StartRefused(c) \/ Fail(c)
  BY <1>3, <1>6 DEF StartRefused, Fail
<1>7. CASE ConfirmTooLate(c)
  <2>1. Current(c)
    BY <1>1, <1>7 DEF ConfirmTooLate, Undisturbed, StartPhase, StartLabels
  <2>2. Return(c, "error")
    BY <1>7, <2>1 DEF ConfirmTooLate
  <2> QED BY <1>3, <2>2
<1>8. CASE CalledOff(c) \/ AdoptCalledOff(c) \/ Discarded(c)
  <2>1. /\ pc[c] \in {"check", "adopt", "discard"}
        /\ closing \/ ~Current(c) \/ pc[c] = "discard"
    BY <1>8 DEF CalledOff, AdoptCalledOff, Discarded
  <2> QED BY <1>1, <2>1 DEF Undisturbed, StartPhase, StartLabels
<1>9. ASSUME pc'[c] # "idle" PROVE FALSE
  BY <1>2, <1>9
<1>10. CASE \/ PortWaitDone(c) \/ NotCalledOff(c) \/ Spawn(c) \/ SpawnFails(c)
            \/ BindWaitDone(c) \/ GaveUp(c) \/ StartNew(c) \/ Adopt(c)
            \/ BeginStop(c) \/ Terminated(c) \/ ReleaseWaitDone(c)
  <2>1. pc'[c] \in {"check", "fail", "spawn", "giveUp", "confirm", "portWait", "adopt",
                    "bindWait", "terminate", "release", "released", "unreleased"}
    BY <1>1, <1>10 DEF PortWaitDone, NotCalledOff, Spawn, SpawnFails, BindWaitDone, GaveUp,
       StartNew, Adopt, BeginStop, Terminated, ReleaseWaitDone, Goto, TypeInv, TypeOK
  <2> QED BY <1>9, <2>1
<1>11. CASE CallOff(c) \/ NothingToStop(c) \/ EndStop(c)
  <2>1. AfterStop(c, "ok") \/ AfterStop(c, "error")
    BY <1>11 DEF CallOff, NothingToStop, EndStop
  <2>2. ASSUME NEW r, AfterStop(c, r) PROVE r # "ok"
    <3>1. CASE Goto(c, "start") \/ Goto(c, "next")
      BY <1>1, <1>2, <3>1 DEF Goto, TypeInv, TypeOK
    <3>2. op[c] \in {"start", "restart"} OBVIOUS
    <3>3. (op[c] = "restart" /\ r # "ok") \/ Goto(c, "start") \/ Goto(c, "next")
      BY <2>2, <3>2 DEF AfterStop
    <3> QED BY <3>1, <3>3
  <2>3. AfterStop(c, "error")
    BY <2>1, <2>2
  <2>4. Return(c, "error")
    <3>1. CASE Goto(c, "start") \/ Goto(c, "next")
      BY <1>1, <1>2, <3>1 DEF Goto, TypeInv, TypeOK
    <3> QED BY <2>3, <3>1 DEF AfterStop
  <2> QED BY <1>3, <2>4
<1>12. CASE Close(c) \/ Snapshot(c) \/ StopNext(c) \/ StoppedAll(c)
  BY <1>2, <1>12 DEF Close, Snapshot, StopNext, StoppedAll
<1>13. CASE Calls(c)
  BY <1>2, <1>13 DEF Calls, CallStart, CallStop, CallStopAll
<1>14. CASE Kill(c) \/ (\E g \in Runs : Watch(g)) \/ Environment \/ UNCHANGED vars
  BY <1>2, <1>14 DEF Kill, Watch, Environment, ProcessListens, ProcessExits, SocketReleased,
                     OtherProgram, vars
<1> QED
  BY <1>1, <1>4, <1>5, <1>6, <1>7, <1>8, <1>10, <1>11, <1>12, <1>13, <1>14
     DEF Next, Step, StartStep, StopStep

(* With one caller, a Start or Restart that returns nil returns with its   *)
(* service running and its process in hand.                                *)
THEOREM StartsMeanRunning ==
  ASSUME NEW CONSTANT d, Callers = {d}
  PROVE  Spec => StartOkMeansRunning
<1>1. ASSUME TypeInv, OwnershipInv, OneCallerInv, [Next]_vars
      PROVE  [\A c \in Callers :
                Returns(c) /\ op[c] \in {"start", "restart"} /\ ret'[c] = "ok" =>
                  LET m == procs'[target[c]] IN m.state = "running" /\ m.handle]_vars
  BY <1>1, StartsAreComplete
<1>2. Spec => [](TypeInv /\ OwnershipInv /\ OneCallerInv)
  BY OneCallerHolds
<1> QED BY <1>1, <1>2, PTL DEF Spec, StartOkMeansRunning

(***************************************************************************)
(* Refinement: each step of the supervisor is a step of ServiceLifecycle,  *)
(* or changes nothing that it sees                                         *)
(***************************************************************************)
LEMMA LiveStays ==
  ASSUME UNCHANGED <<proc, home>>
  PROVE  Live' = Live
BY DEF Live, Alive

LEMMA Stutters ==
  ASSUME Shown' = Shown, Live' = Live, closing' = closing
  PROVE  [Lifecycle!Next]_(Lifecycle!vars)
BY DEF Shown, Live, Lifecycle!vars

LEMMA SameStates ==
  ASSUME \A id \in Ids : procs'[id].state = procs[id].state
  PROVE  Shown' = Shown
BY DEF Shown

LEMMA Becomes ==
  ASSUME NEW id \in Ids, NEW r, NEW n, NEW to, NEW h, NEW e, Wrote(id, r, n, to, h, e),
         NEW from, procs[id].state \in from, Live' = Live, closing' = closing
  PROVE  Lifecycle!Become(id, from, to)
<1>1. Shown[id] \in from
  BY DEF Shown
<1>2. Shown' = [Shown EXCEPT ![id] = to]
  BY DEF Shown, Wrote
<1> QED BY <1>1, <1>2 DEF Lifecycle!Become, Shown, Live

LEMMA NotLive ==
  ASSUME NEW id \in Ids
  PROVE  id \notin Live <=> \A g \in Runs : home[g] = id => ~Alive(g)
BY DEF Live

(* A process that ends takes its ID out of the live ones: it was alone.    *)
LEMMA Ends ==
  ASSUME NEW c, Callers = {c}, TypeInv, OwnershipInv, OneCallerInv,
         NEW g \in Runs, Alive(g), ~Alive(g)',
         \A h \in Runs \ {g} : Alive(h)' <=> Alive(h),
         UNCHANGED <<procs, home, closing>>
  PROVE  Lifecycle!Next
<1>1. home[g] \in Ids
  BY AliveIsCurrent
<1>2. \A h \in Runs : Alive(h) /\ home[h] = home[g] => h = g
  BY AliveIsCurrent
<1>3. home[g] \in Live /\ Live' = Live \ {home[g]}
  BY <1>1, <1>2 DEF Live
<1>4. Shown' = Shown
  BY DEF Shown
<1> QED
  BY <1>1, <1>3, <1>4 DEF Lifecycle!Next, Lifecycle!ProcessEnds, Live, Shown

LEMMA StartStepShows ==
  ASSUME NEW c, Callers = {c}, TypeInv, OwnershipInv, OneCallerInv, StartStep(c)
  PROVE  [Lifecycle!Next]_(Lifecycle!vars)
<1>1. c \in Callers /\ CallOK(c) /\ Undisturbed(c) /\ SettledOK(c) /\ OwnRun(c)
  BY SoloFacts DEF OwnershipInv, OwnRunOK
<1>2. CASE \/ StartRefused(c) \/ StartAlready(c) \/ PortWaitDone(c) \/ CalledOff(c)
           \/ NotCalledOff(c) \/ SpawnFails(c) \/ AdoptCalledOff(c) \/ Discarded(c)
           \/ BindWaitDone(c) \/ GaveUp(c) \/ ConfirmTooLate(c)
  <2>1. UNCHANGED <<procs, proc, home, closing>>
    BY <1>2 DEF StartRefused, StartAlready, PortWaitDone, CalledOff, NotCalledOff, SpawnFails,
                AdoptCalledOff, Discarded, BindWaitDone, GaveUp, ConfirmTooLate, supVars, osVars
  <2> QED BY <2>1, LiveStays, SameStates, Stutters
<1>3. CASE StartNew(c)
  <2> DEFINE id == target[c]
  <2>1. /\ pc[c] = "start" /\ ~closing /\ id \in Ids /\ gen + 1 \in Runs
        /\ procs[id].state \notin {"running", "starting"}
        /\ Wrote(id, gen + 1, gen + 1, "starting", FALSE, "none")
        /\ \A g \in Runs \ {gen + 1} : home'[g] = home[g]
        /\ UNCHANGED <<closing, proc>>
    BY <1>1, <1>3, StartNewDoes
  <2> HIDE DEF id
  <2>2. procs[id].state # "stopping"
    BY <2>1, StoppingIsMine DEF StopPhase
  <2>3. ~procs[id].handle /\ procs[id].state \in States
    BY <2>1, <2>2 DEF OwnershipInv, RecordsOK, TypeInv, TypeOK, Managed
  <2>4. id \notin Live
    BY <2>1, <2>3, NothingLives, NotLive DEF Dealing
  <2>5. ~Alive(gen + 1)
    <3>1. gen \in Nat BY DEF TypeInv, TypeOK
    <3>2. gen + 1 > gen BY <3>1
    <3> QED BY <2>1, <3>2 DEF OwnershipInv, FreshOK
  <2>6. Live' = Live
    BY <2>1, <2>5 DEF Live, Alive
  <2>7. Lifecycle!Become(id, {"absent", "stopped", "failed"}, "starting")
    <3>1. procs[id].state \in {"absent", "stopped", "failed"}
      BY <2>1, <2>2, <2>3 DEF States
    <3> QED BY <2>1, <2>6, <3>1, Becomes
  <2> QED
    BY <2>1, <2>4, <2>7 DEF Lifecycle!Next, Lifecycle!BeginStart, Live
<1>4. CASE Spawn(c)
  <2>1. pc[c] = "spawn" /\ target[c] \in Ids /\ mine[c] \in Runs
    BY <1>1, <1>4, CallerTypes DEF Spawn, StartPhase, StartLabels
  <2>2. /\ ~closing /\ procs[target[c]].run = mine[c] /\ procs[target[c]].gen = mine[c]
        /\ home[mine[c]] = target[c] /\ ~Alive(mine[c])
        /\ procs[target[c]].state = "starting"
    BY <1>1, <2>1 DEF Undisturbed, OwnRun, Current, Known, StartPhase, StartLabels, PreAdopt
  <2>3. target[c] \notin Live
    BY <2>1, <2>2, NothingLives, NotLive
  <2>4. /\ UNCHANGED <<procs, home, closing>>
        /\ Alive(mine[c])' /\ \A g \in Runs \ {mine[c]} : Alive(g)' <=> Alive(g)
    BY <1>1, <1>4, <2>1 DEF Spawn, Alive, supVars, callVars, TypeInv, TypeOK
  <2>5. Live' = Live \cup {target[c]}
    <3>1. mine' = mine
      BY <1>4 DEF Spawn, callVars
    <3> QED BY <2>1, <2>2, <2>3, <2>4, <3>1 DEF Live
  <2>6. Shown' = Shown /\ Shown[target[c]] = "starting"
    BY <2>1, <2>2, <2>4 DEF Shown
  <2> QED
    BY <2>1, <2>2, <2>3, <2>4, <2>5, <2>6 DEF Lifecycle!Next, Lifecycle!Launch, Live, Shown
<1>5. CASE Adopt(c)
  <2>1. /\ target[c] \in Ids /\ UNCHANGED <<proc, home, closing>>
        /\ procs'[target[c]].state = procs[target[c]].state
        /\ \A id \in Ids \ {target[c]} : procs'[id] = procs[id]
    BY <1>1, <1>5, AdoptDoes DEF Wrote
  <2> QED BY <2>1, LiveStays, SameStates, Stutters
<1>6. CASE Fail(c)
  <2> DEFINE id == target[c]
             m == procs[id]
  <2>1. /\ pc[c] = "fail" /\ id \in Ids
        /\ m.gen = mine[c] => Wrote(id, m.run, m.gen, "failed", FALSE, "start")
        /\ UNCHANGED <<closing, proc, home>>
    BY <1>1, <1>6, FailDoes
  <2>2. /\ m.run = mine[c] /\ m.gen = mine[c] /\ m.state \in {"starting", "failed"}
        /\ ~Alive(mine[c])
    BY <1>1, <2>1 DEF Undisturbed, OwnRun, Current, Known, StartPhase, StartLabels
  <2>3. Wrote(id, m.run, m.gen, "failed", FALSE, "start")
    BY <2>1, <2>2
  <2>4. id \notin Live
    BY <2>1, <2>2, NothingLives, NotLive
  <2>5. CASE m.state = "failed"
    <3>1. Shown' = Shown
      BY <2>3, <2>5, SameStates DEF Wrote
    <3> QED BY <2>1, <3>1, LiveStays, Stutters
  <2>6. CASE m.state = "starting"
    <3>1. Lifecycle!Become(id, {"starting", "running"}, "failed")
      BY <2>1, <2>3, <2>6, LiveStays, Becomes
    <3> QED
      BY <2>1, <2>4, <3>1 DEF Lifecycle!Next, Lifecycle!Fail, Live
  <2> QED BY <2>2, <2>5, <2>6
<1>7. CASE Confirm(c)
  <2> DEFINE id == target[c]
             m == procs[id]
  <2>1. /\ pc[c] = "confirm" /\ id \in Ids /\ m.state \notin {"failed", "stopped"}
        /\ Wrote(id, m.run, m.gen, "running", m.handle, "none")
        /\ UNCHANGED <<closing, proc, home>>
    BY <1>1, <1>7, ConfirmDoes
  <2>2. m.state = "starting"
    BY <1>1, <2>1 DEF Undisturbed, Known, StartPhase, StartLabels
  <2>3. Lifecycle!Become(id, {"starting"}, "running")
    BY <2>1, <2>2, LiveStays, Becomes
  <2> QED BY <2>1, <2>3 DEF Lifecycle!Next, Lifecycle!Confirm
<1> QED BY <1>2, <1>3, <1>4, <1>5, <1>6, <1>7 DEF StartStep

LEMMA StopStepShows ==
  ASSUME NEW c, Callers = {c}, TypeInv, OwnershipInv, OneCallerInv, StopStep(c)
  PROVE  [Lifecycle!Next]_(Lifecycle!vars)
<1>1. c \in Callers /\ CallOK(c) /\ Undisturbed(c) /\ SettledOK(c) /\ OwnRun(c)
  BY SoloFacts DEF OwnershipInv, OwnRunOK
<1>2. CASE \/ NothingToStop(c) \/ Terminated(c) \/ ReleaseWaitDone(c) \/ Snapshot(c)
           \/ StopNext(c) \/ StoppedAll(c)
  <2>1. UNCHANGED <<procs, proc, home, closing>>
    BY <1>2 DEF NothingToStop, Terminated, ReleaseWaitDone, Snapshot, StopNext, StoppedAll,
                supVars, osVars
  <2> QED BY <2>1, LiveStays, SameStates, Stutters
<1>3. CASE CallOff(c)
  <2>1. pc[c] = "stop" /\ target[c] \in Ids /\ procs[target[c]].state = "starting"
    BY <1>1, <1>3, CallerTypes DEF CallOff
  <2> QED BY <1>1, <2>1 DEF SettledOK, StartPhase, StartLabels
<1>4. CASE BeginStop(c)
  <2> DEFINE id == target[c]
             m == procs[id]
  <2>1. /\ pc[c] = "stop" /\ id \in Ids
        /\ m.handle /\ m.state \notin {"stopped", "stopping"}
        /\ Wrote(id, m.run, m.gen, "stopping", m.handle, m.err)
        /\ UNCHANGED <<closing, proc, home>>
    BY <1>1, <1>4, BeginStopDoes
  <2>2. m.state = "running"
    BY <1>1, <2>1 DEF OwnershipInv, RecordsOK, SettledOK, StartPhase, StartLabels
  <2>3. Lifecycle!Become(id, {"running"}, "stopping")
    BY <2>1, <2>2, LiveStays, Becomes
  <2> QED BY <2>1, <2>3 DEF Lifecycle!Next, Lifecycle!BeginStop
<1>5. CASE EndStop(c)
  <2> DEFINE id == target[c]
             m == procs[id]
  <2>1. /\ pc[c] \in {"released", "unreleased"} /\ id \in Ids
        /\ m.run = mine[c] /\ m.gen = seen[c]
             => Wrote(id, m.run, m.gen, "stopped", FALSE, "none")
        /\ UNCHANGED <<closing, proc, home>>
    BY <1>1, <1>5, EndStopDoes
  <2>2. /\ m.run = mine[c] /\ m.gen = seen[c] /\ m.state = "stopping" /\ ~Alive(mine[c])
    BY <1>1, <2>1 DEF Undisturbed, OwnRun, Current, Known, StopPhase
  <2>3. id \notin Live
    BY <2>1, <2>2, NothingLives, NotLive
  <2>4. Lifecycle!Become(id, {"stopping"}, "stopped")
    BY <2>1, <2>2, LiveStays, Becomes
  <2> QED
    BY <2>1, <2>3, <2>4 DEF Lifecycle!Next, Lifecycle!EndStop, Live
<1>6. CASE Kill(c)
  <2>1. mine[c] \in Runs /\ Alive(mine[c])
    BY <1>1, <1>6 DEF Kill, TypeInv, TargetOK, OwnRun, StartPhase, StartLabels, StopPhase
  <2> DEFINE g == mine[c]
  <2>2. /\ UNCHANGED <<procs, home, closing, mine>>
        /\ proc'[g] \in {"closing", "gone"} /\ \A h \in Runs \ {g} : proc'[h] = proc[h]
    BY <1>6, <2>1 DEF Kill, supVars, callVars, TypeInv, TypeOK
  <2>3. ASSUME NEW h, h = g PROVE Lifecycle!Next
    BY <2>1, <2>2, <2>3, Ends DEF Alive
  <2> QED BY <2>3
<1>7. CASE Close(c)
  <2>1. closing' = TRUE /\ UNCHANGED <<procs, proc, home>>
    BY <1>7 DEF Close, osVars
  <2>2. Shown' = Shown /\ Live' = Live
    BY <2>1, LiveStays, SameStates
  <2> QED BY <2>1, <2>2 DEF Lifecycle!Next, Lifecycle!Quit, Shown, Live
<1> QED BY <1>2, <1>3, <1>4, <1>5, <1>6, <1>7 DEF StopStep

LEMMA OtherStepShows ==
  ASSUME NEW c, Callers = {c}, TypeInv, OwnershipInv, OneCallerInv,
         \/ Calls(c)
         \/ \E g \in Runs : Watch(g)
         \/ Environment
         \/ UNCHANGED vars
  PROVE  [Lifecycle!Next]_(Lifecycle!vars)
<1>1. c \in Callers /\ Undisturbed(c) /\ SettledOK(c)
  BY SoloFacts
<1>2. ASSUME UNCHANGED <<procs, home, closing>>, \A g \in Runs : Alive(g)' <=> Alive(g)
      PROVE  [Lifecycle!Next]_(Lifecycle!vars)
  <2>1. Live' = Live BY <1>2 DEF Live
  <2> QED BY <1>2, <2>1, SameStates, Stutters
<1>3. CASE Calls(c) \/ UNCHANGED vars \/ \E id \in Ids : OtherProgram(id)
  <2>1. UNCHANGED <<procs, proc, home, closing>>
    BY <1>3 DEF Calls, CallStart, CallStop, CallStopAll, OtherProgram, vars, supVars, osVars
  <2> QED BY <1>2, <2>1 DEF Alive
<1>4. ASSUME NEW g \in Runs, ProcessListens(g) \/ SocketReleased(g)
      PROVE  [Lifecycle!Next]_(Lifecycle!vars)
  <2>1. /\ UNCHANGED <<procs, home, closing>>
        /\ \A h \in Runs : Alive(h)' <=> Alive(h)
    BY <1>4 DEF ProcessListens, SocketReleased, Alive, supVars, TypeInv, TypeOK
  <2> QED BY <1>2, <2>1
<1>5. ASSUME NEW g \in Runs, ProcessExits(g) PROVE [Lifecycle!Next]_(Lifecycle!vars)
  <2>1. /\ UNCHANGED <<procs, home, closing>> /\ Alive(g)
        /\ proc'[g] \in {"closing", "gone"} /\ \A h \in Runs \ {g} : proc'[h] = proc[h]
    BY <1>5 DEF ProcessExits, supVars, TypeInv, TypeOK
  <2> QED BY <2>1, Ends DEF Alive
<1>6. ASSUME NEW g \in Runs, Watch(g) PROVE [Lifecycle!Next]_(Lifecycle!vars)
  <2> DEFINE id == home[g]
             m == procs[id]
  <2>1. /\ id \in Ids /\ ~Alive(g)
        /\ \/ procs' = procs
           \/ /\ m.gen = g /\ m.state \notin {"stopping", "stopped"}
              /\ Wrote(id, m.run, m.gen, "failed", FALSE, procs'[id].err)
        /\ UNCHANGED <<closing, proc, home>>
    BY <1>6, WatchDoes
  <2>2. CASE procs' = procs
    BY <2>1, <2>2, LiveStays, SameStates, Stutters
  <2>3. CASE m.gen = g /\ m.state \notin {"stopping", "stopped"}
             /\ Wrote(id, m.run, m.gen, "failed", FALSE, procs'[id].err)
    <3>1. m.state \in {"starting", "running", "failed"}
      <4>1. m.state # "absent"
        BY <1>1, <2>1, <2>3, RunsAreNaturals DEF SettledOK
      <4>2. m.state \in States BY <2>1 DEF TypeInv, TypeOK, Managed
      <4> QED BY <2>3, <4>1, <4>2 DEF States
    <3>2. CASE m.state = "failed"
      <4>1. Shown' = Shown
        BY <2>3, <3>2, SameStates DEF Wrote
      <4> QED BY <2>1, <4>1, LiveStays, Stutters
    <3>3. CASE m.state \in {"starting", "running"}
      <4>1. Lifecycle!Become(id, {"starting", "running"}, "failed")
        BY <2>1, <2>3, <3>3, LiveStays, Becomes
      <4>2. ASSUME NEW h \in Runs, home[h] = id, Alive(h) PROVE FALSE
        <5>1. m.run = h /\ h # g
          BY <2>1, <4>2, AliveIsCurrent
        <5>2. m.gen = h
          <6>1. CASE m.handle
            BY <2>1, <5>1, <6>1 DEF OwnershipInv, RecordsOK
          <6>2. CASE ~m.handle
            <7>1. Attended(h)
              BY <4>2, <6>2 DEF OwnershipInv, NoUntrackedProcess, Held
            <7>2. mine[c] = h /\ pc[c] \in StartPhase \cup StopPhase
              BY <7>1 DEF Attended, StartPhase, StartLabels, StopPhase
            <7>3. home[h] = target[c]
              BY <1>1, <7>2 DEF OwnershipInv, OwnRunOK, OwnRun
            <7> QED BY <1>1, <4>2, <7>2, <7>3 DEF Undisturbed, Current, Known
          <6> QED BY <6>1, <6>2
        <5> QED BY <2>3, <5>1, <5>2
      <4> QED
        BY <2>1, <4>1, <4>2, NotLive DEF Lifecycle!Next, Lifecycle!Fail, Live
    <3> QED BY <3>1, <3>2, <3>3
  <2> QED BY <2>1, <2>2, <2>3
<1> QED BY <1>3, <1>4, <1>5, <1>6 DEF Environment

(* Called by one goroutine at a time, the supervisor implements the        *)
(* lifecycle that the rest of the daemon relies on: every step it takes is *)
(* one the lifecycle allows, or one it does not see.                       *)
THEOREM ImplementsLifecycle ==
  ASSUME NEW CONSTANT c, Callers = {c}
  PROVE  Spec => Lifecycle!Safety
<1>1. Init => Lifecycle!Init
  BY DEF Init, Lifecycle!Init, Alive, NotManaged
<1>2. TypeInv /\ OwnershipInv /\ OneCallerInv /\ [Next]_vars => [Lifecycle!Next]_(Lifecycle!vars)
  BY StartStepShows, StopStepShows, OtherStepShows DEF Next, Step
<1>3. Spec => [](TypeInv /\ OwnershipInv /\ OneCallerInv)
  BY OneCallerHolds
<1> QED BY <1>1, <1>2, <1>3, PTL DEF Spec, Lifecycle!Safety

(***************************************************************************)
(* A service shown as running has listened                                 *)
(***************************************************************************)
(* The sections of Start between finding the port free and seeing it used. *)
PortMine == {"check", "spawn", "adopt", "bindWait"}

RunOfRunning == \A id \in Ids : procs[id].state = "running" =>
  procs[id].run \in Runs /\ home[procs[id].run] = id

LEMMA RunningRuns ==
  ASSUME TypeInv, OwnershipInv
  PROVE  RunOfRunning
<1> SUFFICES ASSUME NEW id \in Ids, procs[id].state = "running"
             PROVE  procs[id].run \in Runs /\ home[procs[id].run] = id
  BY DEF RunOfRunning
<1>1. procs[id].run # 0 /\ home[procs[id].run] = id
  BY DEF OwnershipInv, RecordsOK
<1>2. procs[id] \in Managed
  BY DEF TypeInv, TypeOK
<1> QED BY <1>1, <1>2 DEF Managed

(* Steps after which no more services run, and no process is as before it  *)
(* listened, but those that were.                                          *)
LEMMA ListenKeeps ==
  ASSUME NEW c, Callers = {c}, ListenOK, RunOfRunning,
         \A id \in Ids : procs'[id].state = "running" =>
           procs[id].state = "running" /\ procs'[id].run = procs[id].run,
         \A g \in Runs : /\ proc'[g] = "up" => proc[g] = "up"
                         /\ proc[g] \in {"none", "gone"} => proc'[g] = proc[g],
         \/ pc'[c] \notin PortMine \cup {"confirm"}
         \/ /\ UNCHANGED <<mine, target, home>>
            /\ pc[c] \in PortMine \cup {"confirm"} => mine[c] \in Runs
            /\ \/ pc[c] \in PortMine /\ pc'[c] \in PortMine
               \/ pc[c] = "confirm" /\ pc'[c] = "confirm"
  PROVE  ListenOK'
<1>1. RunningHasListened'
  BY DEF ListenOK, RunningHasListened, RunOfRunning
<1>2. CASE pc'[c] \notin PortMine \cup {"confirm"}
  BY <1>1, <1>2 DEF ListenOK, PortMine
<1>3. CASE pc'[c] \in PortMine \cup {"confirm"}
  BY <1>1, <1>3 DEF ListenOK, PortMine
<1> QED BY <1>2, <1>3

LEMMA StartStepListens ==
  ASSUME NEW c, Callers = {c}, TypeInv, OwnershipInv, OneCallerInv, ListenOK, taken = {},
         StartStep(c)
  PROVE  ListenOK'
<1>1. c \in Callers /\ CallOK(c) /\ Undisturbed(c) /\ SettledOK(c) /\ OwnRun(c) /\ RunOfRunning
  BY SoloFacts, RunningRuns DEF OwnershipInv, OwnRunOK
<1>2. pc[c] \in StartPhase => mine[c] \in Runs /\ home[mine[c]] = target[c]
  BY <1>1 DEF OwnRun, TypeInv, TargetOK
<1>3. CASE \/ StartRefused(c) \/ StartAlready(c) \/ CalledOff(c) \/ SpawnFails(c)
           \/ AdoptCalledOff(c) \/ Discarded(c) \/ GaveUp(c) \/ ConfirmTooLate(c)
  <2>1. /\ UNCHANGED <<procs, proc>>
        /\ pc'[c] \in {"idle", "fail", "discard"}
    BY <1>1, <1>3 DEF StartRefused, StartAlready, CalledOff, SpawnFails, AdoptCalledOff,
         Discarded, GaveUp, ConfirmTooLate, Return, Goto, supVars, osVars, TypeInv, TypeOK
  <2> QED BY <1>1, <2>1, ListenKeeps DEF PortMine
<1>4. CASE NotCalledOff(c)
  <2>1. /\ UNCHANGED <<procs, proc, mine, target, home>>
        /\ pc[c] = "check" /\ pc'[c] = "spawn"
    BY <1>1, <1>4 DEF NotCalledOff, Goto, callVars, supVars, osVars, TypeInv, TypeOK
  <2> QED BY <1>1, <1>2, <2>1, ListenKeeps DEF PortMine, StartPhase, StartLabels
<1>5. CASE StartNew(c)
  <2>1. /\ Wrote(target[c], gen + 1, gen + 1, "starting", FALSE, "none")
        /\ pc'[c] = "portWait" /\ proc' = proc
    BY <1>1, <1>5, StartNewDoes
  <2> QED BY <1>1, <2>1, ListenKeeps DEF PortMine, Wrote
<1>6. CASE Adopt(c)
  <2>1. /\ procs'[target[c]].run = procs[target[c]].run
        /\ procs'[target[c]].state = procs[target[c]].state
        /\ \A id \in Ids \ {target[c]} : procs'[id] = procs[id]
        /\ pc[c] = "adopt" /\ pc'[c] = "bindWait"
        /\ UNCHANGED <<proc, mine, target, home>>
    BY <1>1, <1>6, AdoptDoes DEF Wrote
  <2> QED BY <1>1, <1>2, <2>1, ListenKeeps DEF PortMine, StartPhase, StartLabels
<1>7. CASE Fail(c)
  <2>1. /\ pc[c] = "fail" /\ target[c] \in Ids /\ proc' = proc /\ Return(c, "error")
        /\ LET m == procs[target[c]] IN
           m.gen = mine[c] => Wrote(target[c], m.run, m.gen, "failed", FALSE, "start")
    BY <1>1, <1>7, FailDoes
  <2>2. procs[target[c]].gen = mine[c] /\ pc'[c] = "idle"
    BY <1>1, <2>1, ReturnLeaves DEF Undisturbed, Current, Known, StartPhase, StartLabels
  <2> QED BY <1>1, <2>1, <2>2, ListenKeeps DEF PortMine, Wrote
<1>8. CASE PortWaitDone(c)
  <2>1. /\ UNCHANGED <<procs, proc, mine, target, home>> /\ pc[c] = "portWait"
        /\ \/ pc'[c] = "fail"
           \/ pc'[c] = "check" /\ PortFree(target[c])
    BY <1>1, <1>8 DEF PortWaitDone, Goto, callVars, supVars, osVars, TypeInv, TypeOK
  <2>2. CASE pc'[c] = "fail"
    BY <1>1, <2>1, <2>2, ListenKeeps DEF PortMine
  <2>3. CASE pc'[c] = "check" /\ PortFree(target[c])
    <3>1. ASSUME NEW g \in Runs \ {mine[c]}, home[g] = target[c]
          PROVE  proc[g] \in {"none", "gone"}
      <4>1. ~Alive(g)
        BY <1>1, <2>1, <3>1, AliveIsCurrent DEF Undisturbed, Current, Known, StartPhase, StartLabels
      <4>2. proc[g] \notin {"listening", "closing"}
        BY <2>3, <3>1 DEF PortFree
      <4>3. proc[g] \in ProcStates
        BY DEF TypeInv, TypeOK
      <4> QED BY <4>1, <4>2, <4>3 DEF Alive, ProcStates
    <3> QED BY <2>1, <2>3, <3>1 DEF ListenOK, RunningHasListened
  <2> QED BY <2>1, <2>2, <2>3
<1>9. CASE Spawn(c)
  <2>1. pc[c] = "spawn" /\ mine[c] \in Runs /\ target[c] \in Ids
    BY <1>1, <1>9, CallerTypes DEF Spawn, StartPhase, StartLabels
  <2>2. /\ UNCHANGED <<procs, mine, target, home>> /\ pc'[c] = "adopt"
        /\ \A g \in Runs \ {mine[c]} : proc'[g] = proc[g]
    BY <1>1, <1>9, <2>1 DEF Spawn, Goto, callVars, supVars, TypeInv, TypeOK
  <2>3. ASSUME NEW id \in Ids, procs[id].state = "running" PROVE procs[id].run \in Runs \ {mine[c]}
    <3>1. procs[id].run \in Runs /\ home[procs[id].run] = id
      BY <1>1, <2>3 DEF RunOfRunning
    <3>2. procs[target[c]].state # "running"
      BY <1>1, <2>1 DEF Undisturbed, Known, StartPhase, StartLabels
    <3>3. home[mine[c]] = target[c]
      BY <1>2, <2>1 DEF StartPhase, StartLabels
    <3> QED BY <2>3, <3>1, <3>2, <3>3
  <2>4. RunningHasListened'
    BY <2>2, <2>3 DEF ListenOK, RunningHasListened
  <2>5. \A g \in Runs \ {mine[c]} : home[g] = target[c] => proc'[g] \in {"none", "gone"}
    BY <2>1, <2>2 DEF ListenOK
  <2> QED BY <2>2, <2>4, <2>5 DEF ListenOK
<1>10. CASE BindWaitDone(c)
  <2>1. /\ UNCHANGED <<procs, proc, mine, target, home>> /\ pc[c] = "bindWait"
        /\ \/ pc'[c] = "giveUp"
           \/ pc'[c] = "confirm" /\ ~PortFree(target[c])
    BY <1>1, <1>10 DEF BindWaitDone, Goto, callVars, supVars, osVars, TypeInv, TypeOK
  <2>2. CASE pc'[c] = "giveUp"
    BY <1>1, <2>1, <2>2, ListenKeeps DEF PortMine
  <2>3. CASE pc'[c] = "confirm" /\ ~PortFree(target[c])
    <3>1. PICK g \in Runs : home[g] = target[c] /\ proc[g] \in {"listening", "closing"}
      BY <2>3 DEF PortFree
    <3>2. g = mine[c]
      BY <2>1, <3>1 DEF ListenOK
    <3> QED BY <2>1, <2>3, <3>1, <3>2 DEF ListenOK, RunningHasListened
  <2> QED BY <2>1, <2>2, <2>3
<1>11. CASE Confirm(c)
  <2>1. /\ pc[c] = "confirm" /\ target[c] \in Ids /\ proc' = proc /\ Return(c, "ok")
        /\ LET m == procs[target[c]] IN
           m.run = mine[c] /\ Wrote(target[c], m.run, m.gen, "running", m.handle, "none")
    BY <1>1, <1>11, ConfirmDoes
  <2>2. pc'[c] = "idle"
    BY <1>1, <2>1, ReturnLeaves
  <2>3. proc[mine[c]] # "up"
    BY <2>1 DEF ListenOK
  <2>4. ASSUME NEW id \in Ids, procs'[id].state = "running" PROVE proc'[procs'[id].run] # "up"
    BY <2>1, <2>3, <2>4 DEF ListenOK, RunningHasListened, Wrote
  <2> QED BY <2>2, <2>4 DEF ListenOK, RunningHasListened
<1> QED
  BY <1>3, <1>4, <1>5, <1>6, <1>7, <1>8, <1>9, <1>10, <1>11 DEF StartStep

LEMMA StopStepListens ==
  ASSUME NEW c, Callers = {c}, TypeInv, OwnershipInv, OneCallerInv, ListenOK, StopStep(c)
  PROVE  ListenOK'
<1>1. c \in Callers /\ CallOK(c) /\ Undisturbed(c) /\ SettledOK(c) /\ OwnRun(c) /\ RunOfRunning
  BY SoloFacts, RunningRuns DEF OwnershipInv, OwnRunOK
<1>2. CASE NothingToStop(c)
  <2>1. UNCHANGED <<procs, proc>> /\ AfterStop(c, "ok")
    BY <1>2 DEF NothingToStop, supVars, osVars
  <2>2. pc'[c] \in {"idle", "start", "next"}
    BY <1>1, <2>1, AfterStopPlaces
  <2> QED BY <1>1, <2>1, <2>2, ListenKeeps DEF PortMine
<1>3. CASE CallOff(c)
  <2>1. pc[c] = "stop" /\ target[c] \in Ids /\ procs[target[c]].state = "starting"
    BY <1>1, <1>3, CallerTypes DEF CallOff
  <2> QED BY <1>1, <2>1 DEF SettledOK, StartPhase, StartLabels
<1>4. CASE BeginStop(c)
  <2>1. /\ pc'[c] = "terminate" /\ proc' = proc /\ target[c] \in Ids
        /\ LET m == procs[target[c]] IN
           Wrote(target[c], m.run, m.gen, "stopping", m.handle, m.err)
    BY <1>1, <1>4, BeginStopDoes
  <2> QED BY <1>1, <2>1, ListenKeeps DEF PortMine, Wrote
<1>5. CASE EndStop(c)
  <2>1. /\ pc[c] \in {"released", "unreleased"} /\ target[c] \in Ids /\ proc' = proc
        /\ LET m == procs[target[c]] IN
           m.run = mine[c] /\ m.gen = seen[c]
             => Wrote(target[c], m.run, m.gen, "stopped", FALSE, "none")
        /\ AfterStop(c, "ok") \/ AfterStop(c, "error")
    BY <1>1, <1>5, EndStopDoes
  <2>2. procs[target[c]].run = mine[c] /\ procs[target[c]].gen = seen[c]
    BY <1>1, <2>1 DEF Undisturbed, OwnRun, Current, Known, StopPhase
  <2>3. pc'[c] \in {"idle", "start", "next"}
    BY <1>1, <2>1, AfterStopPlaces
  <2> QED BY <1>1, <2>1, <2>2, <2>3, ListenKeeps DEF PortMine, Wrote
<1>6. CASE Kill(c)
  <2>1. /\ UNCHANGED <<procs, pc>> /\ pc[c] \in {"discard", "giveUp", "terminate"}
        /\ Alive(mine[c])
        /\ proc' = [proc EXCEPT ![mine[c]] = IF @ = "listening" THEN "closing" ELSE "gone"]
    BY <1>6 DEF Kill, supVars
  <2>2. \A g \in Runs : /\ proc'[g] = "up" => proc[g] = "up"
                        /\ proc[g] \in {"none", "gone"} => proc'[g] = proc[g]
    BY <2>1 DEF Alive, TypeInv, TypeOK
  <2> QED BY <1>1, <2>1, <2>2, ListenKeeps DEF PortMine
<1>7. CASE \/ Terminated(c) \/ ReleaseWaitDone(c) \/ Close(c) \/ Snapshot(c) \/ StopNext(c)
           \/ StoppedAll(c)
  <2>1. /\ UNCHANGED <<procs, proc>>
        /\ pc'[c] \in {"release", "released", "unreleased", "snapshot", "next", "stop", "idle"}
    BY <1>1, <1>7 DEF Terminated, ReleaseWaitDone, Close, Snapshot, StopNext, StoppedAll, Return,
                Goto, supVars, osVars, TypeInv, TypeOK
  <2> QED BY <1>1, <2>1, ListenKeeps DEF PortMine
<1> QED BY <1>2, <1>3, <1>4, <1>5, <1>6, <1>7 DEF StopStep

LEMMA OtherStepListens ==
  ASSUME NEW c, Callers = {c}, TypeInv, OwnershipInv, OneCallerInv, ListenOK,
         \/ Calls(c)
         \/ \E g \in Runs : Watch(g)
         \/ Environment
         \/ UNCHANGED vars
  PROVE  ListenOK'
<1>1. c \in Callers /\ OwnRun(c) /\ RunOfRunning
  BY SoloFacts, RunningRuns DEF OwnershipInv, OwnRunOK
<1>2. pc[c] \in PortMine \cup {"confirm"} => mine[c] \in Runs
  BY <1>1 DEF TypeInv, TargetOK, PortMine, StartPhase, StartLabels
<1>3. CASE Calls(c)
  <2>1. /\ UNCHANGED <<procs, proc>> /\ pc'[c] \in {"start", "stop", "snapshot", "close"}
    BY <1>1, <1>3 DEF Calls, CallStart, CallStop, CallStopAll, Goto, supVars, osVars,
                      TypeInv, TypeOK
  <2> QED BY <1>1, <2>1, ListenKeeps DEF PortMine
<1>4. ASSUME UNCHANGED <<pc, mine, target, home>>,
             \A id \in Ids : procs'[id].state = "running" =>
               procs[id].state = "running" /\ procs'[id].run = procs[id].run,
             \A g \in Runs : /\ proc'[g] = "up" => proc[g] = "up"
                             /\ proc[g] \in {"none", "gone"} => proc'[g] = proc[g]
      PROVE  ListenOK'
  <2>1. CASE pc[c] \in PortMine \cup {"confirm"}
    BY <1>1, <1>2, <1>4, <2>1, ListenKeeps
  <2>2. CASE pc[c] \notin PortMine \cup {"confirm"}
    BY <1>1, <1>4, <2>2, ListenKeeps
  <2> QED BY <2>1, <2>2
<1>5. ASSUME NEW g \in Runs, Watch(g) PROVE ListenOK'
  <2>1. /\ UNCHANGED <<pc, mine, target, home, proc>>
        /\ \/ procs' = procs
           \/ LET m == procs[home[g]] IN
              Wrote(home[g], m.run, m.gen, "failed", FALSE, procs'[home[g]].err)
    BY <1>5, WatchDoes
  <2>2. \A id \in Ids : procs'[id].state = "running" =>
          procs[id].state = "running" /\ procs'[id].run = procs[id].run
    BY <2>1 DEF Wrote
  <2> QED BY <1>4, <2>1, <2>2
<1>6. ASSUME NEW g \in Runs, ProcessListens(g) \/ ProcessExits(g) \/ SocketReleased(g)
      PROVE  ListenOK'
  <2>1. /\ UNCHANGED <<procs, pc, mine, target, home>>
        /\ proc[g] \in {"up", "listening", "closing"}
        /\ \/ proc' = [proc EXCEPT ![g] = "listening"]
           \/ proc' = [proc EXCEPT ![g] = IF @ = "listening" THEN "closing" ELSE "gone"]
           \/ proc' = [proc EXCEPT ![g] = "gone"]
    BY <1>6 DEF ProcessListens, ProcessExits, SocketReleased, Alive, supVars, callVars
  <2>2. \A h \in Runs : /\ proc'[h] = "up" => proc[h] = "up"
                        /\ proc[h] \in {"none", "gone"} => proc'[h] = proc[h]
    BY <2>1 DEF TypeInv, TypeOK
  <2> QED BY <1>4, <2>1, <2>2
<1>7. CASE (\E id \in Ids : OtherProgram(id)) \/ UNCHANGED vars
  <2>1. UNCHANGED <<procs, pc, mine, target, home, proc>>
    BY <1>7 DEF OtherProgram, vars, supVars, callVars
  <2> QED BY <1>4, <2>1
<1> QED BY <1>3, <1>5, <1>6, <1>7 DEF Environment

(* With one caller, and as long as no other program takes a port, a        *)
(* service shown as running has listened on its port.                      *)
THEOREM RunningMeansListening ==
  ASSUME NEW CONSTANT c, Callers = {c}
  PROVE  Spec => ListensUnlessPortTaken
<1>1. Init => ListenOK
  BY DEF Init, ListenOK, RunningHasListened, NotManaged
<1>2. TypeInv /\ OwnershipInv /\ OneCallerInv /\ ListenOK /\ taken = {} /\ [Next]_vars => ListenOK'
  BY StartStepListens, StopStepListens, OtherStepListens DEF Next, Step
<1>3. ListenOK => RunningHasListened
  BY DEF ListenOK
<1>4. Spec => [](TypeInv /\ OwnershipInv /\ OneCallerInv)
  BY OneCallerHolds
<1> QED BY <1>1, <1>2, <1>3, <1>4, PTL DEF Spec, ListensUnlessPortTaken
===============================================================================
