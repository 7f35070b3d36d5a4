--------------------------- MODULE SupervisorProofs ---------------------------
(***************************************************************************)
(* Theorems about the process supervisor, for any number of callers,       *)
(* services and starts.                                                    *)
(***************************************************************************)
EXTENDS SupervisorInv, TLAPS

LEMMA RunsAreNaturals == Runs \subseteq Nat /\ 0 \notin Runs
BY MaxStartsAssumption DEF Runs

(* What each write leaves in a managed record.                             *)
LEMMA StartingWrite ==
  ASSUME NEW g \in Runs
  PROVE  /\ Starting(g) \in Managed
         /\ Starting(g).run = g /\ Starting(g).gen = g
         /\ Starting(g).state = "starting"
         /\ Starting(g).handle = FALSE /\ Starting(g).err = "none"
BY RunsAreNaturals DEF Starting, Managed, States, Errors

LEMMA HandleWrite ==
  ASSUME NEW m \in Managed, NEW h \in BOOLEAN
  PROVE  /\ WithHandle(m, h) \in Managed
         /\ WithHandle(m, h).run = m.run
         /\ WithHandle(m, h).gen = m.gen
         /\ WithHandle(m, h).state = m.state
         /\ WithHandle(m, h).handle = h
         /\ WithHandle(m, h).err = m.err
BY DEF WithHandle, Managed, States, Errors

LEMMA RunningWrite ==
  ASSUME NEW m \in Managed
  PROVE  /\ Running(m) \in Managed
         /\ Running(m).run = m.run
         /\ Running(m).gen = m.gen
         /\ Running(m).state = "running"
         /\ Running(m).handle = m.handle
         /\ Running(m).err = "none"
BY DEF Running, Managed, States, Errors

LEMMA StoppingWrite ==
  ASSUME NEW m \in Managed
  PROVE  /\ Stopping(m) \in Managed
         /\ Stopping(m).run = m.run
         /\ Stopping(m).gen = m.gen
         /\ Stopping(m).state = "stopping"
         /\ Stopping(m).handle = m.handle
         /\ Stopping(m).err = m.err
BY DEF Stopping, Managed, States, Errors

LEMMA StoppedWrite ==
  ASSUME NEW m \in Managed
  PROVE  /\ Stopped(m) \in Managed
         /\ Stopped(m).run = m.run
         /\ Stopped(m).gen = m.gen
         /\ Stopped(m).state = "stopped"
         /\ Stopped(m).handle = FALSE
         /\ Stopped(m).err = "none"
BY DEF Stopped, Managed, States, Errors

LEMMA NeverStartedWrite ==
  ASSUME NEW m \in Managed, NEW g \in Nat
  PROVE  /\ NeverStarted(m, g) \in Managed
         /\ NeverStarted(m, g).run = m.run
         /\ NeverStarted(m, g).gen = g
         /\ NeverStarted(m, g).state = "stopped"
         /\ NeverStarted(m, g).handle = m.handle
         /\ NeverStarted(m, g).err = m.err
BY DEF NeverStarted, Managed, States, Errors

LEMMA FailedWrite ==
  ASSUME NEW m \in Managed, NEW e \in Errors
  PROVE  /\ Failed(m, e) \in Managed
         /\ Failed(m, e).run = m.run
         /\ Failed(m, e).gen = m.gen
         /\ Failed(m, e).state = "failed"
         /\ Failed(m, e).handle = FALSE
         /\ Failed(m, e).err = e
BY DEF Failed, Managed, States, Errors

LEMMA InitTypeInv == Init => TypeInv
<1> SUFFICES ASSUME Init PROVE TypeInv
  OBVIOUS
<1>1. NotManaged \in Managed
  BY DEF NotManaged, Managed, States, Errors
<1>2. starts \in 0 .. MaxStarts
  BY MaxStartsAssumption DEF Init
<1> QED
  BY <1>1, <1>2 DEF Init, TypeInv, TypeOK, TargetOK, StartLabels, StartPhase, Results, Operations, ProcStates

(* What a result or a finished Stop does to the callers' own variables.    *)
LEMMA ReturnTypeInv ==
  ASSUME TypeInv, NEW c \in Callers, NEW r \in Results, Return(c, r)
  PROVE  /\ pc' \in [Callers -> {"idle"} \cup StartLabels \cup StopLabels]
         /\ op' \in [Callers -> Operations]
         /\ target' \in [Callers -> Ids \cup {NoId}]
         /\ mine' \in [Callers -> Runs \cup {0}]
         /\ seen' \in [Callers -> Nat]
         /\ todo' \in [Callers -> SUBSET Ids]
         /\ ret' \in [Callers -> Results]
         /\ down' \in BOOLEAN
         /\ TargetOK'
BY DEF TypeInv, TypeOK, TargetOK, Return, Goto, DropLocals, Operations, StartLabels, StartPhase

LEMMA AfterStopTypeInv ==
  ASSUME TypeInv, NEW c \in Callers, NEW r \in Results, AfterStop(c, r),
         target[c] \in Ids
  PROVE  /\ pc' \in [Callers -> {"idle"} \cup StartLabels \cup StopLabels]
         /\ op' \in [Callers -> Operations]
         /\ target' \in [Callers -> Ids \cup {NoId}]
         /\ mine' \in [Callers -> Runs \cup {0}]
         /\ seen' \in [Callers -> Nat]
         /\ todo' \in [Callers -> SUBSET Ids]
         /\ ret' \in [Callers -> Results]
         /\ down' \in BOOLEAN
         /\ TargetOK'
<1>1. CASE Return(c, r)
  BY <1>1, ReturnTypeInv
<1>2. CASE Goto(c, "start") /\ DropLocals(c) /\ UNCHANGED <<waiting, ret, down>>
  BY <1>2 DEF TypeInv, TypeOK, TargetOK, Goto, DropLocals, waiting, StartLabels, StartPhase
<1>3. CASE /\ Goto(c, "next") /\ DropLocals(c) /\ UNCHANGED <<waiting, down>>
           /\ ret' = [ret EXCEPT ![c] = IF @ = "ok" THEN r ELSE @]
  BY <1>3 DEF TypeInv, TypeOK, TargetOK, Goto, DropLocals, waiting, StopLabels, StartLabels, StartPhase
<1> QED BY <1>1, <1>2, <1>3 DEF AfterStop

LEMMA StartStepTypeInv ==
  ASSUME TypeInv, NEW c \in Callers, StartStep(c)
  PROVE  TypeInv'
<1> USE DEF Results
<1>a. pc[c] # "idle" /\ pc[c] \notin {"close", "snapshot", "next"} => Known(c) \in Managed
  BY DEF TypeInv, TypeOK, TargetOK, Known
<1>1. CASE StartRefused(c)
  BY <1>1, ReturnTypeInv DEF StartRefused, TypeInv, TypeOK, supVars, osVars
<1>2. CASE StartAlready(c)
  BY <1>2, ReturnTypeInv DEF StartAlready, TypeInv, TypeOK, supVars, osVars
<1>3. CASE StartNew(c)
  <2>1. procs' \in [Ids -> Managed]
    BY <1>3, StartingWrite DEF StartNew, TypeInv, TypeOK
  <2> QED
    BY <1>3, <2>1, RunsAreNaturals DEF StartNew, TypeInv, TypeOK, TargetOK, Goto, StartLabels, StartPhase
<1>4. CASE PortWaitDone(c)
  BY <1>4 DEF PortWaitDone, TypeInv, TypeOK, TargetOK, Goto, supVars, osVars, callVars, StartLabels, StartPhase
<1>5. CASE CalledOff(c)
  BY <1>5, ReturnTypeInv DEF CalledOff, TypeInv, TypeOK, supVars, osVars
<1>6. CASE NotCalledOff(c)
  BY <1>6 DEF NotCalledOff, TypeInv, TypeOK, TargetOK, Goto, supVars, osVars, callVars, StartLabels, StartPhase
<1>7. CASE Spawn(c)
  BY <1>7 DEF Spawn, TypeInv, TypeOK, TargetOK, Goto, supVars, callVars, StartLabels, StartPhase, ProcStates
<1>8. CASE SpawnFails(c)
  BY <1>8 DEF SpawnFails, TypeInv, TypeOK, TargetOK, Goto, supVars, osVars, callVars, StartLabels, StartPhase
<1>9. CASE Adopt(c)
  <2>1. procs' \in [Ids -> Managed]
    BY <1>9, HandleWrite DEF Adopt, TypeInv, TypeOK
  <2> QED
    BY <1>9, <2>1 DEF Adopt, TypeInv, TypeOK, TargetOK, Goto, osVars, callVars, StartLabels, StartPhase
<1>10. CASE AdoptCalledOff(c)
  BY <1>10 DEF AdoptCalledOff, TypeInv, TypeOK, TargetOK, Goto, supVars, osVars, callVars, StartLabels, StartPhase
<1>11. CASE Discarded(c)
  <2>1. ret[c] \in Results BY DEF TypeInv, TypeOK
  <2> QED BY <1>11, <2>1, ReturnTypeInv DEF Discarded, TypeInv, TypeOK, supVars, osVars
<1>12. CASE BindWaitDone(c)
  BY <1>12 DEF BindWaitDone, TypeInv, TypeOK, TargetOK, Goto, supVars, osVars, callVars, StartLabels, StartPhase
<1>13. CASE GaveUp(c)
  BY <1>13 DEF GaveUp, TypeInv, TypeOK, TargetOK, Goto, supVars, osVars, callVars, StartLabels, StartPhase
<1>14. CASE Fail(c)
  <2>1. procs' \in [Ids -> Managed]
    BY <1>14, FailedWrite DEF Fail, TypeInv, TypeOK, Errors
  <2>2. Return(c, "error") /\ UNCHANGED <<gen, closing, osVars, watching, starts>>
    BY <1>14 DEF Fail
  <2> QED
    BY <2>1, <2>2, ReturnTypeInv DEF TypeInv, TypeOK, osVars
<1>15. CASE Confirm(c)
  <2>1. procs' \in [Ids -> Managed]
    BY <1>15, RunningWrite DEF Confirm, TypeInv, TypeOK
  <2>2. Return(c, "ok") /\ UNCHANGED <<gen, closing, osVars, watching, starts>>
    BY <1>15 DEF Confirm
  <2> QED
    BY <2>1, <2>2, ReturnTypeInv DEF TypeInv, TypeOK, osVars
<1>16. CASE ConfirmTooLate(c)
  BY <1>16, ReturnTypeInv DEF ConfirmTooLate, TypeInv, TypeOK, supVars, osVars
<1> QED
  BY <1>1, <1>2, <1>3, <1>4, <1>5, <1>6, <1>7, <1>8, <1>9, <1>10, <1>11, <1>12,
     <1>13, <1>14, <1>15, <1>16 DEF StartStep

LEMMA StopStepTypeInv ==
  ASSUME TypeInv, NEW c \in Callers, StopStep(c)
  PROVE  TypeInv'
<1> USE DEF Results
<1>a. pc[c] \in {"stop", "released", "unreleased"} => target[c] \in Ids /\ Known(c) \in Managed
  BY DEF TypeInv, TypeOK, TargetOK, Known
<1>1. CASE CallOff(c)
  <2>0. gen + 1 \in Nat /\ gen' \in Nat
    BY <1>1 DEF CallOff, TypeInv, TypeOK
  <2>1. procs' \in [Ids -> Managed]
    BY <1>1, <2>0, NeverStartedWrite DEF CallOff, TypeInv, TypeOK
  <2>2. AfterStop(c, "ok") /\ UNCHANGED <<closing, osVars, watching, starts>>
    BY <1>1 DEF CallOff
  <2>3. target[c] \in Ids
    BY <1>1, <1>a DEF CallOff
  <2> QED
    BY <2>0, <2>1, <2>2, <2>3, AfterStopTypeInv DEF TypeInv, TypeOK, osVars
<1>2. CASE NothingToStop(c)
  BY <1>2, <1>a, AfterStopTypeInv DEF NothingToStop, TypeInv, TypeOK, supVars, osVars
<1>3. CASE BeginStop(c)
  <2>1. procs' \in [Ids -> Managed]
    BY <1>3, StoppingWrite DEF BeginStop, TypeInv, TypeOK
  <2>2. mine' \in [Callers -> Runs \cup {0}] /\ seen' \in [Callers -> Nat]
    BY <1>3, <1>a DEF BeginStop, TypeInv, TypeOK, Managed
  <2> QED
    BY <1>3, <1>a, <2>1, <2>2 DEF BeginStop, TypeInv, TypeOK, TargetOK, Goto, osVars, StopLabels, StartLabels, StartPhase
<1>4. CASE Kill(c)
  BY <1>4 DEF Kill, TypeInv, TypeOK, TargetOK, supVars, callVars, ProcStates
<1>5. CASE Terminated(c)
  BY <1>5 DEF Terminated, TypeInv, TypeOK, TargetOK, Goto, supVars, osVars, callVars, StopLabels, StartLabels, StartPhase
<1>6. CASE ReleaseWaitDone(c)
  BY <1>6 DEF ReleaseWaitDone, TypeInv, TypeOK, TargetOK, Goto, supVars, osVars, callVars, StopLabels, StartLabels, StartPhase
<1>7. CASE EndStop(c)
  <2>1. procs' \in [Ids -> Managed]
    BY <1>7, StoppedWrite DEF EndStop, TypeInv, TypeOK
  <2>2. PICK r \in Results : AfterStop(c, r)
    BY <1>7 DEF EndStop
  <2>3. UNCHANGED <<gen, closing, osVars, watching, starts>> /\ target[c] \in Ids
    BY <1>7, <1>a DEF EndStop
  <2> QED
    BY <2>1, <2>2, <2>3, AfterStopTypeInv DEF TypeInv, TypeOK, osVars
<1>8. CASE Close(c)
  BY <1>8 DEF Close, TypeInv, TypeOK, TargetOK, Goto, osVars, callVars, StopLabels, StartLabels, StartPhase
<1>9. CASE Snapshot(c)
  BY <1>9 DEF Snapshot, TypeInv, TypeOK, TargetOK, Goto, supVars, osVars, StopLabels, StartLabels, StartPhase
<1>10. CASE StopNext(c)
  BY <1>10 DEF StopNext, TypeInv, TypeOK, TargetOK, Goto, supVars, osVars, StopLabels, StartLabels, StartPhase
<1>11. CASE StoppedAll(c)
  <2>1. ret[c] \in Results BY DEF TypeInv, TypeOK
  <2> QED BY <1>11, <2>1, ReturnTypeInv DEF StoppedAll, TypeInv, TypeOK, supVars, osVars
<1> QED
  BY <1>1, <1>2, <1>3, <1>4, <1>5, <1>6, <1>7, <1>8, <1>9, <1>10, <1>11 DEF StopStep

LEMMA OtherStepTypeInv ==
  ASSUME TypeInv,
         \/ \E c \in Callers : Calls(c)
         \/ \E g \in Runs : Watch(g)
         \/ Environment
         \/ UNCHANGED vars
  PROVE  TypeInv'
<1>1. ASSUME NEW c \in Callers, NEW id \in Ids, CallStart(c, id)
      PROVE  TypeInv'
  BY <1>1, MaxStartsAssumption DEF CallStart, TypeInv, TypeOK, TargetOK, Goto, supVars, osVars, Operations, StartLabels, StartPhase,
         StopLabels, Results
<1>2. ASSUME NEW c \in Callers, NEW id \in Ids, CallStop(c, id)
      PROVE  TypeInv'
  BY <1>2 DEF CallStop, TypeInv, TypeOK, TargetOK, Goto, supVars, osVars, Operations, StopLabels, StartLabels, StartPhase, Results
<1>3. ASSUME NEW c \in Callers, CallStopAll(c)
      PROVE  TypeInv'
  BY <1>3 DEF CallStopAll, TypeInv, TypeOK, TargetOK, Goto, supVars, osVars, Operations, StopLabels,
         StartLabels, StartPhase, Results
<1>4. ASSUME NEW g \in Runs, Watch(g)
      PROVE  TypeInv'
  <2>1. procs' \in [Ids -> Managed]
    <3>1. ASSUME NEW id \in Ids
          PROVE  WithHandle(procs[id], FALSE) \in Managed /\ Failed(procs[id], "exit") \in Managed
      BY ZenonT(60), FailedWrite, HandleWrite DEF TypeInv, TypeOK, Errors
    <3> DEFINE id == home[g]
    <3>2. \/ procs' = procs
          \/ procs' = [procs EXCEPT ![id] = WithHandle(procs[id], FALSE)]
          \/ procs' = [procs EXCEPT ![id] = Failed(procs[id], "exit")]
      BY <1>4 DEF Watch
    <3>3. procs \in [Ids -> Managed]
      BY DEF TypeInv, TypeOK
    <3> HIDE DEF id
    <3> QED BY <3>1, <3>2, <3>3
  <2>2. /\ watching' = watching \ {g}
        /\ UNCHANGED <<gen, closing, pc, callVars, ret, osVars, starts, down>>
    BY <1>4 DEF Watch
  <2> QED
    BY <2>1, <2>2 DEF TypeInv, TypeOK, TargetOK, osVars, callVars
<1>5. ASSUME NEW g \in Runs, ProcessListens(g) \/ ProcessExits(g) \/ SocketReleased(g)
      PROVE  TypeInv'
  BY <1>5 DEF ProcessListens, ProcessExits, SocketReleased, TypeInv, TypeOK, TargetOK,
         supVars, callVars, ProcStates
<1>6. ASSUME NEW id \in Ids, OtherProgram(id)
      PROVE  TypeInv'
  BY <1>6 DEF OtherProgram, TypeInv, TypeOK, TargetOK, supVars, callVars
<1>7. CASE UNCHANGED vars
  BY <1>7 DEF vars, TypeInv, TypeOK, TargetOK
<1> QED BY <1>1, <1>2, <1>3, <1>4, <1>5, <1>6, <1>7 DEF Calls, Environment

(* The supervisor's records always keep their shape.                       *)
THEOREM TypeCorrect == Spec => []TypeOK
<1>1. TypeInv /\ [Next]_vars => TypeInv'
  BY StartStepTypeInv, StopStepTypeInv, OtherStepTypeInv DEF Next, Step
<1>2. TypeInv => TypeOK
  BY DEF TypeInv
<1> QED BY <1>1, <1>2, InitTypeInv, PTL DEF Spec
===============================================================================
