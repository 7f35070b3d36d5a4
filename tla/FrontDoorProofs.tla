---------------------------- MODULE FrontDoorProofs ----------------------------
(***************************************************************************)
(* Theorems about the daemon's projects and its front door, for any number *)
(* of projects, webservers and ports.                                      *)
(***************************************************************************)
EXTENDS FrontDoor, FiniteSetTheorems, SequenceTheorems, TLAPS

-----------------------------------------------------------------------------
(* What a supervisor call leaves is a process again.                       *)
LEMMA CallTypes ==
  ASSUME NEW C, NEW process \in Processes(C), NEW conf \in C \cup {NoConf},
         conf \in C, NEW bindable
  PROVE  /\ \A call \in StartOf(process, conf, bindable) : call.process \in Processes(C)
         /\ \A call \in StopOf(process) : call.process \in Processes(C)
         /\ \A call \in RestartOf(process, conf, bindable) : call.process \in Processes(C)
<1>1. Down("stopped") \in Processes(C) /\ Down("failed") \in Processes(C)
  BY DEF Down, Processes
<1>2. Running(conf) \in Processes(C)
  BY DEF Running, Processes
<1>3. ASSUME NEW old \in Processes(C)
      PROVE  \A call \in StartOf(old, conf, bindable) : call.process \in Processes(C)
  BY <1>1, <1>2, <1>3 DEF StartOf, Done, Fault, Forced
<1>4. \A call \in StopOf(process) : call.process \in Processes(C)
  BY <1>1 DEF StopOf, Done, Fault
<1>5. \A call \in RestartOf(process, conf, bindable) : call.process \in Processes(C)
  BY <1>1, <1>3 DEF RestartOf, Fault
<1> QED
  BY <1>3, <1>4, <1>5

LEMMA ServedTypes ==
  ASSUME TypeOK
  PROVE  FrontConf \in FrontConfs
<1>1. /\ active \in Servers
      /\ port \in [Projects -> Ports \cup {0}] /\ lan \in [Projects -> Ports \cup {0}]
  BY DEF TypeOK
<1>2. ServedRoutes \in [Projects -> Routes]
  <2>1. Ports \cup {0} \subseteq Routes /\ Unserved \in Routes /\ Direct \in Routes
    BY DEF Routes, Unserved, Direct
  <2> QED
    BY <1>1, <2>1 DEF ServedRoutes
<1>3. ServedShares \in [Projects -> Ports \cup {0}]
  BY <1>1 DEF ServedShares
<1> QED
  BY <1>1, <1>2, <1>3 DEF FrontConf, FrontConfs

LEMMA FrontTypes ==
  ASSUME TypeOK
  PROVE  /\ \A call \in FrontRestarts : call.process \in Processes(FrontConfs)
         /\ \A call \in Applied : call.process \in Processes(FrontConfs)
         /\ \A call \in Reloaded : call.process \in Processes(FrontConfs)
         /\ \A call \in Settled : call.process \in Processes(FrontConfs)
<1>1. front \in Processes(FrontConfs) /\ FrontConf \in FrontConfs
  BY ServedTypes DEF TypeOK
<1>2. \A binds \in FrontBinds : \A call \in RestartOf(front, FrontConf, binds) :
        call.process \in Processes(FrontConfs)
  BY <1>1, CallTypes
<1>3. \A call \in StopOf(front) : call.process \in Processes(FrontConfs)
  BY <1>1, CallTypes
<1>4. \A call \in FrontRestarts : call.process \in Processes(FrontConfs)
  BY <1>1, <1>2 DEF FrontRestarts, Fault
<1>5. \A call \in Reloaded : call.process \in Processes(FrontConfs)
  BY <1>1, <1>4 DEF Reloaded, Done
<1> QED
  BY <1>3, <1>4, <1>5 DEF Applied, Settled

-----------------------------------------------------------------------------
(* A job stays a job.                                                      *)
LEMMA TailsOfPlans ==
  ASSUME NEW S, NEW s \in Seq(S), s # <<>>
  PROVE  /\ Tail(s) \in Seq(S)
         /\ Len(Tail(s)) = Len(s) - 1
         /\ \A i \in 1 .. Len(Tail(s)) : Tail(s)[i] = s[i + 1]
         /\ Head(s) = s[1]
BY HeadTailProperties

LEMMA JobTypes ==
  ASSUME TypeOK
  PROVE  /\ job.todo # <<>> /\ GoOn => job' \in Jobs
         /\ job.todo # <<>> /\ GoOnAnyway => job' \in Jobs
         /\ GiveUp => job' \in Jobs
         /\ \A call : job.todo # <<>> /\ (Then(call) \/ ThenAnyway(call)) => job' \in Jobs
<1>1. job \in Jobs
  BY DEF TypeOK
<1>2. job.todo # <<>> => Tail(job.todo) \in Seq(Steps)
  BY <1>1, TailsOfPlans DEF Jobs
<1>3. <<>> \in Seq(Steps)
  BY EmptySeq
<1>4. job.todo # <<>> /\ GoOn => job' \in Jobs
  BY <1>1, <1>2 DEF GoOn, Jobs
<1>5. job.todo # <<>> /\ GoOnAnyway => job' \in Jobs
  BY <1>1, <1>2 DEF GoOnAnyway, Jobs
<1>6. GiveUp => job' \in Jobs
  BY <1>1, <1>3 DEF GiveUp, Jobs
<1> QED
  BY <1>4, <1>5, <1>6 DEF Then, ThenAnyway
-----------------------------------------------------------------------------
(* What each operation sets out to do is a plan.  Steps outside Marked say *)
(* nothing of the ledgers.                                                 *)
Marked == {"share", "unregister", "clear", "wipe"}
QuietSteps == (Tasks \ Marked) \X (Projects \cup {NoProject})
QuietPlans == Seq(QuietSteps)

LEMMA QuietPlansArePlans == QuietPlans \subseteq Seq(Steps)
<1>1. QuietSteps \subseteq Steps
  BY DEF QuietSteps, Steps
<1> QED
  BY <1>1, SeqMonotonic DEF QuietPlans

LEMMA ShortPlans ==
  ASSUME NEW S, NEW a \in S, NEW b \in S, NEW c \in S, NEW d \in S, NEW e \in S
  PROVE  /\ <<>> \in Seq(S) /\ <<a>> \in Seq(S) /\ <<a, b>> \in Seq(S)
         /\ <<a, b, c>> \in Seq(S) /\ <<a, b, c, d>> \in Seq(S)
         /\ <<a, b, c, d, e>> \in Seq(S)
OBVIOUS

LEMMA QuietPlanTypes ==
  ASSUME NEW p \in Projects \cup {NoProject}
  PROVE  /\ <<>> \in QuietPlans
         /\ StartPlan(p) \in QuietPlans
         /\ <<<<"php", p>>, <<"rules", p>>>> \in QuietPlans
         /\ <<<<"port", p>>, <<"restart", p>>, <<"apply", p>>>> \in QuietPlans
         /\ <<<<"php", p>>, <<"port", p>>, <<"restart", p>>, <<"apply", p>>>> \in QuietPlans
         /\ <<<<"serve", p>>>> \in QuietPlans
         /\ <<<<"evict", p>>>> \in QuietPlans
         /\ <<<<"reload", p>>>> \in QuietPlans
         /\ <<<<"php", p>>, <<"reload", p>>>> \in QuietPlans
         /\ <<<<"apply", p>>>> \in QuietPlans
         /\ <<<<"settle", p>>>> \in QuietPlans
         /\ <<<<"stop", p>>, <<"settle", p>>>> \in QuietPlans
         /\ <<<<"take back", p>>, <<"reapply", p>>>> \in QuietPlans
         /\ <<<<"stop all", p>>>> \in QuietPlans
<1>1. \A task \in Tasks \ Marked : <<task, p>> \in QuietSteps
  BY DEF QuietSteps
<1>2. /\ <<"rules", p>> \in QuietSteps /\ <<"php", p>> \in QuietSteps
      /\ <<"port", p>> \in QuietSteps /\ <<"start", p>> \in QuietSteps
      /\ <<"apply", p>> \in QuietSteps /\ <<"restart", p>> \in QuietSteps
      /\ <<"serve", p>> \in QuietSteps /\ <<"evict", p>> \in QuietSteps
      /\ <<"reload", p>> \in QuietSteps /\ <<"settle", p>> \in QuietSteps
      /\ <<"stop", p>> \in QuietSteps /\ <<"take back", p>> \in QuietSteps
      /\ <<"reapply", p>> \in QuietSteps /\ <<"stop all", p>> \in QuietSteps
  BY <1>1 DEF Tasks, Marked
<1>3. StartPlan(p) \in QuietPlans
  BY <1>2, ShortPlans DEF StartPlan, QuietPlans
<1>4. \A a, b, c, d \in QuietSteps :
        /\ <<a>> \in QuietPlans /\ <<a, b>> \in QuietPlans
        /\ <<a, b, c>> \in QuietPlans /\ <<a, b, c, d>> \in QuietPlans
  BY ShortPlans DEF QuietPlans
<1>5. /\ <<<<"serve", p>>>> \in QuietPlans /\ <<<<"evict", p>>>> \in QuietPlans
      /\ <<<<"reload", p>>>> \in QuietPlans /\ <<<<"apply", p>>>> \in QuietPlans
      /\ <<<<"settle", p>>>> \in QuietPlans /\ <<<<"stop all", p>>>> \in QuietPlans
  <2>1. \A a \in QuietSteps : <<a>> \in QuietPlans
    BY <1>4
  <2> QED
    BY <1>2, <2>1
<1>6. /\ <<<<"php", p>>, <<"rules", p>>>> \in QuietPlans
      /\ <<<<"php", p>>, <<"reload", p>>>> \in QuietPlans
      /\ <<<<"stop", p>>, <<"settle", p>>>> \in QuietPlans
      /\ <<<<"take back", p>>, <<"reapply", p>>>> \in QuietPlans
  BY <1>2, <1>4
<1>7. <<<<"port", p>>, <<"restart", p>>, <<"apply", p>>>> \in QuietPlans
  BY <1>2, <1>4
<1>8. <<<<"php", p>>, <<"port", p>>, <<"restart", p>>, <<"apply", p>>>> \in QuietPlans
  BY <1>2, <1>4
<1>9. <<>> \in QuietPlans
  BY EmptySeq DEF QuietPlans
<1> QED
  BY <1>3, <1>5, <1>6, <1>7, <1>8, <1>9

LEMMA EachTypes ==
  ASSUME NEW n \in Nat, NEW order \in [1 .. n -> Projects], NEW task \in Tasks \ Marked
  PROVE  Each(task, order) \in QuietPlans
<1>1. order \in Seq(Projects)
  BY SeqDef
<1>2. Len(order) \in Nat /\ \A i \in 1 .. Len(order) : order[i] \in Projects
  BY <1>1, LenProperties
<1>3. Each(task, order) \in [1 .. Len(order) -> QuietSteps]
  BY <1>2 DEF Each, QuietSteps
<1> QED
  BY <1>2, <1>3, SeqDef DEF QuietPlans

LEMMA SwitchPlanTypes ==
  ASSUME registered \subseteq Projects, NEW order \in Orders(registered)
  PROVE  SwitchPlan(order) \in QuietPlans
<1>1. Cardinality(registered) \in Nat
  BY ProjectsAssumption, FS_Subset, FS_CardinalityType
<1>2. order \in [1 .. Cardinality(registered) -> Projects]
  BY DEF Orders
<1>3. /\ Each("evict", order) \in QuietPlans
      /\ Each("port", order) \in QuietPlans
      /\ Each("start", order) \in QuietPlans
  BY <1>1, <1>2, EachTypes DEF Tasks, Marked
<1>4. <<<<"apply", NoProject>>>> \in QuietPlans
  BY QuietPlanTypes
<1>5. Each("evict", order) \o Each("port", order) \in QuietPlans
  BY <1>3, ConcatProperties DEF QuietPlans
<1>6. Each("evict", order) \o Each("port", order) \o <<<<"apply", NoProject>>>> \in QuietPlans
  BY <1>4, <1>5, ConcatProperties DEF QuietPlans
<1> QED
  BY <1>3, <1>6, ConcatProperties DEF QuietPlans, SwitchPlan

-----------------------------------------------------------------------------
(* Types are kept.                                                         *)
LEMMA BeginTypes ==
  ASSUME NEW op \in Operations, NEW p \in Projects \cup {NoProject},
         NEW todo \in Seq(Steps), Begin(op, p, todo),
         p \in Projects \/ op \notin {"start", "already", "restart"}
  PROVE  job' \in Jobs
BY DEF Begin, Jobs

LEMMA MarkedPlanTypes ==
  ASSUME NEW p \in Projects
  PROVE  /\ <<<<"try stop", p>>, <<"unregister", p>>, <<"settle", p>>>> \in Seq(Steps)
         /\ <<<<"share", p>>, <<"apply", p>>>> \in Seq(Steps)
<1>1. /\ <<"try stop", p>> \in Steps /\ <<"unregister", p>> \in Steps
      /\ <<"settle", p>> \in Steps /\ <<"share", p>> \in Steps /\ <<"apply", p>> \in Steps
  BY DEF Steps, Tasks
<1>2. \A a, b, c \in Steps : <<a, b>> \in Seq(Steps) /\ <<a, b, c>> \in Seq(Steps)
  BY ShortPlans
<1> QED
  BY <1>1, <1>2

LEMMA ResetPlanType ==
  <<<<"stop all", NoProject>>, <<"clear", NoProject>>, <<"wipe", NoProject>>>> \in Seq(Steps)
<1>1. /\ <<"stop all", NoProject>> \in Steps /\ <<"clear", NoProject>> \in Steps
      /\ <<"wipe", NoProject>> \in Steps
  BY DEF Steps, Tasks
<1> QED
  BY <1>1, ShortPlans

(* After a call, whatever its result.                                      *)
LEMMA ThenTypes ==
  ASSUME TypeOK, job.todo # <<>>
  PROVE  /\ NoTrouble \/ Trouble => trouble' \in 0 .. MaxTrouble
         /\ \A call : Then(call) \/ ThenAnyway(call) \/ ThenTakeBack(call) =>
              job' \in Jobs /\ trouble' \in 0 .. MaxTrouble
<1>1. NoTrouble \/ Trouble => trouble' \in 0 .. MaxTrouble
  BY MaxTroubleAssumption DEF TypeOK, NoTrouble, Trouble
<1>2. ASSUME NEW call, ThenTakeBack(call)
      PROVE  job' \in Jobs
  <2>1. job \in Jobs /\ job.project \in Projects \cup {NoProject}
    BY DEF TypeOK, Jobs
  <2>2. <<<<"take back", job.project>>, <<"reapply", job.project>>>> \in Seq(Steps)
    BY <2>1, QuietPlanTypes, QuietPlansArePlans
  <2>3. CASE GoOn
    BY <2>3, JobTypes
  <2>4. CASE job' = [job EXCEPT !.todo = <<<<"take back", job.project>>,
                                            <<"reapply", job.project>>>>, !.err = TRUE]
    BY <2>1, <2>2, <2>4 DEF Jobs
  <2> QED
    BY <1>2, <2>3, <2>4 DEF ThenTakeBack
<1>3. ASSUME NEW call, Then(call) \/ ThenAnyway(call) \/ ThenTakeBack(call)
      PROVE  job' \in Jobs /\ trouble' \in 0 .. MaxTrouble
  BY <1>1, <1>2, <1>3, JobTypes DEF Then, ThenAnyway, ThenTakeBack
<1> QED
  BY <1>1, <1>3

(* A call about the front door.                                            *)
LEMMA FrontStepTypes ==
  ASSUME TypeOK, NEW call, call.process \in Processes(FrontConfs), FrontIs(call),
         job' \in Jobs, trouble' \in 0 .. MaxTrouble, UNCHANGED ledgers,
         stale' \in BOOLEAN
  PROVE  TypeOK'
BY DEF TypeOK, FrontIs, cfgVars, ledgers, phpVars

(* A call about a project's own instance.                                  *)
LEMMA OwnStepTypes ==
  ASSUME TypeOK, NEW p \in Projects, NEW call, call.process \in Processes(OwnConfs),
         OwnIs(p, call), job' \in Jobs, trouble' \in 0 .. MaxTrouble
  PROVE  TypeOK'
BY DEF TypeOK, OwnIs, cfgVars, ledgers, phpVars

LEMMA FrontActionTypes ==
  ASSUME TypeOK, NEW p \in Projects \cup {NoProject},
         Apply(p) \/ Reload(p) \/ Serve(p) \/ Settle(p) \/ Reapply(p)
  PROVE  TypeOK'
<1>1. PICK call \in FrontRestarts \cup Applied \cup Reloaded \cup Settled :
        /\ FrontIs(call)
        /\ Then(call) \/ ThenAnyway(call) \/ ThenTakeBack(call)
  BY DEF Apply, Reload, Serve, Settle, Reapply
<1>2. job.todo # <<>> /\ UNCHANGED ledgers
  BY DEF Apply, Reload, Serve, Settle, Reapply, Doing
<1>3. call.process \in Processes(FrontConfs)
  BY FrontTypes
<1>4. job' \in Jobs /\ trouble' \in 0 .. MaxTrouble
  BY <1>1, <1>2, ThenTypes
<1>5. stale' \in BOOLEAN
  BY <1>1 DEF FrontIs, TypeOK
<1> QED
  BY <1>1, <1>2, <1>3, <1>4, <1>5, FrontStepTypes

LEMMA OwnActionTypes ==
  ASSUME TypeOK, NEW p \in Projects,
         StartOwn(p) \/ RestartOwn(p) \/ StopOwn(p) \/ TryStopOwn(p) \/ Evict(p)
  PROVE  TypeOK'
<1> DEFINE starts == StartOf(own[p], OwnConf(p), Bindable(p))
           restarts == RestartOf(own[p], OwnConf(p), Bindable(p))
<1>1. PICK call : /\ \/ call \in {Done(own[p]), Fault(own[p]), Forced(own[p])} \cup StopOf(own[p])
                     \/ OwnInstance(p) /\ port[p] # 0 /\ call \in starts \cup restarts
                  /\ OwnIs(p, call)
                  /\ Then(call) \/ ThenAnyway(call)
  BY DEF StartOwn, RestartOwn, StopOwn, TryStopOwn, Evict, WithSpec
<1>2. job.todo # <<>>
  BY DEF StartOwn, RestartOwn, StopOwn, TryStopOwn, Evict, Doing
<1>3. own[p] \in Processes(OwnConfs)
  BY DEF TypeOK
<1>4. OwnInstance(p) /\ port[p] # 0 => OwnConf(p) \in OwnConfs
  BY DEF TypeOK, OwnInstance, OwnConf, OwnConfs
<1>5. CASE call \in {Done(own[p]), Fault(own[p]), Forced(own[p])} \cup StopOf(own[p])
  <2>1. \A c \in StopOf(own[p]) : c.process \in Processes(OwnConfs)
    BY <1>3 DEF StopOf, Done, Fault, Down, Processes
  <2>2. call.process \in Processes(OwnConfs)
    BY <1>3, <1>5, <2>1 DEF Done, Fault, Forced
  <2> QED
    BY <1>1, <1>2, <2>2, ThenTypes, OwnStepTypes
<1>6. CASE OwnInstance(p) /\ port[p] # 0 /\ call \in starts \cup restarts
  <2>1. /\ \A c \in StartOf(own[p], OwnConf(p), Bindable(p)) : c.process \in Processes(OwnConfs)
        /\ \A c \in RestartOf(own[p], OwnConf(p), Bindable(p)) : c.process \in Processes(OwnConfs)
    BY <1>3, <1>4, <1>6, CallTypes
  <2>2. call.process \in Processes(OwnConfs)
    BY <1>3, <1>6, <2>1 DEF Fault
  <2> QED
    BY <1>1, <1>2, <2>2, ThenTypes, OwnStepTypes
<1> QED
  BY <1>1, <1>5, <1>6

LEMMA StepKeepsTypes ==
  ASSUME TypeOK, Step
  PROVE  TypeOK'
<1>1. CASE Return
  <2>1. job' \in Jobs
    BY <1>1, EmptySeq DEF Return, Idle, Jobs, Operations
  <2>2. /\ started' \subseteq Projects /\ shared' \subseteq Projects
        /\ failed' \subseteq Projects
    <3>1. CASE job.err /\ job.op \in {"start", "restart"}
      BY <1>1, <3>1 DEF Return, StartFailed, TypeOK, Jobs
    <3>2. CASE UNCHANGED ledgers
      BY <3>2 DEF TypeOK, ledgers
    <3> QED
      BY <1>1, <3>1, <3>2 DEF Return
  <2> QED
    BY <1>1, <2>1, <2>2 DEF Return, TypeOK, cfgVars, processes, Jobs
<1>2. CASE StopEverything
  <2>1. /\ front' \in Processes(FrontConfs) /\ php' \in Processes({NoConf})
        /\ own' \in [Projects -> Processes(OwnConfs)] /\ phpLost' \in BOOLEAN
    BY <1>2 DEF StopEverything, TypeOK, Down, Processes
  <2>2. job' \in Jobs /\ trouble' \in 0 .. MaxTrouble
    BY <1>2, JobTypes, ThenTypes DEF StopEverything, Doing
  <2>3. stale' \in BOOLEAN /\ edited' \in BOOLEAN
    BY <1>2 DEF StopEverything, TypeOK
  <2> QED
    BY <1>2, <2>1, <2>2, <2>3 DEF StopEverything, TypeOK, cfgVars, ledgers
<1>3. CASE Clear
  <2>1. job' \in Jobs /\ trouble' \in 0 .. MaxTrouble
    BY <1>3, JobTypes, ThenTypes DEF Clear, Doing
  <2> QED
    BY <1>3, <2>1 DEF Clear, ClearStarted, TypeOK, cfgVars, processes
<1>4. CASE Wipe
  <2>1. job' \in Jobs /\ trouble' \in 0 .. MaxTrouble
    BY <1>4, JobTypes, ThenTypes DEF Wipe, Doing
  <2> QED
    BY <1>4, <2>1 DEF Wipe, TypeOK, cfgVars, ledgers, processes
<1>5. ASSUME NEW p \in Projects \cup {NoProject}, Apply(p) \/ Reload(p)
      PROVE  TypeOK'
  BY <1>5, FrontActionTypes
<1>6. ASSUME NEW p \in Projects \cup {NoProject}, EnsurePHP(p)
      PROVE  TypeOK'
  <2>1. PICK call \in {Fault(php)} \cup StartOf(php, NoConf, TRUE) :
          /\ php' = call.process /\ Then(call)
          /\ phpLost' = (phpLost /\ call.result # "ok")
    BY <1>6 DEF EnsurePHP
  <2>2. php' \in Processes({NoConf})
    BY <2>1 DEF TypeOK, StartOf, Fault, Done, Forced, Down, Running, Processes
  <2>3. job' \in Jobs /\ trouble' \in 0 .. MaxTrouble
    BY <1>6, <2>1, ThenTypes DEF EnsurePHP, Doing
  <2> QED
    BY <1>6, <2>1, <2>2, <2>3 DEF EnsurePHP, TypeOK, cfgVars, ledgers
<1>7. ASSUME NEW p \in Projects, Serve(p) \/ Settle(p) \/ Reapply(p)
      PROVE  TypeOK'
  BY <1>7, FrontActionTypes
<1>8. ASSUME NEW p \in Projects, TakeBack(p)
      PROVE  TypeOK'
  <2>1. job' \in Jobs /\ trouble' \in 0 .. MaxTrouble
    BY <1>8, JobTypes, ThenTypes DEF TakeBack, Doing
  <2> QED
    BY <1>8, <2>1 DEF TakeBack, TypeOK, cfgVars, processes
<1>9. ASSUME NEW p \in Projects, CheckRules(p)
      PROVE  TypeOK'
  <2>1. job' \in Jobs /\ trouble' \in 0 .. MaxTrouble
    BY <1>9, JobTypes, ThenTypes DEF CheckRules, Doing
  <2> QED
    BY <1>9, <2>1 DEF CheckRules, TypeOK, cfgVars, ledgers, processes
<1>10. ASSUME NEW p \in Projects, OwnPort(p)
      PROVE  TypeOK'
  <2>1. job' \in Jobs /\ trouble' \in 0 .. MaxTrouble
    BY <1>10, JobTypes, ThenTypes DEF OwnPort, Doing
  <2>2. port' \in [Projects -> Ports \cup {0}] /\ byHand' \subseteq Slots
    BY <1>10 DEF OwnPort, TypeOK, Ports
  <2> QED
    BY <1>10, <2>1, <2>2 DEF OwnPort, TypeOK, ledgers, processes
<1>11. ASSUME NEW p \in Projects,
              StartOwn(p) \/ RestartOwn(p) \/ StopOwn(p) \/ TryStopOwn(p) \/ Evict(p)
      PROVE  TypeOK'
  BY <1>11, OwnActionTypes
<1>12. ASSUME NEW p \in Projects, Unregister(p)
      PROVE  TypeOK'
  <2>1. job' \in Jobs /\ trouble' \in 0 .. MaxTrouble
    BY <1>12, JobTypes, ThenTypes DEF Unregister, Doing
  <2>2. /\ registered' \subseteq Projects /\ pin' \in [Projects -> Servers \cup {NoServer}]
        /\ port' \in [Projects -> Ports \cup {0}] /\ lan' \in [Projects -> Ports \cup {0}]
        /\ byHand' \subseteq Slots
    BY <1>12 DEF Unregister, Forget, TypeOK
  <2> QED
    BY <1>12, <2>1, <2>2 DEF Unregister, TypeOK, ledgers, processes
<1>13. ASSUME NEW p \in Projects, SharePort(p)
      PROVE  TypeOK'
  <2>1. job' \in Jobs /\ trouble' \in 0 .. MaxTrouble
    BY <1>13, JobTypes, ThenTypes DEF SharePort, Doing
  <2>2. /\ lan' \in [Projects -> Ports \cup {0}] /\ shared' \subseteq Projects
        /\ byHand' \subseteq Slots
    BY <1>13 DEF SharePort, TypeOK, Ports
  <2> QED
    BY <1>13, <2>1, <2>2 DEF SharePort, TypeOK, processes
<1> QED
  BY <1>1, <1>2, <1>3, <1>4, <1>5, <1>6, <1>7, <1>8, <1>9, <1>10, <1>11, <1>12, <1>13 DEF Step

(* Operations write the ledgers and set out on their plan, nothing else.   *)
LEMMA LedgerTypes ==
  ASSUME TypeOK, NEW p \in Projects,
         SetStarted(p) \/ SetStopped(p) \/ ClearStarted \/ UNCHANGED ledgers
  PROVE  started' \subseteq Projects /\ failed' \subseteq Projects /\ shared' \subseteq Projects
BY DEF TypeOK, SetStarted, SetStopped, ClearStarted, ledgers

LEMMA StartLockedTypes ==
  ASSUME TypeOK, NEW p \in Projects, StartLocked(p)
  PROVE  /\ job' \in Jobs
         /\ started' \subseteq Projects /\ failed' \subseteq Projects /\ shared' \subseteq Projects
<1>1. CASE Begin("already", p, <<>>) /\ UNCHANGED ledgers
  BY <1>1, QuietPlanTypes, QuietPlansArePlans, BeginTypes, LedgerTypes DEF Operations
<1>2. CASE Begin("start", p, StartPlan(p)) /\ SetStarted(p)
  <2>1. StartPlan(p) \in Seq(Steps)
    BY QuietPlanTypes, QuietPlansArePlans
  <2> QED
    BY <1>2, <2>1, BeginTypes, LedgerTypes DEF Operations
<1> QED
  BY <1>1, <1>2 DEF StartLocked

LEMMA ProjectOperationKeepsTypes ==
  ASSUME TypeOK, NEW p \in Projects,
         \/ StartProject(p) \/ StopProject(p) \/ RestartProject(p) \/ RemoveProject(p)
         \/ StartAdded(p) \/ Share(p) \/ Unshare(p)
  PROVE  TypeOK'
<1>1. \A plan \in QuietPlans : plan \in Seq(Steps)
  BY QuietPlansArePlans
<1>2. CASE StartProject(p)
  BY <1>2, StartLockedTypes DEF StartProject, TypeOK, cfgVars, processes
<1>3. CASE StopProject(p)
  <2>1. job' \in Jobs
    BY <1>1, <1>3, QuietPlanTypes, BeginTypes DEF StopProject, Operations
  <2> QED
    BY <1>3, <2>1, LedgerTypes DEF StopProject, TypeOK, cfgVars, processes
<1>4. CASE RestartProject(p)
  <2>1. /\ <<<<"php", p>>, <<"rules", p>>>> \o <<<<"port", p>>, <<"restart", p>>, <<"apply", p>>>>
             \in QuietPlans
        /\ <<<<"php", p>>, <<"rules", p>>>> \o <<<<"serve", p>>>> \in QuietPlans
    BY QuietPlanTypes, ConcatProperties DEF QuietPlans
  <2>2. job' \in Jobs
    BY <1>1, <1>4, <2>1, BeginTypes DEF RestartProject, Operations
  <2> QED
    BY <1>4, <2>2, LedgerTypes DEF RestartProject, TypeOK, cfgVars, processes
<1>5. CASE RemoveProject(p)
  <2>1. job' \in Jobs
    BY <1>5, MarkedPlanTypes, BeginTypes DEF RemoveProject, Operations
  <2> QED
    BY <1>5, <2>1, LedgerTypes DEF RemoveProject, TypeOK, cfgVars, processes
<1>6. CASE StartAdded(p)
  <2>1. /\ job' \in Jobs
        /\ started' \subseteq Projects /\ failed' \subseteq Projects /\ shared' \subseteq Projects
    BY <1>6, StartLockedTypes DEF StartAdded, TypeOK, ledgers
  <2>2. pending' \subseteq Projects
    BY <1>6 DEF StartAdded, TypeOK
  <2> QED
    BY <1>6, <2>1, <2>2 DEF StartAdded, TypeOK, cfgVars, processes
<1>7. CASE Share(p)
  <2>1. job' \in Jobs
    BY <1>7, MarkedPlanTypes, BeginTypes DEF Share, Operations
  <2> QED
    BY <1>7, <2>1 DEF Share, TypeOK, cfgVars, ledgers, processes
<1>8. CASE Unshare(p)
  <2>1. job' \in Jobs
    BY <1>1, <1>8, QuietPlanTypes, BeginTypes DEF Unshare, Operations
  <2> QED
    BY <1>8, <2>1 DEF Unshare, TypeOK, cfgVars, processes
<1> QED
  BY <1>2, <1>3, <1>4, <1>5, <1>6, <1>7, <1>8

LEMMA OperationKeepsTypes ==
  ASSUME TypeOK, Operation
  PROVE  TypeOK'
<1>1. \A plan \in QuietPlans : plan \in Seq(Steps)
  BY QuietPlansArePlans
<1>2. ASSUME NEW p \in Projects, NEW server \in Servers \cup {NoServer}, UpdateSettings(p, server)
      PROVE  TypeOK'
  <2> DEFINE rest == <<<<"php", p>>, <<"port", p>>, <<"restart", p>>, <<"apply", p>>>>
  <2>1. /\ <<<<"evict", p>>>> \o rest \in QuietPlans
        /\ <<>> \o rest \in QuietPlans
    BY QuietPlanTypes, ConcatProperties DEF QuietPlans
  <2>2. job' \in Jobs
    BY <1>1, <1>2, <2>1, BeginTypes DEF UpdateSettings, Operations, TypeOK
  <2> QED
    BY <1>2, <2>2 DEF UpdateSettings, TypeOK, ledgers, processes
<1>3. ASSUME NEW p \in Projects, NEW server \in Servers \cup {NoServer}, NEW start \in BOOLEAN,
             AddProject(p, server, start)
      PROVE  TypeOK'
  <2>1. /\ port' \in [Projects -> Ports \cup {0}]
        /\ lan' \in [Projects -> Ports \cup {0}]
        /\ pin' \in [Projects -> Servers \cup {NoServer}]
        /\ registered' \subseteq Projects /\ pending' \subseteq Projects
    BY <1>3 DEF AddProject, TypeOK, Ports
  <2> QED
    BY <1>3, <2>1 DEF AddProject, TypeOK, ledgers, processes
<1>4. ASSUME NEW server \in Servers, SetWebserver(server)
      PROVE  TypeOK'
  <2>1. \A order \in Orders(registered) : SwitchPlan(order) \in Seq(Steps)
    BY <1>1, SwitchPlanTypes DEF TypeOK
  <2>2. job' \in Jobs
    BY <1>4, <2>1, BeginTypes DEF SetWebserver, Operations, TypeOK
  <2> QED
    BY <1>4, <2>2 DEF SetWebserver, TypeOK, ledgers, processes
<1>5. CASE SetPHPVersion
  <2>1. job' \in Jobs
    BY <1>1, <1>5, QuietPlanTypes, BeginTypes DEF SetPHPVersion, Operations
  <2> QED
    BY <1>5, <2>1 DEF SetPHPVersion, TypeOK, cfgVars, ledgers, processes
<1>6. CASE FollowNetwork
  <2>1. job' \in Jobs
    BY <1>1, <1>6, QuietPlanTypes, BeginTypes DEF FollowNetwork, Operations
  <2> QED
    BY <1>6, <2>1 DEF FollowNetwork, TypeOK, cfgVars, ledgers, processes
<1>7. CASE StopAll
  <2>1. job' \in Jobs
    BY <1>1, <1>7, QuietPlanTypes, BeginTypes DEF StopAll, Operations
  <2> QED
    BY <1>7, <2>1 DEF StopAll, ClearStarted, TypeOK, cfgVars, processes
<1>8. CASE Reset
  <2>1. job' \in Jobs
    BY <1>8, ResetPlanType, BeginTypes DEF Reset, Operations
  <2> QED
    BY <1>8, <2>1 DEF Reset, TypeOK, cfgVars, ledgers, processes
<1>9. CASE Shutdown
  <2>1. job' \in Jobs
    BY <1>1, <1>9, QuietPlanTypes, BeginTypes DEF Shutdown, Operations
  <2> QED
    BY <1>9, <2>1 DEF Shutdown, TypeOK, cfgVars, ledgers, processes
<1> QED
  BY <1>2, <1>3, <1>4, <1>5, <1>6, <1>7, <1>8, <1>9, ProjectOperationKeepsTypes DEF Operation

LEMMA EnvironmentKeepsTypes ==
  ASSUME TypeOK, Environment
  PROVE  TypeOK'
<1>1. CASE Crash
  <2>1. /\ front' \in Processes(FrontConfs) /\ php' \in Processes({NoConf})
        /\ own' \in [Projects -> Processes(OwnConfs)]
    BY <1>1 DEF Crash, FrontCrashes, PHPCrashes, OwnCrashes, Down, Processes, TypeOK, phpVars
  <2>4. phpLost' \in BOOLEAN
    BY <1>1 DEF Crash, FrontCrashes, PHPCrashes, OwnCrashes, TypeOK, phpVars
  <2>2. job' \in Jobs
    BY <1>1 DEF Crash, NotCalm, Jobs, TypeOK
  <2>3. trouble' \in 0 .. MaxTrouble
    BY <1>1, MaxTroubleAssumption DEF Crash, Trouble, TypeOK
  <2> QED
    BY <1>1, <2>1, <2>2, <2>3, <2>4 DEF Crash, TypeOK, cfgVars, ledgers
<1>2. CASE HandEdit
  <2>1. /\ registered' \subseteq Projects /\ active' \in Servers
        /\ pin' \in [Projects -> Servers \cup {NoServer}]
        /\ port' \in [Projects -> Ports \cup {0}] /\ lan' \in [Projects -> Ports \cup {0}]
        /\ byHand' \subseteq Slots
    <3>1. CASE \E p \in registered : Forget(p) /\ active' = active
      BY <3>1 DEF Forget, TypeOK
    <3>2. CASE \E p \in Projects : WriteEntry(p) /\ active' = active
      BY <3>2 DEF WriteEntry, TypeOK, Ports, Slots
    <3>3. CASE active' \in Servers /\ UNCHANGED <<registered, pin, port, lan, byHand>>
      BY <3>3 DEF TypeOK
    <3> QED
      BY <1>2, <3>1, <3>2, <3>3 DEF HandEdit
  <2>2. trouble' \in 0 .. MaxTrouble /\ edited' \in BOOLEAN
    BY <1>2, MaxTroubleAssumption DEF HandEdit, Trouble, TypeOK
  <2> QED
    BY <1>2, <2>1, <2>2 DEF HandEdit, TypeOK, ledgers, processes
<1>3. ASSUME NEW n \in Ports, PortTaken(n) \/ PortReleased(n)
      PROVE  TypeOK'
  <2>1. trouble' \in 0 .. MaxTrouble /\ held' \subseteq Ports
    BY <1>3, MaxTroubleAssumption DEF PortTaken, PortReleased, Trouble, TypeOK
  <2> QED
    BY <1>3, <2>1 DEF PortTaken, PortReleased, TypeOK, cfgVars, ledgers, processes
<1> QED
  BY <1>1, <1>2, <1>3 DEF Environment

LEMMA InitialTypes == Init => TypeOK
<1>1. Idle \in Jobs
  BY EmptySeq DEF Idle, Jobs, Operations
<1>2. \A C : Down("stopped") \in Processes(C)
  BY DEF Down, Processes
<1>3. 0 \in 0 .. MaxTrouble
  BY MaxTroubleAssumption
<1> QED
  BY <1>1, <1>2, <1>3 DEF Init, TypeOK

LEMMA TypesKept == TypeOK /\ [Next]_vars => TypeOK'
<1>1. ASSUME TypeOK, UNCHANGED vars
      PROVE  TypeOK'
  BY <1>1 DEF vars, TypeOK
<1> QED
  BY <1>1, StepKeepsTypes, OperationKeepsTypes, EnvironmentKeepsTypes DEF Next

(* Every variable keeps its type, and with it: a process that does not run *)
(* has no config, every route leads to a port for instances, a job's steps *)
(* are about projects, and an operation that startFailed would answer for  *)
(* names a project.                                                        *)
THEOREM TypeCorrect == Spec => []TypeOK
BY InitialTypes, TypesKept, PTL DEF Spec
================================================================================
