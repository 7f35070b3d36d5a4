------------------------------- MODULE FrontDoor -------------------------------
(***************************************************************************)
(* The daemon's projects and its front door                                *)
(* (daemon/internal/core/{frontdoor,projects,webserver,sharing}.go).       *)
(*                                                                         *)
(* One webserver process, the front door, serves every started project; a  *)
(* project pinned to the other webserver runs in an instance of its own on *)
(* a loopback port, and the front door forwards its name there.  Every     *)
(* operation holds d.mu from its first line to its last, so operations do  *)
(* not overlap; what does happen in the middle of one is a process that    *)
(* crashes and another program that takes a port.  An operation is a job:  *)
(* the list of what it still has to do, one supervisor call or config      *)
(* write per item, each of which may fail.                                 *)
(*                                                                         *)
(* The supervisor is seen as its caller sees it (ServiceLifecycle says     *)
(* what it promises one caller): a call returns once the process is up,    *)
(* stopped or failed.  The network address and certificates of a shared    *)
(* project, and PHP versions, are left to modules of their own: here PHP   *)
(* is one backend.                                                         *)
(***************************************************************************)
EXTENDS Integers, Sequences, FiniteSets

CONSTANTS
  Projects,    \* names of folders that may become projects
  NoProject,   \* not a project
  Servers,     \* services.webserver.available
  NoServer,    \* no webserver_override
  OwnPorts,    \* ports from projectBasePort up
  LanPorts,    \* ports from lanBasePort up
  HandPorts,   \* what a user may write as projects[].port
  HandLans,    \* and as projects[].lan_port
  NoConf,      \* the config of a process that does not run
  MaxTrouble   \* bound: crashes, failures, ports taken and hand-edits

ASSUME NamesAssumption == NoProject \notin Projects /\ NoServer \notin Servers
Ports == OwnPorts \cup LanPorts \cup HandPorts \cup HandLans

ASSUME PortsAssumption == Ports \subseteq Nat \ {0, 1}
ASSUME MaxTroubleAssumption == MaxTrouble \in Nat
ASSUME ProjectsAssumption == IsFiniteSet(Projects)

VARIABLES
  registered,  \* wharf.json: the projects in it
  active,      \* services.webserver.active
  pin,         \* projects[].webserver_override
  port,        \* projects[].port
  lan,         \* projects[].lan_port, 0 while absent
  byHand,      \* which of those ports were last written by hand
  started,     \* d.started
  failed,      \* the projects in d.failed
  shared,      \* d.shared
  front,       \* the front door's process, and what its config says
  own,         \* each project's own instance
  php,         \* the PHP backend
  phpLost,     \* it crashed, or a reset stopped it, and nothing has started it since
  closing,     \* the supervisor is shut down
  job,         \* the operation holding d.mu
  pending,     \* added projects whose start waits for d.mu
  held,        \* ports other programs hold
  stale,       \* something failed since the front door was last brought in line
  edited,      \* wharf.json was edited by hand since nothing ran
  trouble      \* what has gone wrong so far: the model's bound

cfgVars == <<registered, active, pin, port, lan, byHand>>
ledgers == <<started, failed, shared>>
phpVars == <<php, phpLost>>
processes == <<front, own, php, phpLost>>
vars == <<registered, active, pin, port, lan, byHand, started, failed, shared, front, own,
          php, phpLost, closing, job, pending, held, stale, edited, trouble>>

(* A process and the config it runs with.  What the front door's says of a *)
(* project's name: refused, served, or forwarded to a port.                *)
Unserved == 0
Direct == 1
Routes == {Unserved, Direct} \cup Ports

FrontConfs == [server : Servers, routes : [Projects -> Routes],
               shares : [Projects -> Ports \cup {0}]]
OwnConfs == [server : Servers, port : Ports]
Processes(confs) == [state : {"running"}, conf : confs]
                      \cup [state : {"stopped", "failed"}, conf : {NoConf}]
Down(state) == [state |-> state, conf |-> NoConf]
Running(conf) == [state |-> "running", conf |-> conf]

Operations == {"none", "start", "already", "stop", "restart", "remove", "settings",
               "switch", "share", "unshare", "php", "network", "stopAll", "reset",
               "shutdown"}
Tasks == {"rules", "php", "port", "start", "restart", "apply", "serve", "stop",
          "try stop", "evict", "settle", "reload", "unregister", "share",
          "take back", "reapply", "stop all", "clear", "wipe"}
Steps == Tasks \X (Projects \cup {NoProject})
Jobs ==
  {j \in [op : Operations, project : Projects \cup {NoProject}, todo : Seq(Steps),
          err : BOOLEAN, calm : BOOLEAN] :
     j.op \in {"start", "already", "restart"} => j.project \in Projects}

Idle == [op |-> "none", project |-> NoProject, todo |-> <<>>,
         err |-> FALSE, calm |-> TRUE]

Init ==
  /\ registered = {}
  /\ active \in Servers
  /\ pin = [p \in Projects |-> NoServer]
  /\ port = [p \in Projects |-> 0]
  /\ lan = [p \in Projects |-> 0]
  /\ byHand = {}
  /\ started = {} /\ failed = {} /\ shared = {}
  /\ front = Down("stopped")
  /\ own = [p \in Projects |-> Down("stopped")]
  /\ php = Down("stopped") /\ phpLost = FALSE
  /\ closing = FALSE
  /\ job = Idle
  /\ pending = {}
  /\ held = {}
  /\ stale = FALSE /\ edited = FALSE
  /\ trouble = 0

(***************************************************************************)
(* What the code asks of its state                                         *)
(***************************************************************************)
Up(process) == process.state = "running"

(* The ports wharf.json records: a project's own instance's, and its port  *)
(* on the network.                                                         *)
SlotsOf(p) == {<<p, "port">>, <<p, "lan">>}
Slots == UNION {SlotsOf(p) : p \in Projects}
Recorded(s) == IF s[2] = "port" THEN port[s[1]] ELSE lan[s[1]]

(* OwnInstance: the project is pinned to the webserver that is not active. *)
OwnInstance(p) == pin[p] # NoServer /\ pin[p] # active

(* PortFree, as the prober would answer. *)
PortFree(n) ==
  /\ n \notin held
  /\ \A p \in Projects : Up(own[p]) => own[p].conf.port # n
  /\ Up(front) => \A p \in Projects : front.conf.shares[p] # n
(* Mutant: a port another project records counts as free.                  *)
CandidatesNotHeld(base) == {n \in base : PortFree(n)}

(* nextPort: the first port no project records and nothing holds.          *)
Candidates(base) ==
  {n \in base : PortFree(n) /\ \A p \in registered : port[p] # n /\ lan[p] # n}
IsNext(n, base) == n \in Candidates(base) /\ \A k \in Candidates(base) : n <= k

(* projectStatus: what the GUI shows. *)
Status(p) ==
  IF p \notin started THEN IF p \in failed THEN "failed" ELSE "stopped"
  ELSE IF ~OwnInstance(p) THEN front.state
  ELSE IF Up(own[p]) THEN front.state
  ELSE own[p].state

AnyRunning == Up(front) \/ Up(php) \/ \E p \in Projects : Up(own[p])

(* served, rendered: the routes and open ports of a front door started now. *)
ServedRoutes ==
  [p \in Projects |-> IF p \notin registered \cap started THEN Unserved
                      ELSE IF OwnInstance(p) THEN port[p] ELSE Direct]
ServedShares ==
  [p \in Projects |-> IF p \in registered \cap started \cap shared THEN lan[p] ELSE 0]

(***************************************************************************)
(* The job: what an operation still has to do under d.mu                   *)
(***************************************************************************)
Begin(op, p, todo) ==
  /\ job = Idle
  /\ job' = [op |-> op, project |-> p, todo |-> todo, err |-> FALSE, calm |-> TRUE]

Doing(task, p) == job.todo # <<>> /\ Head(job.todo) = <<task, p>>

GoOn == job' = [job EXCEPT !.todo = Tail(@)]
(* A failure the operation only logs. *)
GoOnAnyway == job' = [job EXCEPT !.todo = Tail(@), !.calm = FALSE]
GiveUp == job' = [job EXCEPT !.todo = <<>>, !.err = TRUE]

Trouble == trouble < MaxTrouble /\ trouble' = trouble + 1
NoTrouble == trouble' = trouble

(* setStarted, startFailed, clearStarted. *)
SetStarted(p) ==
  started' = started \cup {p} /\ failed' = failed \ {p} /\ shared' = shared
SetStopped(p) ==
  started' = started \ {p} /\ failed' = failed \ {p} /\ shared' = shared \ {p}
(* Mutant: a failed start leaves the project shared.                       *)
StartFailedStillShared(p) ==
  started' = started \ {p} /\ failed' = failed \cup {p} /\ shared' = shared

StartFailed(p) ==
  started' = started \ {p} /\ failed' = failed \cup {p} /\ shared' = shared \ {p}
ClearStarted == started' = {} /\ failed' = {} /\ shared' = {}

(* The operation returns; a start or restart that failed leaves the        *)
(* front door's set.                                                       *)
Return ==
  /\ job # Idle /\ job.todo = <<>>
  /\ job' = Idle
  /\ IF job.err /\ job.op \in {"start", "restart"}
     THEN StartFailed(job.project)
     ELSE UNCHANGED ledgers
  /\ stale' = (stale \/ job.err \/ ~job.calm)
  /\ UNCHANGED <<cfgVars, processes, closing, pending, held, edited, trouble>>

(***************************************************************************)
(* Supervisor calls: what may have become of the process when one returns, *)
(* and whether it returns an error - by a fault, or because the state of   *)
(* the system leaves it no other way.                                      *)
(***************************************************************************)
Done(process) == [process |-> process, result |-> "ok"]
Fault(process) == [process |-> process, result |-> "fault"]
Forced(process) == [process |-> process, result |-> "forced"]
(* Mutant: a start is not refused once closing.                            *)
StartOfAnyTime(process, conf, bindable) ==
  IF Up(process) THEN {Done(process)}
  ELSE IF bindable THEN {Done(Running(conf)), Fault(Down("failed"))}
  ELSE {Forced(Down("failed"))}

(* sup.Start: nothing to do for a running process, refused once closing,   *)
(* failed while its port is not free.                                      *)
StartOf(process, conf, bindable) ==
  IF Up(process) THEN {Done(process)}
  ELSE IF closing THEN {Forced(process)}
  ELSE IF bindable THEN {Done(Running(conf)), Fault(Down("failed"))}
  ELSE {Forced(Down("failed"))}

(* sup.Stop: the process is gone, though its port may not be. *)
StopOf(process) ==
  IF Up(process) THEN {Done(Down("stopped")), Fault(Down("stopped"))} ELSE {Done(process)}

(* sup.Restart. *)
RestartOf(process, conf, bindable) ==
  IF Up(process) THEN {Fault(Down("stopped"))} \cup StartOf(Down("stopped"), conf, bindable)
  ELSE StartOf(process, conf, bindable)

(* The job goes on after a call that returned nil, and ends with an error. *)
Then(call) ==
  /\ IF call.result = "ok" THEN GoOn ELSE GiveUp
  /\ IF call.result = "fault" THEN Trouble ELSE NoTrouble

(* Share takes a share back that the front door would not have.            *)
ThenTakeBack(call) ==
  /\ IF call.result = "ok" THEN GoOn
     ELSE job' = [job EXCEPT !.todo = <<<<"take back", job.project>>, <<"reapply", job.project>>>>,
                              !.err = TRUE]
  /\ IF call.result = "fault" THEN Trouble ELSE NoTrouble

ThenAnyway(call) ==
  /\ IF call.result = "ok" THEN GoOn ELSE GoOnAnyway
  /\ IF call.result = "fault" THEN Trouble ELSE NoTrouble

(***************************************************************************)
(* The front door                                                          *)
(***************************************************************************)
(* WebserverSpec(served(cfg)). *)
FrontConf == [server |-> active, routes |-> ServedRoutes, shares |-> ServedShares]
SharesFree ==
  \A p \in Projects :
    /\ ServedShares[p] \notin held
    /\ \A q \in Projects : Up(own[q]) => own[q].conf.port # ServedShares[p]

(* Two shares on one port, or a forward to none, which only a hand-edit    *)
(* asks for: one webserver refuses what the other takes.                   *)
Disputed ==
  \/ \E p, q \in Projects : p # q /\ ServedShares[p] # 0 /\ ServedShares[p] = ServedShares[q]
  \/ \E p \in registered \cap started : OwnInstance(p) /\ port[p] = 0
FrontBinds == {binds \in BOOLEAN : IF binds THEN SharesFree ELSE Disputed \/ ~SharesFree}

(* Rendering the spec, or the permission for low ports, may fail: the      *)
(* front door stays as it is.                                              *)
FrontRestarts ==
  {Fault(front)} \cup UNION {RestartOf(front, FrontConf, binds) : binds \in FrontBinds}
(* Mutant: a running front door is started, not restarted.                 *)
AppliedByStart ==
  IF started = {} THEN StopOf(front)
  ELSE {Fault(front)} \cup UNION {StartOf(front, FrontConf, binds) : binds \in FrontBinds}

(* applyFrontDoor *)
Applied == IF started = {} THEN StopOf(front) ELSE FrontRestarts
(* reloadGlobalWebserver *)
Reloaded == IF Up(front) THEN FrontRestarts ELSE {Done(front)}
(* Mutant: stopping a project does not restart the front door.             *)
SettledOnceEmpty == IF started = {} THEN StopOf(front) ELSE {Done(front)}

(* settleFrontDoor *)
Settled == IF started = {} THEN StopOf(front) ELSE Reloaded

FrontIs(call) ==
  /\ front' = call.process
  /\ stale' = (stale /\ call.result # "ok")
  /\ UNCHANGED <<cfgVars, own, phpVars, closing, pending, held, edited>>

Apply(p) ==
  /\ Doing("apply", p)
  /\ \E call \in Applied :
       /\ FrontIs(call)
       /\ IF job.op = "share" THEN ThenTakeBack(call) ELSE Then(call)
  /\ UNCHANGED ledgers

(* RestartProject of a project the front door serves itself. *)
Serve(p) ==
  /\ Doing("serve", p)
  /\ \E call \in FrontRestarts : FrontIs(call) /\ Then(call)
  /\ UNCHANGED ledgers

Settle(p) ==
  /\ Doing("settle", p)
  /\ \E call \in Settled :
       FrontIs(call) /\ IF job.op = "remove" THEN ThenAnyway(call) ELSE Then(call)
  /\ UNCHANGED ledgers

Reload(p) ==
  /\ Doing("reload", p)
  /\ \E call \in Reloaded : FrontIs(call) /\ Then(call)
  /\ UNCHANGED ledgers

(* Share's way back when the front door would not take the project on. *)
TakeBack(p) ==
  /\ Doing("take back", p)
  /\ shared' = shared \ {p}
  /\ GoOn /\ NoTrouble
  /\ UNCHANGED <<cfgVars, started, failed, processes, closing, pending, held, stale, edited>>

Reapply(p) ==
  /\ Doing("reapply", p)
  /\ \E call \in Applied : FrontIs(call) /\ ThenAnyway(call)
  /\ UNCHANGED ledgers

(***************************************************************************)
(* PHP and a project's own instance                                        *)
(***************************************************************************)
(* checkRules: a config template or custom config that cannot be used.     *)
CheckRules(p) ==
  /\ Doing("rules", p)
  /\ (GoOn /\ NoTrouble) \/ (GiveUp /\ Trouble)
  /\ UNCHANGED <<cfgVars, ledgers, processes, closing, pending, held, stale, edited>>

EnsurePHP(p) ==
  /\ Doing("php", p)
  /\ \E call \in {Fault(php)} \cup StartOf(php, NoConf, TRUE) :
       /\ php' = call.process /\ Then(call)
       /\ phpLost' = (phpLost /\ call.result # "ok")
  /\ UNCHANGED <<cfgVars, ledgers, front, own, closing, pending, held, stale, edited>>
(* Mutant: a running instance's port counts as held.                       *)
NeedsPortEvenUp(p) ==
  OwnInstance(p) /\ p \in started /\ ~(port[p] > 0 /\ PortFree(port[p]))

(* ownPort: an instance about to start moves off a port that is held.      *)
NeedsPort(p) ==
  OwnInstance(p) /\ p \in started /\ ~Up(own[p]) /\ ~(port[p] > 0 /\ PortFree(port[p]))
OwnPort(p) ==
  /\ Doing("port", p)
  /\ \/ ~NeedsPort(p) /\ GoOn /\ NoTrouble /\ port' = port
     \/ NeedsPort(p) /\ Candidates(OwnPorts) = {} /\ GiveUp /\ NoTrouble /\ port' = port
     \/ NeedsPort(p) /\ Candidates(OwnPorts) # {} /\ GiveUp /\ Trouble /\ port' = port
     \/ /\ NeedsPort(p) /\ GoOn /\ NoTrouble
        /\ \E n \in OwnPorts : IsNext(n, OwnPorts) /\ port' = [port EXCEPT ![p] = n]
  /\ byHand' = IF port' = port THEN byHand ELSE byHand \ {<<p, "port">>}
  /\ UNCHANGED <<registered, active, pin, lan, ledgers, processes, closing, pending, held,
                 stale, edited>>

OwnConf(p) == [server |-> pin[p], port |-> port[p]]
Bindable(p) ==
  /\ port[p] \notin held
  /\ \A q \in Projects \ {p} : Up(own[q]) => own[q].conf.port # port[p]
  /\ Up(front) => \A q \in Projects : front.conf.shares[q] # port[p]

(* Mutant: a project without a port is rendered all the same.              *)
WithAnySpec(p, calls) == {Fault(own[p])} \cup calls

(* ProjectSpec refuses a project without a port, which a hand-edit makes.  *)
WithSpec(p, calls) == IF port[p] = 0 THEN {Forced(own[p])} ELSE {Fault(own[p])} \cup calls

OwnIs(p, call) ==
  /\ own' = [own EXCEPT ![p] = call.process]
  /\ UNCHANGED <<cfgVars, ledgers, front, phpVars, closing, pending, held, stale, edited>>

StartOwn(p) ==
  /\ Doing("start", p)
  /\ \E call \in IF OwnInstance(p) /\ p \in started
                 THEN WithSpec(p, StartOf(own[p], OwnConf(p), Bindable(p)))
                 ELSE {Done(own[p])} :
       OwnIs(p, call) /\ Then(call)

RestartOwn(p) ==
  /\ Doing("restart", p)
  /\ \E call \in IF OwnInstance(p)
                 THEN WithSpec(p, RestartOf(own[p], OwnConf(p), Bindable(p)))
                 ELSE {Done(own[p])} :
       OwnIs(p, call) /\ Then(call)

StopOwn(p) ==
  /\ Doing("stop", p)
  /\ \E call \in IF OwnInstance(p) THEN StopOf(own[p]) ELSE {Done(own[p])} :
       OwnIs(p, call) /\ Then(call)

(* RemoveProject logs a stop that fails. *)
TryStopOwn(p) ==
  /\ Doing("try stop", p)
  /\ \E call \in StopOf(own[p]) : OwnIs(p, call) /\ ThenAnyway(call)

(* A project that moves onto the front door leaves its own instance. *)
Evict(p) ==
  /\ Doing("evict", p)
  /\ \E call \in IF OwnInstance(p) THEN {Done(own[p])} ELSE StopOf(own[p]) :
       OwnIs(p, call) /\ Then(call)

(***************************************************************************)
(* The operations                                                          *)
(***************************************************************************)
StartPlan(p) == <<<<"rules", p>>, <<"php", p>>, <<"port", p>>, <<"start", p>>, <<"apply", p>>>>

(* startProjectLocked: nothing is done for a project shown as running,     *)
(* whatever has become of PHP.                                             *)
StartLocked(p) ==
  IF Status(p) = "running" THEN Begin("already", p, <<>>) /\ UNCHANGED ledgers
  ELSE Begin("start", p, StartPlan(p)) /\ SetStarted(p)

StartProject(p) ==
  /\ p \in registered
  /\ StartLocked(p)
  /\ UNCHANGED <<cfgVars, processes, closing, pending, held, stale, edited, trouble>>

(* The goroutine of addedLocked: the project may be gone again.            *)
StartAdded(p) ==
  /\ job = Idle /\ p \in pending
  /\ pending' = pending \ {p}
  /\ IF p \in registered THEN StartLocked(p) ELSE UNCHANGED <<job, ledgers>>
  /\ UNCHANGED <<cfgVars, processes, closing, held, stale, edited, trouble>>

(* AddFolder; starting it is left to a goroutine. *)
AddProject(p, server, start) ==
  /\ job = Idle /\ p \notin registered
  /\ \E n \in OwnPorts :
       IsNext(n, OwnPorts) /\ port' = [port EXCEPT ![p] = n]
  /\ registered' = registered \cup {p}
  /\ pin' = [pin EXCEPT ![p] = server]
  /\ lan' = [lan EXCEPT ![p] = 0]
  /\ pending' = IF start THEN pending \cup {p} ELSE pending
  /\ UNCHANGED <<active, byHand, ledgers, processes, closing, job, held, stale, edited, trouble>>

StopProject(p) ==
  /\ p \in registered
  /\ Begin("stop", p, <<<<"stop", p>>, <<"settle", p>>>>)
  /\ SetStopped(p)
  /\ UNCHANGED <<cfgVars, processes, closing, pending, held, stale, edited, trouble>>

RestartProject(p) ==
  /\ p \in registered
  /\ Begin("restart", p,
           <<<<"php", p>>, <<"rules", p>>>> \o
           IF OwnInstance(p) THEN <<<<"port", p>>, <<"restart", p>>, <<"apply", p>>>>
                             ELSE <<<<"serve", p>>>>)
  /\ SetStarted(p)
  /\ UNCHANGED <<cfgVars, processes, closing, pending, held, stale, edited, trouble>>

RemoveProject(p) ==
  /\ p \in registered
  /\ Begin("remove", p, <<<<"try stop", p>>, <<"unregister", p>>, <<"settle", p>>>>)
  /\ SetStopped(p)
  /\ UNCHANGED <<cfgVars, processes, closing, pending, held, stale, edited, trouble>>

(* store.Update, which may fail to write the file. *)
Forget(p) ==
  /\ registered' = registered \ {p}
  /\ pin' = [pin EXCEPT ![p] = NoServer]
  /\ port' = [port EXCEPT ![p] = 0]
  /\ lan' = [lan EXCEPT ![p] = 0]
  /\ byHand' = byHand \ SlotsOf(p)

Unregister(p) ==
  /\ Doing("unregister", p)
  /\ \/ Forget(p) /\ GoOn /\ NoTrouble
     \/ GiveUp /\ Trouble /\ UNCHANGED <<registered, pin, port, lan, byHand>>
  /\ UNCHANGED <<active, ledgers, processes, closing, pending, held, stale, edited>>

(* UpdateSettings: the override; a change of PHP, SSL or template takes    *)
(* the same steps with the override as it was.                             *)
UpdateSettings(p, server) ==
  /\ job = Idle /\ p \in registered
  /\ pin' = [pin EXCEPT ![p] = server]
  /\ IF p \in started
     THEN Begin("settings", p,
                (IF OwnInstance(p) THEN <<<<"evict", p>>>> ELSE <<>>) \o
                <<<<"php", p>>, <<"port", p>>, <<"restart", p>>, <<"apply", p>>>>)
     ELSE job' = job
  /\ UNCHANGED <<registered, active, port, lan, byHand, ledgers, processes, closing, pending,
                 held, stale, edited, trouble>>

(* SetWebserver, for the projects in the file's order. *)
Each(task, order) == [i \in 1 .. Len(order) |-> <<task, order[i]>>]
SwitchPlan(order) ==
  Each("evict", order) \o Each("port", order) \o <<<<"apply", NoProject>>>> \o Each("start", order)
Orders(S) ==
  {o \in [1 .. Cardinality(S) -> S] : \A i, k \in 1 .. Cardinality(S) : o[i] = o[k] => i = k}

SetWebserver(server) ==
  /\ job = Idle
  /\ ~(server = active /\ Up(front))
  /\ active' = server
  /\ IF AnyRunning
     THEN \E order \in Orders(registered) : Begin("switch", NoProject, SwitchPlan(order))
     ELSE job' = job
  /\ UNCHANGED <<registered, pin, port, lan, byHand, ledgers, processes, closing, pending,
                 held, stale, edited, trouble>>

Share(p) ==
  /\ p \in registered \cap started /\ p \notin shared
  /\ Begin("share", p, <<<<"share", p>>, <<"apply", p>>>>)
  /\ UNCHANGED <<cfgVars, ledgers, processes, closing, pending, held, stale, edited, trouble>>

(* lanPort, then setShared: the recorded port, or the next one. *)
SharePort(p) ==
  /\ Doing("share", p)
  /\ \/ /\ lan[p] > 0 /\ PortFree(lan[p]) /\ lan' = lan
        /\ GoOn /\ shared' = shared \cup {p}
        /\ NoTrouble
     \/ /\ ~(lan[p] > 0 /\ PortFree(lan[p]))
        /\ \E n \in LanPorts : IsNext(n, LanPorts) /\ lan' = [lan EXCEPT ![p] = n]
        /\ GoOn /\ shared' = shared \cup {p}
        /\ NoTrouble
     \/ /\ ~(lan[p] > 0 /\ PortFree(lan[p]))
        /\ IF Candidates(LanPorts) = {} THEN NoTrouble ELSE Trouble
        /\ GiveUp /\ UNCHANGED <<lan, shared>>
  /\ byHand' = IF lan' = lan THEN byHand ELSE byHand \ {<<p, "lan">>}
  /\ UNCHANGED <<registered, active, pin, port, started, failed, processes, closing,
                 pending, held, stale, edited>>

Unshare(p) ==
  /\ p \in registered \cap shared
  /\ Begin("unshare", p, <<<<"reload", p>>>>)
  /\ shared' = shared \ {p} /\ started' = started /\ failed' = failed
  /\ UNCHANGED <<cfgVars, processes, closing, pending, held, stale, edited, trouble>>

(* SetPHPVersion moves a running front door onto the backend of the new    *)
(* default; ReplaceNetworkCertificate and CheckNetwork only render it anew.*)
SetPHPVersion ==
  /\ Up(front)
  /\ Begin("php", NoProject, <<<<"php", NoProject>>, <<"reload", NoProject>>>>)
  /\ UNCHANGED <<cfgVars, ledgers, processes, closing, pending, held, stale, edited, trouble>>

FollowNetwork ==
  /\ Up(front)
  /\ Begin("network", NoProject, <<<<"reload", NoProject>>>>)
  /\ UNCHANGED <<cfgVars, ledgers, processes, closing, pending, held, stale, edited, trouble>>

StopAll ==
  /\ Begin("stopAll", NoProject, <<<<"stop all", NoProject>>>>)
  /\ ClearStarted
  /\ UNCHANGED <<cfgVars, processes, closing, pending, held, stale, edited, trouble>>

Shutdown ==
  /\ Begin("shutdown", NoProject, <<<<"stop all", NoProject>>>>)
  /\ closing' = TRUE
  /\ UNCHANGED <<cfgVars, ledgers, processes, pending, held, stale, edited, trouble>>

(* sup.StopAll goes on after a service that will not stop. *)
StopEverything ==
  /\ Doing("stop all", NoProject)
  /\ LET halt(process) == IF Up(process) THEN Down("stopped") ELSE process
     IN front' = halt(front) /\ php' = halt(php) /\ own' = [p \in Projects |-> halt(own[p])]
  /\ stale' = FALSE /\ phpLost' = (started # {})
  /\ edited' = (edited /\ started # {})
  /\ (GoOn /\ NoTrouble) \/ (AnyRunning /\ GiveUp /\ Trouble)
  /\ UNCHANGED <<cfgVars, ledgers, closing, pending, held>>

Reset ==
  /\ Begin("reset", NoProject,
           <<<<"stop all", NoProject>>, <<"clear", NoProject>>, <<"wipe", NoProject>>>>)
  /\ UNCHANGED <<cfgVars, ledgers, processes, closing, pending, held, stale, edited, trouble>>

Clear ==
  /\ Doing("clear", NoProject)
  /\ ClearStarted /\ GoOn /\ NoTrouble /\ edited' = FALSE /\ phpLost' = FALSE
  /\ UNCHANGED <<cfgVars, front, own, php, closing, pending, held, stale>>

(* Files that cannot be deleted end the reset before wharf.json is written *)
(* again; a first start picks a webserver that is installed.               *)
Wipe ==
  /\ Doing("wipe", NoProject)
  /\ \/ /\ registered' = {}
        /\ active' \in Servers
        /\ pin' = [p \in Projects |-> NoServer]
        /\ port' = [p \in Projects |-> 0]
        /\ lan' = [p \in Projects |-> 0]
        /\ byHand' = {}
        /\ GoOn /\ NoTrouble
     \/ GiveUp /\ Trouble /\ UNCHANGED cfgVars
  /\ UNCHANGED <<ledgers, processes, closing, pending, held, stale, edited>>

(***************************************************************************)
(* What happens around the daemon                                          *)
(***************************************************************************)
(* A process dies; its watcher records it whatever operation is under way. *)
NotCalm == job' = [job EXCEPT !.calm = (job = Idle)]
FrontCrashes ==
  Up(front) /\ front' = Down("failed") /\ UNCHANGED <<own, phpVars>>
PHPCrashes ==
  Up(php) /\ php' = Down("failed") /\ phpLost' = TRUE /\ UNCHANGED <<own, front>>
OwnCrashes(p) ==
  Up(own[p]) /\ own' = [own EXCEPT ![p] = Down("failed")] /\ UNCHANGED <<front, phpVars>>
Crash ==
  /\ FrontCrashes \/ PHPCrashes \/ \E p \in Projects : OwnCrashes(p)
  /\ NotCalm /\ Trouble
  /\ UNCHANGED <<cfgVars, ledgers, closing, pending, held, stale, edited>>

(* Another program takes a port, or lets go of one. *)
PortTaken(n) ==
  /\ n \notin held /\ PortFree(n) /\ held' = held \cup {n} /\ Trouble
  /\ UNCHANGED <<cfgVars, ledgers, processes, closing, job, pending, stale, edited>>
PortReleased(n) ==
  /\ n \in held /\ held' = held \ {n}
  /\ UNCHANGED <<cfgVars, ledgers, processes, closing, job, pending, stale, edited, trouble>>

(* wharf.json edited by hand and read again (WatchConfig, Reload): the     *)
(* config changes, no process does.  validate looks at names, paths and    *)
(* templates only: an entry may record any port, another's or none.        *)
WriteEntry(p) ==
  /\ registered' = registered \cup {p}
  /\ \E server \in Servers \cup {NoServer} : pin' = [pin EXCEPT ![p] = server]
  /\ \E n \in HandPorts \cup {0, port[p]} : port' = [port EXCEPT ![p] = n]
  /\ \E n \in HandLans \cup {0, lan[p]} : lan' = [lan EXCEPT ![p] = n]
  /\ LET written == {t \in SlotsOf(p) : p \notin registered \/ Recorded(t)' # Recorded(t)}
     IN byHand' = {s \in byHand \cup written : Recorded(s)' # 0}

HandEdit ==
  /\ job = Idle
  /\ \/ \E p \in registered : Forget(p) /\ active' = active
     \/ \E p \in Projects : WriteEntry(p) /\ active' = active
     \/ active' \in Servers /\ UNCHANGED <<registered, pin, port, lan, byHand>>
  /\ cfgVars' # cfgVars
  /\ edited' = (edited \/ AnyRunning \/ started # {})
  /\ Trouble
  /\ UNCHANGED <<ledgers, processes, closing, job, pending, held, stale>>

-----------------------------------------------------------------------------
Step ==
  \/ Return
  \/ StopEverything \/ Clear \/ Wipe
  \/ \E p \in Projects \cup {NoProject} : Apply(p) \/ Reload(p) \/ EnsurePHP(p)
  \/ \E p \in Projects :
       \/ Serve(p) \/ Settle(p) \/ TakeBack(p) \/ Reapply(p) \/ CheckRules(p) \/ OwnPort(p)
       \/ StartOwn(p) \/ RestartOwn(p) \/ StopOwn(p) \/ TryStopOwn(p) \/ Evict(p)
       \/ Unregister(p) \/ SharePort(p)

Operation ==
  \/ \E p \in Projects :
       \/ StartProject(p) \/ StopProject(p) \/ RestartProject(p) \/ RemoveProject(p)
       \/ StartAdded(p) \/ Share(p) \/ Unshare(p)
       \/ \E server \in Servers \cup {NoServer} :
            \/ UpdateSettings(p, server)
            \/ \E start \in BOOLEAN : AddProject(p, server, start)
  \/ \E server \in Servers : SetWebserver(server)
  \/ SetPHPVersion \/ FollowNetwork \/ StopAll \/ Reset \/ Shutdown

Environment ==
  \/ Crash \/ HandEdit
  \/ \E n \in Ports : PortTaken(n) \/ PortReleased(n)

Next == Step \/ Operation \/ Environment

Spec == Init /\ [][Next]_vars

-----------------------------------------------------------------------------
TypeOK ==
  /\ registered \subseteq Projects
  /\ active \in Servers
  /\ pin \in [Projects -> Servers \cup {NoServer}]
  /\ port \in [Projects -> Ports \cup {0}] /\ lan \in [Projects -> Ports \cup {0}]
  /\ byHand \subseteq Slots /\ phpLost \in BOOLEAN
  /\ started \subseteq Projects /\ failed \subseteq Projects /\ shared \subseteq Projects
  /\ front \in Processes(FrontConfs) /\ php \in Processes({NoConf})
  /\ own \in [Projects -> Processes(OwnConfs)]
  /\ closing \in BOOLEAN /\ job \in Jobs /\ pending \subseteq Projects
  /\ held \subseteq Ports
  /\ stale \in BOOLEAN /\ edited \in BOOLEAN /\ trouble \in 0 .. MaxTrouble

(* What the daemon remembers of its projects agrees: only a started        *)
(* project is shared, whichever way it stopped being started (setStarted,  *)
(* startFailed, clearStarted), none is both started and failed, and unless *)
(* the file was edited by hand every started project is in wharf.json.     *)
LedgersAgree ==
  /\ shared \subseteq started
  /\ started \cap failed = {}
  /\ edited \/ started \subseteq registered

(* Of the ports that the daemon chose for the registered projects, for     *)
(* their own instances or as their ports on the network, no two are the    *)
(* same, however ports were moved, released, recorded again or written by  *)
(* hand meanwhile (nextPort, ownPort, lanPort).  A port that was written by*)
(* hand may be any other's: the file is taken as it is (validate).         *)
PortsDistinct ==
  \A s, t \in Slots \ byHand :
    s # t /\ {s[1], t[1]} \subseteq registered /\ Recorded(s) # 0 => Recorded(s) # Recorded(t)

(* Between operations, unless a failure or a hand-edit is still to be made *)
(* up for: the front door serves started projects only, and a project      *)
(* shown as running is answered - by the front door itself, or by its own  *)
(* instance on the port the front door forwards to.  Whatever was started, *)
(* stopped, removed, pinned, shared or switched meanwhile.                 *)
ServesWhatItShows ==
  job = Idle /\ ~stale /\ ~edited =>
    /\ Up(front) => \A p \in Projects : front.conf.routes[p] # Unserved => p \in started
    /\ \A p \in registered : Status(p) = "running" =>
         /\ front.conf.server = active
         /\ front.conf.routes[p] = IF OwnInstance(p) THEN own[p].conf.port ELSE Direct

(* A start or restart that does its steps and returns without an error,    *)
(* nothing having crashed meanwhile nor been edited by hand before, has the*)
(* project answered - by its own instance where it is pinned to the other  *)
(* webserver - with PHP behind it.  A start that finds the project shown   *)
(* as running returns at once: then the project is answered unless a       *)
(* failure is still to be made up for, and PHP is behind it unless PHP     *)
(* crashed, or was stopped by a reset that failed, and nothing has started *)
(* it since.                                                               *)
Served(p) ==
  /\ Up(front)
  /\ IF OwnInstance(p)
     THEN Up(own[p]) /\ front.conf.routes[p] = own[p].conf.port
     ELSE front.conf.routes[p] = Direct
StartedIsServed ==
  job.todo = <<>> /\ ~job.err /\ job.calm /\ ~edited =>
    /\ job.op \in {"start", "restart"} => Served(job.project) /\ Up(php)
    /\ job.op = "already" => (stale \/ Served(job.project)) /\ (phpLost \/ Up(php))

(* Once Wharf is quitting nothing comes up again: not the start of a       *)
(* project added a moment ago, nor any other operation still waiting for   *)
(* d.mu (Shutdown; addedLocked).                                           *)
NothingAfterShutdown ==
  closing /\ ~(job.op = "shutdown" /\ job.todo # <<>>) => ~AnyRunning

(* "It serves the started projects only ... the front door stops once none *)
(* is left" (dev/architecture.md, section 4c).                             *)
OnlyStartedServed ==
  job = Idle /\ Up(front) =>
    /\ started # {}
    /\ \A p \in Projects : front.conf.routes[p] # Unserved => p \in started

(* A project's status is "derived from the process actually serving it"    *)
(* (state.go, projectStatus): one shown as running is answered, by the     *)
(* front door or by a live instance it forwards to.                        *)
Answered(p) ==
  /\ Up(front)
  /\ \/ front.conf.routes[p] = Direct
     \/ Up(own[p]) /\ front.conf.routes[p] = own[p].conf.port
RunningIsAnswered ==
  job = Idle /\ ~edited => \A p \in registered : Status(p) = "running" => Answered(p)
================================================================================
