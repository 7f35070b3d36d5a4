------------------------------ MODULE Supervisor ------------------------------
(***************************************************************************)
(* The process supervisor of the Wharf daemon                              *)
(* (daemon/internal/supervisor/supervisor.go).                             *)
(*                                                                         *)
(* A managed process is a run, named by the generation it was born with.   *)
(* Each caller is a goroutine inside Start, Stop, Restart, StopAll or      *)
(* Shutdown; one step of a caller is one section under s.mu, or one wait   *)
(* between two of them.  The operating system (processes, their sockets,   *)
(* other programs on the same ports) moves on its own.                     *)
(***************************************************************************)
EXTENDS Integers

CONSTANTS
  Callers,     \* goroutines that use the supervisor at the same time
  Ids,         \* service IDs: "webserver", "php:8.3", "project:blog"
  NoId,        \* not a service ID
  MaxStarts,   \* bound: how many Start and Restart calls are made
  Foreign      \* whether other programs may take the services' ports

ASSUME NoIdAssumption == NoId \notin Ids
ASSUME MaxStartsAssumption == MaxStarts \in Nat
ASSUME ForeignAssumption == Foreign \in BOOLEAN

(* Every start takes one generation, and being called off takes one more.  *)
Runs == 1 .. (2 * MaxStarts)

VARIABLES
  procs,     \* s.procs: what the supervisor knows of each ID
  gen,       \* s.gen
  closing,   \* s.closing
  pc,        \* where each caller is
  op,        \* the call it is in
  target,    \* the ID it works on
  mine,      \* the run it created, or is stopping
  seen,      \* the generation it captured with it
  todo,      \* the IDs StopAll has not come to yet
  ret,       \* what its last call returned; StopAll's firstErr while it runs
  proc,      \* the operating-system process of each run
  home,      \* the ID each run belongs to
  watching,  \* runs whose watch goroutine has not finished
  taken,     \* ports (by ID) another program holds
  starts,    \* Start and Restart calls made: the model's bound
  down       \* a Shutdown has returned

supVars == <<procs, gen, closing>>
callVars == <<op, target, mine, seen, todo>>
waiting == <<op, target, todo>>
osVars == <<proc, home, taken>>
vars == <<procs, gen, closing, pc, op, target, mine, seen, todo, ret,
          proc, home, watching, taken, starts, down>>

States == {"absent", "stopped", "starting", "running", "stopping", "failed"}
Errors == {"none", "start", "exit"}
Results == {"ok", "error", "shuttingDown"}
Operations == {"none", "start", "stop", "restart", "stopAll", "shutdown"}
StartLabels == {"start", "portWait", "check", "spawn", "adopt", "discard",
                "bindWait", "giveUp", "fail", "confirm"}
StopLabels == {"close", "snapshot", "next", "stop", "terminate", "release",
               "released", "unreleased"}

(* "up" runs without listening; "closing" has exited, but the kernel or a  *)
(* worker it left behind still holds its listening socket.                 *)
ProcStates == {"none", "up", "listening", "closing", "gone"}

Managed == [run : Runs \cup {0}, gen : Nat, state : States,
            handle : BOOLEAN, err : Errors]

NotManaged == [run |-> 0, gen |-> 0, state |-> "absent",
               handle |-> FALSE, err |-> "none"]
(* Mutant: a new record's state is left unset.                             *)
StartingUnset(g) == [run |-> g, gen |-> g, state |-> "", handle |-> FALSE, err |-> "none"]

(* What the supervisor writes into a managed record.                       *)
Starting(g) == [run |-> g, gen |-> g, state |-> "starting", handle |-> FALSE, err |-> "none"]
WithHandle(m, h) == [m EXCEPT !.handle = h]
Running(m) == [m EXCEPT !.state = "running", !.err = "none"]
Stopping(m) == [m EXCEPT !.state = "stopping"]
Stopped(m) == [m EXCEPT !.state = "stopped", !.err = "none", !.handle = FALSE]
(* Mutant: a start is called off without a new generation.                 *)
NeverStartedSameGen(m, g) == [m EXCEPT !.state = "stopped"]

NeverStarted(m, g) == [m EXCEPT !.state = "stopped", !.gen = g]
Failed(m, why) == [m EXCEPT !.state = "failed", !.err = why, !.handle = FALSE]

Alive(g) == proc[g] \in {"up", "listening"}

(* Prober.Free: nothing listens on the service's port.                     *)
PortFree(id) ==
  /\ id \notin taken
  /\ \A g \in Runs : home[g] = id => proc[g] \notin {"listening", "closing"}

Init ==
  /\ procs = [id \in Ids |-> NotManaged]
  /\ gen = 0
  /\ closing = FALSE
  /\ pc = [c \in Callers |-> "idle"]
  /\ op = [c \in Callers |-> "none"]
  /\ target = [c \in Callers |-> NoId]
  /\ mine = [c \in Callers |-> 0]
  /\ seen = [c \in Callers |-> 0]
  /\ todo = [c \in Callers |-> {}]
  /\ ret = [c \in Callers |-> "ok"]
  /\ proc = [g \in Runs |-> "none"]
  /\ home = [g \in Runs |-> NoId]
  /\ watching = {}
  /\ taken = {}
  /\ starts = 0
  /\ down = FALSE

(***************************************************************************)
(* Calls                                                                   *)
(***************************************************************************)
Goto(c, label) == pc' = [pc EXCEPT ![c] = label]

(* Start's and Stop's local variables go when they return.                 *)
DropLocals(c) ==
  /\ mine' = [mine EXCEPT ![c] = 0]
  /\ seen' = [seen EXCEPT ![c] = 0]

Return(c, result) ==
  /\ Goto(c, "idle")
  /\ DropLocals(c)
  /\ op' = [op EXCEPT ![c] = "none"]
  /\ target' = [target EXCEPT ![c] = NoId]
  /\ ret' = [ret EXCEPT ![c] = result]
  /\ down' = (down \/ op[c] = "shutdown")
  /\ UNCHANGED todo

CallStart(c, id) ==
  /\ pc[c] = "idle" /\ starts < MaxStarts
  /\ starts' = starts + 1
  /\ \/ op' = [op EXCEPT ![c] = "start"] /\ Goto(c, "start")
     \/ op' = [op EXCEPT ![c] = "restart"] /\ Goto(c, "stop")
  /\ target' = [target EXCEPT ![c] = id]
  /\ ret' = [ret EXCEPT ![c] = "ok"]
  /\ UNCHANGED <<supVars, mine, seen, todo, osVars, watching, down>>

CallStop(c, id) ==
  /\ pc[c] = "idle"
  /\ op' = [op EXCEPT ![c] = "stop"] /\ Goto(c, "stop")
  /\ target' = [target EXCEPT ![c] = id]
  /\ ret' = [ret EXCEPT ![c] = "ok"]
  /\ UNCHANGED <<supVars, mine, seen, todo, osVars, watching, starts, down>>

CallStopAll(c) ==
  /\ pc[c] = "idle"
  /\ \/ op' = [op EXCEPT ![c] = "stopAll"] /\ Goto(c, "snapshot")
     \/ op' = [op EXCEPT ![c] = "shutdown"] /\ Goto(c, "close")
  /\ ret' = [ret EXCEPT ![c] = "ok"]
  /\ UNCHANGED <<supVars, target, mine, seen, todo, osVars, watching, starts, down>>

(***************************************************************************)
(* Start                                                                   *)
(***************************************************************************)
Known(c) == procs[target[c]]

(* The run this Start created is still the one its ID stands for.          *)
Current(c) == Known(c).run = mine[c] /\ Known(c).gen = mine[c]

StartRefused(c) ==
  /\ pc[c] = "start" /\ closing
  /\ Return(c, "shuttingDown")
  /\ UNCHANGED <<supVars, osVars, watching, starts>>

StartAlready(c) ==
  /\ pc[c] = "start" /\ ~closing
  /\ Known(c).state \in {"running", "starting"}
  /\ Return(c, "ok")
  /\ UNCHANGED <<supVars, osVars, watching, starts>>
(* Mutant: a start under way does not make the next one a no-op.           *)
StartAgain(c) ==
  /\ pc[c] = "start" /\ ~closing
  /\ Known(c).state # "running"
  /\ gen + 1 \in Runs
  /\ gen' = gen + 1
  /\ procs' = [procs EXCEPT ![target[c]] = Starting(gen + 1)]
  /\ mine' = [mine EXCEPT ![c] = gen + 1]
  /\ home' = [home EXCEPT ![gen + 1] = target[c]]
  /\ Goto(c, "portWait")
  /\ UNCHANGED <<closing, op, target, seen, todo, ret, proc, watching, taken,
                 starts, down>>

StartNew(c) ==
  /\ pc[c] = "start" /\ ~closing
  /\ Known(c).state \notin {"running", "starting"}
  /\ gen + 1 \in Runs
  /\ gen' = gen + 1
  /\ procs' = [procs EXCEPT ![target[c]] = Starting(gen + 1)]
  /\ mine' = [mine EXCEPT ![c] = gen + 1]
  /\ home' = [home EXCEPT ![gen + 1] = target[c]]
  /\ Goto(c, "portWait")
  /\ UNCHANGED <<closing, op, target, seen, todo, ret, proc, watching, taken,
                 starts, down>>

PortWaitDone(c) ==
  /\ pc[c] = "portWait"
  /\ IF PortFree(target[c]) THEN Goto(c, "check") ELSE Goto(c, "fail")
  /\ UNCHANGED <<supVars, callVars, ret, osVars, watching, starts, down>>

CalledOff(c) ==
  /\ pc[c] = "check" /\ (closing \/ ~Current(c))
  /\ Return(c, IF closing THEN "shuttingDown" ELSE "ok")
  /\ UNCHANGED <<supVars, osVars, watching, starts>>

NotCalledOff(c) ==
  /\ pc[c] = "check" /\ ~closing /\ Current(c)
  /\ Goto(c, "spawn")
  /\ UNCHANGED <<supVars, callVars, ret, osVars, watching, starts, down>>

Spawn(c) ==
  /\ pc[c] = "spawn"
  /\ proc' = [proc EXCEPT ![mine[c]] = "up"]
  /\ Goto(c, "adopt")
  /\ UNCHANGED <<supVars, callVars, ret, home, taken, watching, starts, down>>

SpawnFails(c) ==
  /\ pc[c] = "spawn"
  /\ Goto(c, "fail")
  /\ UNCHANGED <<supVars, callVars, ret, osVars, watching, starts, down>>
(* Mutant: the spawned process is handed to whatever record there is.      *)
AdoptUnchecked(c) ==
  /\ pc[c] = "adopt" /\ ~closing
  /\ procs' = [procs EXCEPT ![target[c]] = WithHandle(@, TRUE)]
  /\ watching' = watching \cup {mine[c]}
  /\ Goto(c, "bindWait")
  /\ UNCHANGED <<gen, closing, callVars, ret, osVars, starts, down>>
(* Mutant: the watch goroutine is never started.                           *)
AdoptUnwatched(c) ==
  /\ pc[c] = "adopt" /\ Current(c) /\ ~closing
  /\ procs' = [procs EXCEPT ![target[c]] = WithHandle(@, TRUE)]
  /\ Goto(c, "bindWait")
  /\ UNCHANGED <<gen, closing, callVars, ret, osVars, watching, starts, down>>

Adopt(c) ==
  /\ pc[c] = "adopt" /\ Current(c) /\ ~closing
  /\ procs' = [procs EXCEPT ![target[c]] = WithHandle(@, TRUE)]
  /\ watching' = watching \cup {mine[c]}
  /\ Goto(c, "bindWait")
  /\ UNCHANGED <<gen, closing, callVars, ret, osVars, starts, down>>

AdoptCalledOff(c) ==
  /\ pc[c] = "adopt" /\ (closing \/ ~Current(c))
  /\ ret' = [ret EXCEPT ![c] = IF closing THEN "shuttingDown" ELSE "ok"]
  /\ Goto(c, "discard")
  /\ UNCHANGED <<supVars, callVars, osVars, watching, starts, down>>

Discarded(c) ==
  /\ pc[c] = "discard" /\ ~Alive(mine[c])
  /\ Return(c, ret[c])
  /\ UNCHANGED <<supVars, osVars, watching, starts>>
(* Mutant: a spawned process is taken for a serving one.                   *)
BindNotAwaited(c) ==
  /\ pc[c] = "bindWait"
  /\ Goto(c, "confirm")
  /\ UNCHANGED <<supVars, callVars, ret, osVars, watching, starts, down>>

(* Any listener on the port ends the wait; a process that exits, and       *)
(* StartTimeout, end it when there is none.                                *)
BindWaitDone(c) ==
  /\ pc[c] = "bindWait"
  /\ IF PortFree(target[c]) THEN Goto(c, "giveUp") ELSE Goto(c, "confirm")
  /\ UNCHANGED <<supVars, callVars, ret, osVars, watching, starts, down>>

GaveUp(c) ==
  /\ pc[c] = "giveUp" /\ ~Alive(mine[c])
  /\ Goto(c, "fail")
  /\ UNCHANGED <<supVars, callVars, ret, osVars, watching, starts, down>>

Fail(c) ==
  /\ pc[c] = "fail"
  /\ procs' = IF Known(c).gen = mine[c]
              THEN [procs EXCEPT ![target[c]] = Failed(@, "start")]
              ELSE procs
  /\ Return(c, "error")
  /\ UNCHANGED <<gen, closing, osVars, watching, starts>>
(* Mutant: a process that exited while it was awaited is running.          *)
ConfirmUnchecked(c) ==
  /\ pc[c] = "confirm" /\ Current(c)
  /\ procs' = [procs EXCEPT ![target[c]] = Running(@)]
  /\ Return(c, "ok")
  /\ UNCHANGED <<gen, closing, osVars, watching, starts>>

Confirm(c) ==
  /\ pc[c] = "confirm" /\ Current(c)
  /\ Known(c).state \notin {"failed", "stopped"}
  /\ procs' = [procs EXCEPT ![target[c]] = Running(@)]
  /\ Return(c, "ok")
  /\ UNCHANGED <<gen, closing, osVars, watching, starts>>
(* Mutant: a process that exited while it was awaited is no error.         *)
ConfirmTooLateNil(c) ==
  /\ pc[c] = "confirm"
  /\ ~Current(c) \/ Known(c).state \in {"failed", "stopped"}
  /\ Return(c, "ok")
  /\ UNCHANGED <<supVars, osVars, watching, starts>>

ConfirmTooLate(c) ==
  /\ pc[c] = "confirm"
  /\ \/ ~Current(c) /\ Return(c, "ok")
     \/ Current(c) /\ Known(c).state \in {"failed", "stopped"} /\ Return(c, "error")
  /\ UNCHANGED <<supVars, osVars, watching, starts>>

(***************************************************************************)
(* Stop, StopAll and Shutdown                                              *)
(***************************************************************************)
(* What follows a Stop: its result to the caller, the second half of       *)
(* Restart, or the next ID of StopAll.                                     *)
AfterStop(c, result) ==
  \/ /\ op[c] = "stop" \/ (op[c] = "restart" /\ result # "ok")
     /\ Return(c, result)
  \/ /\ op[c] = "restart" /\ result = "ok"
     /\ Goto(c, "start")
     /\ DropLocals(c)
     /\ UNCHANGED <<waiting, ret, down>>
  \/ /\ op[c] \in {"stopAll", "shutdown"}
     /\ Goto(c, "next")
     /\ DropLocals(c)
     /\ ret' = [ret EXCEPT ![c] = IF @ = "ok" THEN result ELSE @]
     /\ UNCHANGED <<waiting, down>>

CallOff(c) ==
  /\ pc[c] = "stop" /\ Known(c).state = "starting" /\ ~Known(c).handle
  /\ gen' = gen + 1
  /\ procs' = [procs EXCEPT ![target[c]] = NeverStarted(@, gen + 1)]
  /\ AfterStop(c, "ok")
  /\ UNCHANGED <<closing, osVars, watching, starts>>

NothingToStop(c) ==
  /\ pc[c] = "stop"
  /\ ~(Known(c).state = "starting" /\ ~Known(c).handle)
  /\ ~Known(c).handle \/ Known(c).state \in {"stopped", "stopping"}
  /\ AfterStop(c, "ok")
  /\ UNCHANGED <<supVars, osVars, watching, starts>>

BeginStop(c) ==
  /\ pc[c] = "stop" /\ Known(c).handle
  /\ Known(c).state \notin {"stopped", "stopping"}
  /\ procs' = [procs EXCEPT ![target[c]] = Stopping(@)]
  /\ mine' = [mine EXCEPT ![c] = Known(c).run]
  /\ seen' = [seen EXCEPT ![c] = Known(c).gen]
  /\ Goto(c, "terminate")
  /\ UNCHANGED <<gen, closing, op, target, todo, ret, osVars, watching, starts, down>>
(* Mutant: Stop waits for the exit without ever killing.                   *)
KillUnlessStopping(c) ==
  /\ pc[c] \in {"discard", "giveUp"} /\ Alive(mine[c])
  /\ proc' = [proc EXCEPT ![mine[c]] = IF @ = "listening" THEN "closing" ELSE "gone"]
  /\ UNCHANGED <<supVars, pc, callVars, ret, home, taken, watching, starts, down>>

(* terminate: the process exits when asked (ProcessExits), or the grace    *)
(* period, the caller's context or a signal that cannot be sent ends in a  *)
(* kill.                                                                   *)
Kill(c) ==
  /\ pc[c] \in {"discard", "giveUp", "terminate"} /\ Alive(mine[c])
  /\ proc' = [proc EXCEPT ![mine[c]] = IF @ = "listening" THEN "closing" ELSE "gone"]
  /\ UNCHANGED <<supVars, pc, callVars, ret, home, taken, watching, starts, down>>
(* Mutant: Stop goes on without waiting for the exit.                      *)
TerminatedUnawaited(c) ==
  /\ pc[c] = "terminate"
  /\ Goto(c, "release")
  /\ UNCHANGED <<supVars, callVars, ret, osVars, watching, starts, down>>

Terminated(c) ==
  /\ pc[c] = "terminate" /\ ~Alive(mine[c])
  /\ Goto(c, "release")
  /\ UNCHANGED <<supVars, callVars, ret, osVars, watching, starts, down>>

ReleaseWaitDone(c) ==
  /\ pc[c] = "release"
  /\ IF PortFree(target[c]) THEN Goto(c, "released") ELSE Goto(c, "unreleased")
  /\ UNCHANGED <<supVars, callVars, ret, osVars, watching, starts, down>>
(* Mutant: a port that stays taken ends Stop early.                        *)
EndStopReleased(c) ==
  /\ pc[c] \in {"released", "unreleased"}
  /\ procs' = IF pc[c] = "released" /\ Known(c).run = mine[c] /\ Known(c).gen = seen[c]
              THEN [procs EXCEPT ![target[c]] = Stopped(@)]
              ELSE procs
  /\ AfterStop(c, IF pc[c] = "released" THEN "ok" ELSE "error")
  /\ UNCHANGED <<gen, closing, osVars, watching, starts>>

EndStop(c) ==
  /\ pc[c] \in {"released", "unreleased"}
  /\ procs' = IF Known(c).run = mine[c] /\ Known(c).gen = seen[c]
              THEN [procs EXCEPT ![target[c]] = Stopped(@)]
              ELSE procs
  /\ AfterStop(c, IF pc[c] = "released" THEN "ok" ELSE "error")
  /\ UNCHANGED <<gen, closing, osVars, watching, starts>>

Close(c) ==
  /\ pc[c] = "close"
  /\ closing' = TRUE
  /\ Goto(c, "snapshot")
  /\ UNCHANGED <<procs, gen, callVars, ret, osVars, watching, starts, down>>
(* Mutant: StopAll takes only what is running.                             *)
SnapshotRunning(c) ==
  /\ pc[c] = "snapshot"
  /\ todo' = [todo EXCEPT ![c] = {id \in Ids : procs[id].state = "running"}]
  /\ Goto(c, "next")
  /\ UNCHANGED <<supVars, op, target, mine, seen, ret, osVars, watching, starts, down>>

Snapshot(c) ==
  /\ pc[c] = "snapshot"
  /\ todo' = [todo EXCEPT ![c] = {id \in Ids : procs[id].state # "absent"}]
  /\ Goto(c, "next")
  /\ UNCHANGED <<supVars, op, target, mine, seen, ret, osVars, watching, starts, down>>

StopNext(c) ==
  /\ pc[c] = "next"
  /\ \E id \in todo[c] :
       /\ todo' = [todo EXCEPT ![c] = @ \ {id}]
       /\ target' = [target EXCEPT ![c] = id]
  /\ Goto(c, "stop")
  /\ UNCHANGED <<supVars, op, mine, seen, ret, osVars, watching, starts, down>>

StoppedAll(c) ==
  /\ pc[c] = "next" /\ todo[c] = {}
  /\ Return(c, ret[c])
  /\ UNCHANGED <<supVars, osVars, watching, starts>>
(* Mutant: the watcher replaces the error of a start that failed.          *)
WatchOverwrites(g) ==
  /\ g \in watching /\ ~Alive(g)
  /\ watching' = watching \ {g}
  /\ LET id == home[g]
         m == procs[id]
     IN procs' = IF m.gen # g \/ m.state \in {"stopping", "stopped"} THEN procs
                 ELSE [procs EXCEPT ![id] = Failed(@, "exit")]
  /\ UNCHANGED <<gen, closing, pc, callVars, ret, osVars, starts, down>>

(***************************************************************************)
(* The watch goroutine of a run, and the operating system                  *)
(***************************************************************************)
Watch(g) ==
  /\ g \in watching /\ ~Alive(g)
  /\ watching' = watching \ {g}
  /\ LET id == home[g]
         m == procs[id]
     IN procs' =
          IF m.gen # g \/ m.state \in {"stopping", "stopped"} THEN procs
          ELSE IF m.state = "failed" /\ m.err # "none"
          THEN [procs EXCEPT ![id] = WithHandle(@, FALSE)]
          ELSE [procs EXCEPT ![id] = Failed(@, "exit")]
  /\ UNCHANGED <<gen, closing, pc, callVars, ret, osVars, starts, down>>

ProcessListens(g) ==
  /\ proc[g] = "up" /\ PortFree(home[g])
  /\ proc' = [proc EXCEPT ![g] = "listening"]
  /\ UNCHANGED <<supVars, pc, callVars, ret, home, taken, watching, starts, down>>

ProcessExits(g) ==
  /\ Alive(g)
  /\ proc' = [proc EXCEPT ![g] = IF @ = "listening" THEN "closing" ELSE "gone"]
  /\ UNCHANGED <<supVars, pc, callVars, ret, home, taken, watching, starts, down>>

SocketReleased(g) ==
  /\ proc[g] = "closing"
  /\ proc' = [proc EXCEPT ![g] = "gone"]
  /\ UNCHANGED <<supVars, pc, callVars, ret, home, taken, watching, starts, down>>

OtherProgram(id) ==
  /\ Foreign
  /\ \/ PortFree(id) /\ taken' = taken \cup {id}
     \/ id \in taken /\ taken' = taken \ {id}
  /\ UNCHANGED <<supVars, pc, callVars, ret, proc, home, watching, starts, down>>

(***************************************************************************)
(* Specification                                                           *)
(***************************************************************************)
StartStep(c) ==
  \/ StartRefused(c) \/ StartAlready(c) \/ StartNew(c) \/ PortWaitDone(c)
  \/ CalledOff(c) \/ NotCalledOff(c) \/ Spawn(c) \/ SpawnFails(c)
  \/ Adopt(c) \/ AdoptCalledOff(c) \/ Discarded(c)
  \/ BindWaitDone(c) \/ GaveUp(c) \/ Fail(c) \/ Confirm(c) \/ ConfirmTooLate(c)

StopStep(c) ==
  \/ CallOff(c) \/ NothingToStop(c) \/ BeginStop(c) \/ Kill(c)
  \/ Terminated(c) \/ ReleaseWaitDone(c) \/ EndStop(c)
  \/ Close(c) \/ Snapshot(c) \/ StopNext(c) \/ StoppedAll(c)

Step(c) == StartStep(c) \/ StopStep(c)

Calls(c) ==
  \/ \E id \in Ids : CallStart(c, id) \/ CallStop(c, id)
  \/ CallStopAll(c)

Environment ==
  \/ \E g \in Runs : ProcessListens(g) \/ ProcessExits(g) \/ SocketReleased(g)
  \/ \E id \in Ids : OtherProgram(id)

Next ==
  \/ \E c \in Callers : Calls(c) \/ Step(c)
  \/ \E g \in Runs : Watch(g)
  \/ Environment

(* Goroutines are scheduled and every wait they enter has a timeout; what  *)
(* the processes and other programs do is not owed to anybody.             *)
Fairness ==
  /\ \A c \in Callers : WF_vars(Step(c))
  /\ \A g \in Runs : WF_vars(Watch(g))

Spec == Init /\ [][Next]_vars /\ Fairness

(***************************************************************************)
(* Properties                                                              *)
(***************************************************************************)
(* The supervisor's records keep their shape.                              *)
TypeOK ==
  /\ procs \in [Ids -> Managed]
  /\ gen \in Nat
  /\ closing \in BOOLEAN
  /\ pc \in [Callers -> {"idle"} \cup StartLabels \cup StopLabels]
  /\ op \in [Callers -> Operations]
  /\ target \in [Callers -> Ids \cup {NoId}]
  /\ mine \in [Callers -> Runs \cup {0}]
  /\ seen \in [Callers -> Nat]
  /\ todo \in [Callers -> SUBSET Ids]
  /\ ret \in [Callers -> Results]
  /\ proc \in [Runs -> ProcStates]
  /\ home \in [Runs -> Ids \cup {NoId}]
  /\ watching \in SUBSET Runs
  /\ taken \in SUBSET Ids
  /\ starts \in 0 .. MaxStarts
  /\ down \in BOOLEAN

(* The process is the one its ID stands for, so the next Stop reaches it.  *)
Held(g) == procs[home[g]].run = g /\ procs[home[g]].handle

(* A goroutine is about to hand it to its ID, or is terminating it.        *)
Attended(g) ==
  \E c \in Callers :
    mine[c] = g /\ pc[c] \in {"adopt", "discard", "giveUp", "terminate"}

(* A goroutine is terminating it, or will find that it has to.             *)
Condemned(g) ==
  \E c \in Callers :
    /\ mine[c] = g
    /\ \/ pc[c] \in {"discard", "giveUp", "terminate"}
       \/ pc[c] = "adopt" /\ (closing \/ ~Current(c))

(* No process is ever lost: each one the supervisor spawned can be stopped *)
(* through its ID, or has a goroutine that is dealing with it - whatever   *)
(* order starts, stops, replacements and crashes come in.                  *)
NoUntrackedProcess == \A g \in Runs : Alive(g) => Held(g) \/ Attended(g)

(* Two processes never serve one ID: one of them is being terminated.      *)
OneProcessPerService ==
  \A g, h \in Runs :
    Alive(g) /\ Alive(h) /\ home[g] = home[h] /\ g # h => Condemned(g) \/ Condemned(h)

(* "Nothing starts once Wharf is quitting": when a Shutdown has returned,  *)
(* the only processes left are being terminated (supervisor.go, Shutdown). *)
NothingSurvivesShutdown == down => \A g \in Runs : Alive(g) => Condemned(g)

(* A service shown as running whose process is gone has a watcher that has *)
(* yet to say so, or a Stop at work: it cannot stay "running" for good.    *)
CrashNoticed ==
  \A id \in Ids :
    LET g == procs[id].run IN
    procs[id].state = "running" /\ ~Alive(g) =>
      \/ g \in watching
      \/ \E c \in Callers :
           mine[c] = g /\ pc[c] \in {"terminate", "release", "released", "unreleased"}

(* A start that failed keeps its own error: the watcher, which knows only  *)
(* that the process exited, does not replace it (supervisor.go, watch).    *)
StartErrorKept ==
  [][\A id \in Ids :
       procs[id].err = "start" /\ procs'[id].run = procs[id].run
         => procs'[id].err # "exit"]_vars

Returns(c) == pc[c] # "idle" /\ pc'[c] = "idle"

(* With one caller, a Stop that returns leaves no process of its ID behind. *)
StopLeavesNothing ==
  [][\A c \in Callers : Returns(c) /\ op[c] = "stop" =>
       \A g \in Runs : home[g] = target[c] => proc'[g] \in {"none", "closing", "gone"}]_vars

(* With one caller, a start that returns nil returns with its service      *)
(* running, under a process that was spawned for it.                       *)
StartOkMeansRunning ==
  [][\A c \in Callers :
       Returns(c) /\ op[c] \in {"start", "restart"} /\ ret'[c] = "ok" =>
         LET m == procs'[target[c]] IN m.state = "running" /\ m.handle]_vars

(* A service shown as running has listened on its port: "a spec with a     *)
(* port must be listening on it, which is what distinguishes spawned from  *)
(* serving" (supervisor.go, Start).                                        *)
RunningHasListened == \A id \in Ids : procs[id].state = "running" => proc[procs[id].run] # "up"

(* The same as the code can promise it: it holds for one caller as long as  *)
(* no other program takes one of the services' ports; through replacements, *)
(* stops that time out and crashes while the port is awaited.              *)
ListensUnlessPortTaken == [](taken = {}) => []RunningHasListened

(* Every call returns.                                                     *)
CallsReturn == \A c \in Callers : pc[c] # "idle" ~> pc[c] = "idle"

(* "switching" ends: no service stays starting or stopping.                *)
TransitionsEnd ==
  \A id \in Ids :
    /\ procs[id].state = "starting" ~> procs[id].state # "starting"
    /\ procs[id].state = "stopping" ~> procs[id].state # "stopping"

(* The lifecycle ServiceLifecycle promises, refined by one caller.         *)
Lifecycle == INSTANCE ServiceLifecycle WITH
  state <- [id \in Ids |-> procs[id].state],
  live <- {id \in Ids : \E g \in Runs : home[g] = id /\ Alive(g)},
  quitting <- closing

LifecycleSpec == Lifecycle!Spec
===============================================================================
