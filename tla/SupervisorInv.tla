----------------------------- MODULE SupervisorInv -----------------------------
(***************************************************************************)
(* The inductive invariant behind the supervisor's safety properties: what *)
(* its records, its goroutines and the processes know of each other        *)
(* between any two steps.                                                  *)
(***************************************************************************)
EXTENDS Supervisor

(* Start after its first section: it has a run.                            *)
StartPhase == StartLabels \ {"start"}

(* ... and before it has handed the process to the record.                 *)
PreAdopt == {"portWait", "check", "spawn", "adopt"}

(* Stop once it has taken a process to terminate.                          *)
StopPhase == {"terminate", "release", "released", "unreleased"}

StoppedBy(g) == \E c \in Callers : mine[c] = g /\ pc[c] \in StopPhase

(* A caller inside Start or Stop works on a service ID; past its first     *)
(* section, Start has a run.                                               *)
TargetOK == \A c \in Callers :
  /\ pc[c] \notin {"idle", "close", "snapshot", "next"} => target[c] \in Ids
  /\ pc[c] \in StartPhase => mine[c] \in Runs

TypeInv == TypeOK /\ TargetOK

(* A record with a handle is the run it was born as, in a state that Stop  *)
(* acts on; only such a run is ever stopping or running.                   *)
RecordsOK == \A id \in Ids :
  LET m == procs[id] IN
  /\ m.run <= gen /\ m.gen <= gen
  /\ m.run # 0 => home[m.run] = id
  /\ m.handle => /\ m.run # 0 /\ m.gen = m.run
                 /\ m.state \in {"starting", "running", "stopping"}
  /\ m.state \in {"stopping", "running"} => m.handle
  /\ m.err = "start" => m.state = "failed"

(* Generations not given out yet have left no trace.                       *)
FreshOK ==
  /\ \A g \in Runs : g > gen => ~Alive(g) /\ g \notin watching
  /\ \A g \in Runs : Alive(g) \/ g \in watching => home[g] \in Ids
  /\ \A c \in Callers : mine[c] <= gen

(* What a caller relies on about its own run at each point.                *)
OwnRun(c) ==
  /\ pc[c] \in StartPhase \cup StopPhase => home[mine[c]] = target[c]
  /\ pc[c] \in PreAdopt =>
       /\ mine[c] \notin watching
       /\ Known(c).run = mine[c] => ~Known(c).handle
       /\ Current(c) => Known(c).state = "starting"
  /\ pc[c] \in {"portWait", "check", "spawn", "fail", "release", "released", "unreleased"}
       => ~Alive(mine[c])
  /\ pc[c] \in StopPhase => mine[c] \in Runs /\ seen[c] = mine[c]
  /\ pc[c] \in {"bindWait", "confirm"} /\ Current(c)
       /\ Known(c).state \notin {"failed", "stopped"} => Known(c).handle

OwnRunOK == \A c \in Callers : OwnRun(c)

(* A run is started by one caller, and stopped by none before it is handed *)
(* over.                                                                   *)
DistinctOK == \A c, d \in Callers : c # d /\ mine[c] = mine[d] =>
  /\ ~(pc[c] \in StartPhase /\ pc[d] \in StartPhase)
  /\ ~(pc[c] \in PreAdopt /\ pc[d] \in StopPhase)

(* A record is stopping only while a Stop is at work on it, and that Stop  *)
(* terminates the process first.                                           *)
StoppingOK == \A id \in Ids : LET m == procs[id] IN
  m.state = "stopping" =>
    /\ StoppedBy(m.run)
    /\ Alive(m.run) => \E c \in Callers : pc[c] = "terminate" /\ mine[c] = m.run

(* The exit of a process that a record holds will be noticed: its watcher  *)
(* is waiting for it, or a Stop takes care of it.                          *)
ExitsOK == \A id \in Ids : LET m == procs[id] IN
  m.handle /\ m.state \in {"starting", "running"} => m.run \in watching \/ StoppedBy(m.run)

OwnershipInv ==
  /\ RecordsOK /\ FreshOK /\ OwnRunOK /\ DistinctOK
  /\ StoppingOK /\ ExitsOK /\ NoUntrackedProcess

(* What is left of Shutdown's work once it has closed the supervisor: the  *)
(* services it has yet to come to.                                         *)
Uncondemned == {g \in Runs : Alive(g) /\ ~Condemned(g)}

ShutdownOK ==
  /\ down => closing /\ Uncondemned = {}
  /\ \A c \in Callers :
       /\ pc[c] = "close" => op[c] = "shutdown"
       /\ op[c] = "shutdown" => pc[c] \in StopLabels
       /\ op[c] = "shutdown" /\ pc[c] # "close" =>
            /\ closing
            /\ pc[c] # "snapshot" => \A g \in Uncondemned :
                 home[g] \in todo[c] \/ (pc[c] = "stop" /\ home[g] = target[c])

ShutdownInv == TypeInv /\ OwnershipInv /\ ShutdownOK

(* One caller at a time: what else holds then.  The caller's call decides  *)
(* where it can be.                                                        *)
CallOK(c) ==
  /\ pc[c] \in {"close", "snapshot", "next"} => op[c] \in {"stopAll", "shutdown"}
  /\ pc[c] \in StartLabels => op[c] \in {"start", "restart"}

(* Nobody replaces the run of a Start, calls it off or closes under it,    *)
(* and what a Stop is at work on stays so until that Stop ends it.         *)
Undisturbed(c) ==
  /\ pc[c] \in StartPhase =>
       /\ ~closing /\ Current(c) /\ pc[c] # "discard"
       /\ Known(c).state \in {"starting", "failed"}
  /\ pc[c] \in StopPhase => Current(c) /\ Known(c).state = "stopping"

(* No service is starting but the one the caller starts; a record that was *)
(* never written belongs to no run.                                        *)
SettledOK(c) == \A id \in Ids :
  /\ procs[id].state = "starting" => pc[c] \in StartPhase /\ target[c] = id
  /\ procs[id].state = "absent" => procs[id].gen = 0

OneCallerInv == \A c \in Callers : CallOK(c) /\ Undisturbed(c) /\ SettledOK(c)

(* From the moment its port was found free, a Start's own process is the   *)
(* only one of its ID that can hold that port; a process counts as serving *)
(* once it has listened.                                                   *)
ListenOK ==
  /\ \A c \in Callers :
       /\ pc[c] \in {"check", "spawn", "adopt", "bindWait"} =>
            \A g \in Runs \ {mine[c]} : home[g] = target[c] => proc[g] \in {"none", "gone"}
       /\ pc[c] = "confirm" => proc[mine[c]] # "up"
  /\ RunningHasListened
===============================================================================
