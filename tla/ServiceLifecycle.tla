--------------------------- MODULE ServiceLifecycle ---------------------------
(***************************************************************************)
(* What the supervisor promises the rest of the daemon about each service  *)
(* as long as one goroutine at a time calls it: the lifecycle the GUI      *)
(* shows, how it relates to the operating-system process behind it, and    *)
(* that nothing starts once the supervisor is closing.                     *)
(***************************************************************************)
CONSTANT Ids

VARIABLES
  state,     \* the state each service is shown in
  live,      \* the services that have a process
  quitting   \* nothing starts from here on

vars == <<state, live, quitting>>

Init ==
  /\ state = [id \in Ids |-> "absent"]
  /\ live = {}
  /\ quitting = FALSE

Become(id, from, to) ==
  /\ state[id] \in from
  /\ state' = [state EXCEPT ![id] = to]
  /\ UNCHANGED <<live, quitting>>

(* A service that already has a process is never started.                  *)
BeginStart(id) ==
  ~quitting /\ id \notin live /\ Become(id, {"absent", "stopped", "failed"}, "starting")

Launch(id) ==
  /\ state[id] = "starting" /\ id \notin live /\ ~quitting
  /\ live' = live \cup {id}
  /\ UNCHANGED <<state, quitting>>

Confirm(id) == Become(id, {"starting"}, "running")

(* It failed: whatever it started is gone.                                 *)
Fail(id) == id \notin live /\ Become(id, {"starting", "running"}, "failed")

BeginStop(id) == Become(id, {"running"}, "stopping")

EndStop(id) == id \notin live /\ Become(id, {"stopping"}, "stopped")

ProcessEnds(id) ==
  /\ id \in live
  /\ live' = live \ {id}
  /\ UNCHANGED <<state, quitting>>

Quit ==
  /\ quitting' = TRUE
  /\ UNCHANGED <<state, live>>

Next ==
  \/ \E id \in Ids :
       \/ BeginStart(id) \/ Launch(id) \/ Confirm(id) \/ Fail(id)
       \/ BeginStop(id) \/ EndStop(id) \/ ProcessEnds(id)
  \/ Quit

(* No service is left between two states, and none is shown running        *)
(* without a process.                                                      *)
Settle(id) ==
  \/ Confirm(id) \/ Fail(id) \/ EndStop(id)
  \/ state[id] = "stopping" /\ ProcessEnds(id)

Safety == Init /\ [][Next]_vars

Spec == Safety /\ \A id \in Ids : WF_vars(Settle(id))
===============================================================================
