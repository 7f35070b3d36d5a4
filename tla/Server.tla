-------------------------------- MODULE Server --------------------------------
(***************************************************************************)
(* The daemon's side of the connection to the GUI and to wharfctl          *)
(* (daemon/internal/ipc/{server,client}.go) with what it carries: answers  *)
(* to requests, and the snapshots every state change broadcasts            *)
(* (core/{api,core,state,update}.go).                                      *)
(*                                                                         *)
(* Goroutines: one that accepts; one per connection that reads requests    *)
(* and answers them in order, and one that writes its queue; one per       *)
(* request handled in the background; and the supervisor's watchers, which *)
(* publish when a process crashes.  What a handler or a watcher still has  *)
(* to do is a job's plan, each of its steps between two holds of a lock.   *)
(*                                                                         *)
(* A snapshot is "new" while it shows the present state, and "old" once    *)
(* anything it shows has changed since.  Building one is one step.         *)
(***************************************************************************)
EXTENDS Integers, Sequences, FiniteSets

CONSTANTS
  Conns,     \* connections; a client that comes back is another one
  NoConn,    \* none: of a job that is no request
  Windows,   \* the app's connections, which read on and stay
  Asks,      \* what the client of each may ask
  Token,     \* the transport is loopback TCP, which asks for a token
  QueueLen,  \* room in a connection's queue: 32 in the code
  MaxJobs    \* bound: requests sent and processes that crash

(* What a request asks: Register's methods by what they do.                *)
Background == {"check"}
Kinds == {"state", "action", "auth", "guess", "junk"} \cup Background

ASSUME WindowsAssumption == Windows \subseteq Conns /\ NoConn \notin Conns
ASSUME AsksAssumption == Asks \in [Conns -> SUBSET Kinds]
ASSUME BoundsAssumption == Token \in BOOLEAN /\ MaxJobs \in Nat /\ QueueLen \in Nat \ {0}

VARIABLES
  untold,      \* something changed that no snapshot broadcast so far shows
  mu,          \* d.mu: the job that holds it
  checking,    \* d.updates.checking
  closed,      \* s.closed
  listed,      \* s.clients
  serves,      \* where the goroutine of each connection is
  authorised,  \* c.authorised
  hungUp,      \* the server has closed the connection
  out,         \* c.out, and what the writer and the sockets hold of it
  outClosed,   \* c.closed
  gone,        \* c.gone: the connection's writer has ended
  conn, kind,  \* the jobs: on which connection a request came, what it asks
  plan,        \* the steps each has still to take
  snap,        \* the snapshot each has in hand
  peer,        \* the client of each connection
  wire,        \* what it sent and the server has not read
  behind       \* the windows that show an old snapshot

daemonVars == <<untold, mu, checking>>
serverVars == <<closed, listed>>
connVars == <<serves, authorised, hungUp, out, outClosed, gone>>
jobVars == <<conn, kind, plan, snap>>
clientVars == <<peer, wire, behind>>
vars == <<daemonVars, serverVars, connVars, jobVars, clientVars>>

Jobs == 1 .. MaxJobs
Nobody == 0
Snapshots == {"none", "old", "new"}

(* A line to the client: an answer to a request, or nobody's: an event.    *)
Line(j, shows) == [for |-> j, shows |-> shows]
Lines == [for : Jobs \cup {Nobody}, shows : Snapshots]

(* The steps of the handlers.  An action holds d.mu while it changes what  *)
(* it changes and publishes that, and answers with a snapshot it takes     *)
(* after it let go.                                                        *)
Publish == <<"snapshot", "broadcast">>
Reply == <<"look", "answer">>
Refuse == <<"answer">>
PlanOf(k) ==
  CASE k = "state" -> Reply
    [] k = "action" -> <<"act">>
    [] k = "check" -> <<"check">>
    [] OTHER -> Refuse
Plans == {Reply, Refuse, <<"act">>, <<"check">>} \cup
         UNION {{p, <<"broadcast">> \o p, Publish \o p} : p \in {<<>>, <<"looked up">>, Reply, Refuse}}

(* The app's window is connected: Dial has authenticated it, and it has    *)
(* asked for the state.                                                    *)
Init ==
  /\ untold = FALSE /\ mu = Nobody /\ checking = FALSE
  /\ closed = FALSE /\ listed = Windows
  /\ serves = [c \in Conns |-> IF c \in Windows THEN "scan" ELSE "none"]
  /\ authorised = [c \in Conns |-> c \in Windows \/ ~Token]
  /\ hungUp = [c \in Conns |-> FALSE]
  /\ out = [c \in Conns |-> <<>>]
  /\ outClosed = [c \in Conns |-> FALSE]
  /\ gone = [c \in Conns |-> FALSE]
  /\ conn = <<>> /\ kind = <<>>
  /\ plan = [j \in Jobs |-> <<>>]
  /\ snap = [j \in Jobs |-> "none"]
  /\ peer = [c \in Conns |-> IF c \in Windows THEN "here" ELSE "away"]
  /\ wire = [c \in Conns |-> <<>>]
  /\ behind = {}

Known == DOMAIN conn
On(c) == {j \in Known : conn[j] = c}
InOrder(j) == kind[j] \notin Background \cup {"crash"}

(***************************************************************************)
(* The clients                                                             *)
(***************************************************************************)

(* A client connects; the accepting goroutine has it, and no other.        *)
Accept(c) ==
  /\ peer[c] = "away" /\ ~closed
  /\ \A d \in Conns : serves[d] # "accepted"
  /\ peer' = [peer EXCEPT ![c] = "here"]
  /\ serves' = [serves EXCEPT ![c] = "accepted"]
  /\ UNCHANGED <<daemonVars, serverVars, authorised, hungUp, out, outClosed, gone, jobVars,
                 wire, behind>>

(* Call: a request is sent, whether or not earlier ones are answered.      *)
Send(c, k) ==
  /\ peer[c] = "here" /\ ~hungUp[c]
  /\ k \in {"auth", "guess"} => Token
  /\ Len(conn) < MaxJobs
  /\ conn' = Append(conn, c) /\ kind' = Append(kind, k)
  /\ wire' = [wire EXCEPT ![c] = Append(@, Len(conn'))]
  /\ UNCHANGED <<daemonVars, serverVars, connVars, plan, snap, peer, behind>>

(* The client closes its end, or ends itself.                              *)
Leave(c) ==
  /\ peer[c] = "here" /\ c \notin Windows
  /\ peer' = [peer EXCEPT ![c] = "left"]
  /\ UNCHANGED <<daemonVars, serverVars, connVars, jobVars, wire, behind>>

(***************************************************************************)
(* A connection on the server                                              *)
(***************************************************************************)

(* Serve lists what it accepted, also when Close has been through the list *)
(* meanwhile.                                                              *)
Register(c) ==
  /\ serves[c] = "accepted"
  /\ serves' = [serves EXCEPT ![c] = "scan"]
  /\ listed' = listed \cup {c}
  /\ UNCHANGED <<daemonVars, closed, authorised, hungUp, out, outClosed, gone, jobVars,
                 clientVars>>
(* Mutant: every request is handled in the background.                     *)
DispatchAllBeside(c) ==
  /\ serves[c] = "scan" /\ wire[c] # <<>>
  /\ wire' = [wire EXCEPT ![c] = Tail(@)]
  /\ LET j == Head(wire[c])
     IN /\ authorised' = [authorised EXCEPT ![c] = @ \/ kind[j] = "auth"]
        /\ plan' = [plan EXCEPT ![j] = IF authorised[c] THEN PlanOf(kind[j]) ELSE Refuse]
  /\ UNCHANGED <<daemonVars, serverVars, serves, hungUp, out, outClosed, gone, conn, kind, snap,
                 peer, behind>>

(* dispatch, the next request: without the token it is only answered with  *)
(* an error; beside one in the background, the connection goes on reading. *)
Dispatch(c) ==
  /\ serves[c] = "scan" /\ wire[c] # <<>>
  /\ wire' = [wire EXCEPT ![c] = Tail(@)]
  /\ LET j == Head(wire[c])
     IN /\ authorised' = [authorised EXCEPT ![c] = @ \/ kind[j] = "auth"]
        /\ plan' = [plan EXCEPT ![j] = IF authorised[c] THEN PlanOf(kind[j]) ELSE Refuse]
        /\ serves' = [serves EXCEPT ![c] =
                        IF authorised[c] /\ kind[j] \in Background THEN "scan" ELSE "busy"]
  /\ UNCHANGED <<daemonVars, serverVars, hungUp, out, outClosed, gone, conn, kind, snap, peer,
                 behind>>

(* Nothing more can be read: the client left, the server closed the        *)
(* connection, the token did not come in time or was wrong.                *)
Unreadable(c) ==
  \/ serves[c] = "scan" /\ (peer[c] = "left" \/ hungUp[c] \/ ~authorised[c])
  \/ serves[c] = "refused"
(* Mutant: the queue is closed without waiting for the handlers in the     *)
(* background.                                                             *)
CloseOutAtOnce(c) ==
  /\ Unreadable(c)
  /\ serves' = [serves EXCEPT ![c] = "flush"]
  /\ outClosed' = [outClosed EXCEPT ![c] = TRUE]
  /\ wire' = [wire EXCEPT ![c] = <<>>]
  /\ UNCHANGED <<daemonVars, serverVars, authorised, hungUp, out, gone, jobVars, peer, behind>>

(* inflight.Wait and closeOut: the queue is closed once no handler in the  *)
(* background has an answer to put on it.                                  *)
CloseOut(c) ==
  /\ Unreadable(c)
  /\ \A j \in On(c) : plan[j] = <<>>
  /\ serves' = [serves EXCEPT ![c] = "flush"]
  /\ outClosed' = [outClosed EXCEPT ![c] = TRUE]
  /\ wire' = [wire EXCEPT ![c] = <<>>]
  /\ UNCHANGED <<daemonVars, serverVars, authorised, hungUp, out, gone, jobVars, peer, behind>>

(* serveClient returns once the writer has ended.                          *)
End(c) ==
  /\ serves[c] = "flush" /\ gone[c]
  /\ serves' = [serves EXCEPT ![c] = "over"]
  /\ listed' = listed \ {c}
  /\ hungUp' = [hungUp EXCEPT ![c] = TRUE]
  /\ UNCHANGED <<daemonVars, closed, authorised, out, outClosed, gone, jobVars,
                 clientVars>>

(* The client's readLoop: the window shows the snapshot that came last.    *)
Shown(c, line) ==
  CASE line.shows = "none" -> behind
    [] line.shows = "old" -> behind \cup ({c} \cap Windows)
    [] line.shows = "new" -> behind \ {c}

(* The writer: a line reaches a client that reads.                         *)
Write(c) ==
  /\ serves[c] \notin {"none", "accepted"} /\ ~gone[c] /\ out[c] # <<>>
  /\ peer[c] = "here" /\ ~hungUp[c]
  /\ out' = [out EXCEPT ![c] = Tail(@)]
  /\ behind' = Shown(c, Head(out[c]))
  /\ UNCHANGED <<daemonVars, serverVars, serves, authorised, hungUp, outClosed, gone, jobVars,
                 peer, wire>>

(* It ends at a write that fails, or when the queue is closed and empty;   *)
(* what the queue still holds goes nowhere.                                *)
WriterEnds(c) ==
  /\ serves[c] \notin {"none", "accepted"} /\ ~gone[c]
  /\ \/ out[c] # <<>> /\ (peer[c] = "left" \/ hungUp[c])
     \/ out[c] = <<>> /\ outClosed[c]
  /\ gone' = [gone EXCEPT ![c] = TRUE]
  /\ out' = [out EXCEPT ![c] = <<>>]
  /\ UNCHANGED <<daemonVars, serverVars, serves, authorised, hungUp, outClosed, jobVars,
                 clientVars>>

(* Close: the connections on the list are closed, and the listener.        *)
Close ==
  /\ ~closed
  /\ closed' = TRUE /\ listed' = {}
  /\ hungUp' = [c \in Conns |-> hungUp[c] \/ c \in listed]
  /\ UNCHANGED <<daemonVars, serves, authorised, out, outClosed, gone, jobVars,
                 clientVars>>

(***************************************************************************)
(* The handlers                                                            *)
(***************************************************************************)
IsNext(j, step) == plan[j] # <<>> /\ Head(plan[j]) = step
Then(j, steps) == plan' = [plan EXCEPT ![j] = steps]
GoOn(j) == Then(j, Tail(plan[j]))

(* A change that snapshots show: those taken before it are old.            *)
Aged(shows) == IF shows = "new" THEN "old" ELSE shows
Changes ==
  /\ untold' = TRUE
  /\ snap' = [j \in Jobs |-> Aged(snap[j])]
  /\ out' = [c \in Conns |-> [i \in DOMAIN out[c] |-> [out[c][i] EXCEPT !.shows = Aged(@)]]]
  /\ behind' = Windows
seenVars == <<untold, snap, out, behind>>
otherVars == <<serverVars, serves, authorised, hungUp, outClosed, gone, conn, kind, peer, wire>>

(* An action: refused, or failed with nothing changed; or done under d.mu. *)
Act(j) ==
  /\ IsNext(j, "act") /\ mu = Nobody
  /\ \/ Then(j, Refuse) /\ UNCHANGED <<mu, seenVars>>
     \/ Then(j, Publish \o Reply) /\ mu' = j /\ Changes
  /\ UNCHANGED <<checking, otherVars>>

(* State: for publish, or for the answer.                                  *)
Snapshot(j) ==
  /\ IsNext(j, "snapshot") \/ IsNext(j, "look")
  /\ GoOn(j) /\ snap' = [snap EXCEPT ![j] = "new"]
  /\ UNCHANGED <<daemonVars, serverVars, connVars, conn, kind, clientVars>>
(* Mutant: an event does not look for room in the queue.                   *)
PushedBlindly(c, shows) ==
  IF c \in listed /\ ~outClosed[c] /\ ~gone[c]
  THEN Append(out[c], Line(Nobody, shows)) ELSE out[c]

(* push: an event is queued unless the queue is closed, or has no room.    *)
(* What is queued when the writer has ended never reaches the client.      *)
Pushed(c, shows) ==
  IF c \in listed /\ ~outClosed[c] /\ ~gone[c] /\ Len(out[c]) < QueueLen
  THEN Append(out[c], Line(Nobody, shows)) ELSE out[c]
(* Mutant: an event waits for room in every queue, as answers do.          *)
BroadcastToAll(j) ==
  /\ \A c \in listed : outClosed[c] \/ gone[c] \/ Len(out[c]) < QueueLen
  /\ IsNext(j, "broadcast") /\ GoOn(j)
  /\ out' = [c \in Conns |-> Pushed(c, snap[j])]
  /\ untold' = (untold /\ snap[j] = "old")
  /\ snap' = [snap EXCEPT ![j] = "none"]
  /\ mu' = IF mu = j THEN Nobody ELSE mu
  /\ UNCHANGED <<checking, otherVars, behind>>

(* Broadcast, the end of publish; an action then lets go of d.mu.          *)
Broadcast(j) ==
  /\ IsNext(j, "broadcast") /\ GoOn(j)
  /\ out' = [c \in Conns |-> Pushed(c, snap[j])]
  /\ untold' = (untold /\ snap[j] = "old")
  /\ snap' = [snap EXCEPT ![j] = "none"]
  /\ mu' = IF mu = j THEN Nobody ELSE mu
  /\ UNCHANGED <<checking, otherVars, behind>>
(* Mutant: an answer does not notice that the writer has ended.            *)
AnswerOnlyQueued(j) ==
  LET c == conn[j]
  IN /\ IsNext(j, "answer")
     /\ Len(out[c]) < QueueLen /\ ~gone[c]
     /\ out' = [out EXCEPT ![c] = Append(@, Line(j, snap[j]))]
     /\ GoOn(j)
     /\ snap' = [snap EXCEPT ![j] = "none"]
     /\ serves' = IF kind[j] \in Background /\ authorised[c] THEN serves
                  ELSE [serves EXCEPT ![c] =
                          IF kind[j] = "guess" /\ ~authorised[c] THEN "refused" ELSE "scan"]
     /\ UNCHANGED <<daemonVars, serverVars, authorised, hungUp, outClosed, gone, conn, kind,
                    clientVars>>

(* send: an answer waits for room in the queue, unless its writer ended.   *)
(* Then the connection's goroutine reads on; after a wrong token it ends.  *)
Answer(j) ==
  LET c == conn[j]
  IN /\ IsNext(j, "answer")
     /\ \/ gone[c] /\ out' = out
        \/ Len(out[c]) < QueueLen /\ out' = [out EXCEPT ![c] = Append(@, Line(j, snap[j]))]
     /\ GoOn(j)
     /\ snap' = [snap EXCEPT ![j] = "none"]
     /\ serves' = IF kind[j] \in Background /\ authorised[c] THEN serves
                  ELSE [serves EXCEPT ![c] =
                          IF kind[j] = "guess" /\ ~authorised[c] THEN "refused" ELSE "scan"]
     /\ UNCHANGED <<daemonVars, serverVars, authorised, hungUp, outClosed, gone, conn, kind,
                    clientVars>>
(* Mutant: a lookup starts beside one that runs.                           *)
CheckAgain(j) ==
  /\ IsNext(j, "check")
  /\ checking' = TRUE /\ Changes /\ Then(j, Publish \o <<"looked up">>)
  /\ UNCHANGED <<mu, otherVars>>

(* CheckForUpdates of a release build, in the background: a second one     *)
(* while one runs answers with what is.                                    *)
Check(j) ==
  /\ IsNext(j, "check")
  /\ \/ checking /\ Then(j, Reply) /\ UNCHANGED <<checking, seenVars>>
     \/ ~checking /\ checking' = TRUE /\ Changes /\ Then(j, Publish \o <<"looked up">>)
  /\ UNCHANGED <<mu, otherVars>>
(* Mutant: a lookup that fails returns before it publishes.                *)
FailedLookupUntold(j) ==
  /\ IsNext(j, "looked up")
  /\ checking' = FALSE /\ Changes
  /\ Then(j, Publish \o Reply) \/ Then(j, Refuse)
  /\ UNCHANGED <<mu, otherVars>>

(* The lookup ends, after ten seconds at the latest.                       *)
LookedUp(j) ==
  /\ IsNext(j, "looked up")
  /\ checking' = FALSE /\ Changes
  /\ Then(j, Publish \o Reply) \/ Then(j, Publish \o Refuse)
  /\ UNCHANGED <<mu, otherVars>>

(* A process crashes, and the supervisor's OnChange publishes.             *)
CrashSeen ==
  /\ Len(conn) < MaxJobs
  /\ conn' = Append(conn, NoConn) /\ kind' = Append(kind, "crash")
  /\ Then(Len(conn'), Publish) /\ Changes
  /\ UNCHANGED <<mu, checking, serverVars, serves, authorised, hungUp, outClosed, gone, peer,
                 wire>>

(***************************************************************************)
(* The specification                                                       *)
(***************************************************************************)
Handle(j) == Act(j) \/ Snapshot(j) \/ Broadcast(j) \/ Answer(j) \/ Check(j) \/ LookedUp(j)
Serve(c) == Register(c) \/ Dispatch(c) \/ CloseOut(c) \/ End(c)

Next ==
  \/ \E c \in Conns : Accept(c) \/ Leave(c) \/ \E k \in Asks[c] : Send(c, k)
  \/ \E c \in Conns : Serve(c) \/ Write(c) \/ WriterEnds(c)
  \/ \E j \in Jobs : Handle(j)
  \/ Close \/ CrashSeen

(* The daemon's goroutines go on, lookups end, and a window reads on.      *)
(* Nobody has to connect, ask or leave, and no other client has to read.   *)
Fairness ==
  /\ \A j \in Jobs : WF_vars(Handle(j))
  /\ \A c \in Conns : WF_vars(Serve(c)) /\ WF_vars(WriterEnds(c))
  /\ \A c \in Windows : WF_vars(Write(c))

Spec == Init /\ [][Next]_vars /\ Fairness

(***************************************************************************)
(* Properties                                                              *)
(***************************************************************************)
TypeOK ==
  /\ mu \in Jobs \cup {Nobody}
  /\ {untold, checking, closed} \subseteq BOOLEAN
  /\ listed \subseteq Conns /\ behind \subseteq Windows
  /\ serves \in [Conns -> {"none", "accepted", "scan", "busy", "refused", "flush", "over"}]
  /\ {authorised, hungUp, outClosed, gone} \subseteq [Conns -> BOOLEAN]
  /\ \A c \in Conns : out[c] \in Seq(Lines) /\ Len(out[c]) <= QueueLen
  /\ conn \in Seq(Conns \cup {NoConn}) /\ kind \in Seq(Kinds \cup {"crash"})
  /\ Len(kind) = Len(conn) /\ Len(conn) <= MaxJobs
  /\ plan \in [Jobs -> Plans] /\ snap \in [Jobs -> Snapshots]
  /\ peer \in [Conns -> {"away", "here", "left"}]
  /\ \A c \in Conns : wire[c] \in Seq(Known)

(* Nothing is ever sent on a closed queue, which would end the daemon and  *)
(* with it every process it manages: the background handlers have answered *)
(* by then (serveClient, "closing it first would make that send panic").   *)
NoSendOnClosedQueue == \A c \in Conns : outClosed[c] => \A j \in On(c) : plan[j] = <<>>

(* On one connection, a request handled in order is answered after all     *)
(* that were sent before it ("starting a service then reading state must   *)
(* not race", dispatch).                                                   *)
InWire(j, c) == \E i \in DOMAIN wire[c] : wire[c][i] = j
AnswersInOrder ==
  [][\A c \in Conns : \A j \in On(c) : Answer(j) /\ InOrder(j) =>
       \A k \in On(c) : k < j /\ InOrder(k) => plan[k] = <<>> /\ ~InWire(k, c)]_vars

(* The button shows "Checking..." exactly while one lookup runs, however   *)
(* many clients ask (CheckForUpdates).                                     *)
LookingUp(j) == \E i \in DOMAIN plan[j] : plan[j][i] = "looked up"
OneLookupAtATime == Cardinality({j \in Known : LookingUp(j)}) = IF checking THEN 1 ELSE 0

(* Every change is broadcast, by itself or in a later snapshot, whatever   *)
(* the clients do: one that does not read holds up nothing ("drops the     *)
(* event rather than stalling the daemon", Broadcast).                     *)
EveryChangePublished == untold ~> ~untold

(* A window's request is answered, whatever other clients do ("a response  *)
(* is never dropped: its caller is waiting", send), unless the connection  *)
(* ends.                                                                   *)
Pending(j, c) ==
  InWire(j, c) \/ plan[j] # <<>> \/ \E i \in DOMAIN out[c] : out[c][i].for = j
EveryCallAnswered ==
  \A j \in Jobs, c \in Windows :
    j \in On(c) ~> (~Pending(j, c) \/ serves[c] = "over")

(* A connection whose client left, or which Close closed, is given up: its *)
(* goroutines end and it is listed no longer, also with an answer still    *)
(* waiting for room (send, serveClient).                                   *)
ConnectionsEnd ==
  \A c \in Conns : (peer[c] = "left" \/ hungUp[c]) ~> (serves[c] = "over" /\ c \notin listed)

(* What the broadcast is for: once nothing is under way and all that was   *)
(* queued has been read, a connected window shows the present state        *)
(* (Register, "every state change to be broadcast, so a connected GUI      *)
(* never has to poll").                                                    *)
Quiet == (\A j \in Jobs : plan[j] = <<>>) /\ (\A c \in Conns : out[c] = <<>>)
QuietWindowCurrent == Quiet => behind \cap listed = {}
===============================================================================
