------------------------- MODULE FrontDoorSafetyProofs -------------------------
(***************************************************************************)
(* What holds of the daemon's projects and its front door for any number   *)
(* of projects, webservers and ports: the ports the daemon chose stay      *)
(* apart, the ledgers agree with one another and with wharf.json, nothing  *)
(* comes up after a shutdown, and what is shown as running is served.      *)
(***************************************************************************)
EXTENDS FrontDoorProofs

-----------------------------------------------------------------------------
(* wharf.json's ports, as far as PortsDistinct needs them.                 *)
PortsInv ==
  /\ registered \subseteq Projects
  /\ port \in [Projects -> Ports \cup {0}]
  /\ lan \in [Projects -> Ports \cup {0}]
  /\ PortsDistinct

(* A slot of wharf.json that the daemon wrote and that holds a port of a   *)
(* registered project: the slots PortsDistinct is about.                   *)
Chosen(s) == s \in Slots \ byHand /\ s[1] \in registered /\ Recorded(s) # 0

(* Such a slot was one before, with the same port.                         *)
StillChosen(s) == Chosen(s) /\ Recorded(s)' = Recorded(s)

LEMMA SlotNames ==
  /\ \A s \in Slots : s[1] \in Projects /\ (s = <<s[1], "port">> \/ s = <<s[1], "lan">>)
  /\ \A p \in Projects : {<<p, "port">>, <<p, "lan">>} \subseteq Slots
<1>1. ASSUME NEW s \in Slots
      PROVE  s[1] \in Projects /\ (s = <<s[1], "port">> \/ s = <<s[1], "lan">>)
  <2>1. PICK p \in Projects : s \in SlotsOf(p)
    BY DEF Slots
  <2> QED
    BY <2>1 DEF SlotsOf
<1>2. ASSUME NEW p \in Projects
      PROVE  {<<p, "port">>, <<p, "lan">>} \subseteq Slots
  BY DEF Slots, SlotsOf
<1> QED
  BY <1>1, <1>2

LEMMA DistinctChosen ==
  PortsDistinct <=> \A s, t : Chosen(s) /\ Chosen(t) /\ s # t => Recorded(s) # Recorded(t)
BY DEF PortsDistinct, Chosen

(* A port taken with nextPort is nobody's, and not zero.                   *)
LEMMA NextPortIsFree ==
  ASSUME NEW base, base \subseteq Ports, NEW n \in base, IsNext(n, base)
  PROVE  /\ n # 0
         /\ \A s : Chosen(s) => Recorded(s) # n
BY PortsAssumption DEF IsNext, Candidates, Recorded, Chosen

(* Ports stay distinct while no slot comes to hold another than it held... *)
LEMMA PortsKept ==
  ASSUME PortsDistinct, \A s : Chosen(s)' => StillChosen(s)
  PROVE  PortsDistinct'
<1>1. \A s, t : Chosen(s)' /\ Chosen(t)' /\ s # t => Recorded(s)' # Recorded(t)'
  BY DistinctChosen DEF StillChosen
<1> QED
  BY <1>1, DistinctChosen DEF PortsDistinct, Chosen

(* ... or one slot comes to hold a port taken with nextPort.               *)
LEMMA PortRecorded ==
  ASSUME PortsDistinct, NEW base, base \subseteq Ports, NEW n \in base, IsNext(n, base),
         NEW w, Recorded(w)' = n, \A s : s # w /\ Chosen(s)' => StillChosen(s)
  PROVE  PortsDistinct'
<1>1. \A s : Chosen(s) => Recorded(s) # n
  BY NextPortIsFree
<1>2. \A s, t : Chosen(s)' /\ Chosen(t)' /\ s # t => Recorded(s)' # Recorded(t)'
  BY <1>1, DistinctChosen DEF StillChosen
<1> QED
  BY <1>2, DistinctChosen DEF PortsDistinct, Chosen

LEMMA PortsLeftAlone ==
  ASSUME PortsInv, UNCHANGED <<registered, port, lan, byHand>>
  PROVE  PortsInv'
BY DEF PortsInv, PortsDistinct, Recorded

LEMMA PortsForgotten ==
  ASSUME PortsInv, NEW p \in Projects, Forget(p)
  PROVE  PortsInv'
<1>1. \A q \in registered' : q \in registered /\ q # p /\ port'[q] = port[q] /\ lan'[q] = lan[q]
  BY DEF Forget, PortsInv
<1>2. ASSUME NEW s, Chosen(s)'
      PROVE  StillChosen(s)
  <2>1. s \in Slots /\ s[1] \in registered'
    BY <1>2 DEF Chosen
  <2>2. s \notin SlotsOf(p)
    BY <1>1, <2>1 DEF SlotsOf
  <2>3. s \notin byHand
    BY <1>2, <2>2 DEF Chosen, Forget
  <2> QED
    BY <1>1, <1>2, <2>1, <2>3 DEF Chosen, StillChosen, Recorded
<1>3. PortsDistinct'
  BY <1>2, PortsKept DEF PortsInv
<1> QED
  BY <1>3 DEF PortsInv, Forget

(* An entry written by hand: what is new in it counts as such.             *)
LEMMA PortsWritten ==
  ASSUME PortsInv, NEW p \in Projects, WriteEntry(p)
  PROVE  PortsInv'
<1> DEFINE written == {t \in SlotsOf(p) : p \notin registered \/ Recorded(t)' # Recorded(t)}
<1>1. byHand' = {s \in byHand \cup written : Recorded(s)' # 0}
  BY DEF WriteEntry
<1>2. /\ registered' = registered \cup {p}
      /\ port' \in [Projects -> Ports \cup {0}] /\ lan' \in [Projects -> Ports \cup {0}]
      /\ \A q \in Projects \ {p} : port'[q] = port[q] /\ lan'[q] = lan[q]
  BY DEF WriteEntry, PortsInv, Ports
<1>3. ASSUME NEW s, Chosen(s)'
      PROVE  StillChosen(s)
  <2>1. s \in Slots /\ s[1] \in registered' /\ Recorded(s)' # 0 /\ s \notin byHand'
    BY <1>3 DEF Chosen
  <2>2. s \notin byHand /\ s \notin written
    BY <1>1, <2>1
  <2>3. CASE s[1] = p
    <3>1. s \in SlotsOf(p)
      BY <2>1, <2>3, SlotNames DEF SlotsOf
    <3>2. p \in registered /\ Recorded(s)' = Recorded(s)
      BY <2>2, <3>1
    <3> QED
      BY <2>1, <2>2, <2>3, <3>2 DEF Chosen, StillChosen
  <2>4. CASE s[1] # p
    <3>1. s[1] \in Projects \ {p} /\ s[1] \in registered
      BY <1>2, <2>1, <2>4 DEF PortsInv
    <3>2. Recorded(s)' = Recorded(s)
      BY <1>2, <3>1 DEF Recorded
    <3> QED
      BY <2>1, <2>2, <3>1, <3>2 DEF Chosen, StillChosen
  <2> QED
    BY <2>3, <2>4
<1>4. PortsDistinct'
  BY <1>3, PortsKept DEF PortsInv
<1> QED
  BY <1>2, <1>4 DEF PortsInv
-----------------------------------------------------------------------------
(* A supervisor call writes no port.                                       *)
LEMMA PortsUntouched ==
  ASSUME NEW p,
         \/ Return \/ StopEverything \/ Clear \/ Apply(p) \/ Reload(p) \/ EnsurePHP(p)
         \/ Serve(p) \/ Settle(p) \/ TakeBack(p) \/ Reapply(p) \/ CheckRules(p)
         \/ StartOwn(p) \/ RestartOwn(p) \/ StopOwn(p) \/ TryStopOwn(p) \/ Evict(p)
         \/ StartProject(p) \/ StopProject(p) \/ RestartProject(p) \/ RemoveProject(p)
         \/ StartAdded(p) \/ Share(p) \/ Unshare(p) \/ SetPHPVersion \/ FollowNetwork
         \/ StopAll \/ Reset \/ Shutdown \/ Crash
         \/ PortTaken(p) \/ PortReleased(p)
         \/ \E server : UpdateSettings(p, server) \/ SetWebserver(server)
  PROVE  UNCHANGED <<registered, port, lan, byHand>>
<1>1. CASE Return \/ StopEverything \/ Clear \/ EnsurePHP(p) \/ TakeBack(p) \/ CheckRules(p)
  BY <1>1 DEF Return, StopEverything, Clear, EnsurePHP, TakeBack, CheckRules, cfgVars
<1>2. CASE Apply(p) \/ Reload(p) \/ Serve(p) \/ Settle(p) \/ Reapply(p)
  BY <1>2 DEF Apply, Reload, Serve, Settle, Reapply, FrontIs, cfgVars
<1>3. CASE StartOwn(p) \/ RestartOwn(p) \/ StopOwn(p) \/ TryStopOwn(p) \/ Evict(p)
  BY <1>3 DEF StartOwn, RestartOwn, StopOwn, TryStopOwn, Evict, OwnIs, cfgVars
<1>4. CASE \/ StartProject(p) \/ StopProject(p) \/ RestartProject(p) \/ RemoveProject(p)
           \/ StartAdded(p) \/ Share(p) \/ Unshare(p)
  BY <1>4 DEF StartProject, StopProject, RestartProject, RemoveProject, StartAdded, Share,
              Unshare, cfgVars
<1>5. CASE SetPHPVersion \/ FollowNetwork \/ StopAll \/ Reset \/ Shutdown
  BY <1>5 DEF SetPHPVersion, FollowNetwork, StopAll, Reset, Shutdown, cfgVars
<1>6. CASE Crash \/ PortTaken(p) \/ PortReleased(p)
  BY <1>6 DEF Crash, PortTaken, PortReleased, cfgVars
<1>7. CASE \E server : UpdateSettings(p, server) \/ SetWebserver(server)
  BY <1>7 DEF UpdateSettings, SetWebserver
<1> QED
  BY <1>1, <1>2, <1>3, <1>4, <1>5, <1>6, <1>7

LEMMA PortsInvStep ==
  ASSUME PortsInv, [Next]_vars
  PROVE  PortsInv'
<1>1. CASE UNCHANGED vars
  BY <1>1, PortsLeftAlone DEF vars
<1>2. ASSUME NEW p \in Projects, OwnPort(p)
      PROVE  PortsInv'
  <2>1. CASE port' = port
    BY <1>2, <2>1, PortsLeftAlone DEF OwnPort
  <2>2. CASE \E n \in OwnPorts : IsNext(n, OwnPorts) /\ port' = [port EXCEPT ![p] = n]
    <3>1. PICK n \in OwnPorts : IsNext(n, OwnPorts) /\ port' = [port EXCEPT ![p] = n]
      BY <2>2
    <3>2. /\ Recorded(<<p, "port">>)' = n
          /\ \A s \in Slots \ {<<p, "port">>} : Recorded(s)' = Recorded(s)
      BY <1>2, <3>1, SlotNames DEF OwnPort, PortsInv, Recorded
    <3>3. ASSUME NEW s, s # <<p, "port">>, Chosen(s)'
          PROVE  StillChosen(s)
      BY <1>2, <3>2, <3>3 DEF OwnPort, Chosen, StillChosen
    <3>4. PortsDistinct'
      BY <3>1, <3>2, <3>3, PortRecorded DEF PortsInv, Ports
    <3> QED
      BY <1>2, <3>1, <3>4 DEF OwnPort, PortsInv, Ports
  <2> QED
    BY <1>2, <2>1, <2>2 DEF OwnPort
<1>3. ASSUME NEW p \in Projects, SharePort(p)
      PROVE  PortsInv'
  <2>1. CASE lan' = lan
    BY <1>3, <2>1, PortsLeftAlone DEF SharePort
  <2>2. CASE \E n \in LanPorts : IsNext(n, LanPorts) /\ lan' = [lan EXCEPT ![p] = n]
    <3>1. PICK n \in LanPorts : IsNext(n, LanPorts) /\ lan' = [lan EXCEPT ![p] = n]
      BY <2>2
    <3>2. /\ Recorded(<<p, "lan">>)' = n
          /\ \A s \in Slots \ {<<p, "lan">>} : Recorded(s)' = Recorded(s)
      BY <1>3, <3>1, SlotNames DEF SharePort, PortsInv, Recorded
    <3>3. ASSUME NEW s, s # <<p, "lan">>, Chosen(s)'
          PROVE  StillChosen(s)
      BY <1>3, <3>2, <3>3 DEF SharePort, Chosen, StillChosen
    <3>4. PortsDistinct'
      BY <3>1, <3>2, <3>3, PortRecorded DEF PortsInv, Ports
    <3> QED
      BY <1>3, <3>1, <3>4 DEF SharePort, PortsInv, Ports
  <2> QED
    BY <1>3, <2>1, <2>2 DEF SharePort
<1>4. ASSUME NEW p \in Projects, Unregister(p)
      PROVE  PortsInv'
  BY <1>4, PortsForgotten, PortsLeftAlone DEF Unregister
<1>5. ASSUME NEW p \in Projects, NEW server, NEW start, AddProject(p, server, start)
      PROVE  PortsInv'
  <2>1. PICK n \in OwnPorts : IsNext(n, OwnPorts) /\ port' = [port EXCEPT ![p] = n]
    BY <1>5 DEF AddProject
  <2>2. /\ Recorded(<<p, "port">>)' = n /\ Recorded(<<p, "lan">>)' = 0
        /\ \A s \in Slots \ SlotsOf(p) : Recorded(s)' = Recorded(s) /\ s[1] # p
    BY <1>5, <2>1, SlotNames DEF AddProject, PortsInv, Recorded, SlotsOf
  <2>3. ASSUME NEW s, s # <<p, "port">>, Chosen(s)'
        PROVE  StillChosen(s)
    <3>1. s \in Slots \ SlotsOf(p)
      BY <2>2, <2>3 DEF Chosen, SlotsOf
    <3> QED
      BY <1>5, <2>2, <2>3, <3>1 DEF AddProject, Chosen, StillChosen
  <2>4. PortsDistinct'
    BY <2>1, <2>2, <2>3, PortRecorded DEF PortsInv, Ports
  <2> QED
    BY <1>5, <2>1, <2>4 DEF AddProject, PortsInv, Ports
<1>6. CASE Wipe
  <2>1. CASE registered' = {}
    BY <1>6, <2>1 DEF Wipe, PortsInv, PortsDistinct, cfgVars
  <2>2. CASE UNCHANGED cfgVars
    BY <2>2, PortsLeftAlone DEF cfgVars
  <2> QED
    BY <1>6, <2>1, <2>2 DEF Wipe
<1>7. CASE HandEdit
  <2>1. ASSUME NEW p \in registered, Forget(p)
        PROVE  PortsInv'
    BY <2>1, PortsForgotten DEF PortsInv
  <2>2. CASE UNCHANGED <<registered, port, lan, byHand>>
    BY <2>2, PortsLeftAlone
  <2> QED
    BY <1>7, <2>1, <2>2, PortsWritten DEF HandEdit
<1>8. CASE UNCHANGED <<registered, port, lan, byHand>>
  BY <1>8, PortsLeftAlone
<1>9. Step => PortsInv'
  BY <1>2, <1>3, <1>4, <1>6, <1>8, PortsUntouched DEF Step
<1>10. Operation => PortsInv'
  BY <1>5, <1>8, PortsUntouched DEF Operation
<1>11. Environment => PortsInv'
  BY <1>7, <1>8, PortsUntouched DEF Environment
<1> QED
  BY <1>1, <1>9, <1>10, <1>11 DEF Next

(* No two ports that the daemon chose for registered projects are ever the *)
(* same (nextPort, ownPort, lanPort), however many projects, ports and     *)
(* operations there are and whatever is written into wharf.json by hand: a *)
(* port that a user wrote there is excepted, for it may be any other's.    *)
THEOREM PortsAlwaysDistinct == Spec => []PortsDistinct
<1>1. Init => PortsInv
  BY DEF Init, PortsInv, PortsDistinct
<1>2. PortsInv /\ [Next]_vars => PortsInv'
  BY PortsInvStep
<1>3. PortsInv => PortsDistinct
  BY DEF PortsInv
<1> QED
  BY <1>1, <1>2, <1>3, PTL DEF Spec

-----------------------------------------------------------------------------
(* LedgersAgree is not inductive: an operation writes the ledgers when it  *)
(* begins and relies on what it wrote some steps later.  TodoAgrees says   *)
(* what: a project about to be shared is started, one about to leave       *)
(* wharf.json is not, and wharf.json is emptied once nothing is started.   *)
TodoAgrees ==
  \/ job.todo \in QuietPlans
  \/ \E p \in started : job.todo = <<<<"share", p>>, <<"apply", p>>>>
  \/ \E p \in Projects \ started :
       \/ job.todo = <<<<"try stop", p>>, <<"unregister", p>>, <<"settle", p>>>>
       \/ job.todo = <<<<"unregister", p>>, <<"settle", p>>>>
  \/ job.todo = <<<<"stop all", NoProject>>, <<"clear", NoProject>>, <<"wipe", NoProject>>>>
  \/ job.todo = <<<<"clear", NoProject>>, <<"wipe", NoProject>>>>
  \/ started = {} /\ job.todo = <<<<"wipe", NoProject>>>>

LedgersInv == TypeOK /\ TodoAgrees /\ LedgersAgree

-----------------------------------------------------------------------------
(* The next step of a plan, and the plan without it.                       *)
LEMMA ThreeSteps ==
  ASSUME NEW a, NEW b, NEW c, NEW s, s = <<a, b, c>>
  PROVE  Head(s) = a /\ Tail(s) = <<b, c>>
<1> DEFINE S == {a, b, c}
<1>1. <<a, b, c>> \in Seq(S) /\ <<b, c>> \in Seq(S)
  BY ShortPlans
<1>2. /\ Head(<<a, b, c>>) = a
      /\ <<a, b, c>> # <<>>
      /\ Len(<<a, b, c>>) = 3 /\ Len(<<b, c>>) = 2
  OBVIOUS
<1>3. /\ Tail(<<a, b, c>>) \in Seq(S)
      /\ Len(Tail(<<a, b, c>>)) = 2
      /\ \A i \in 1 .. 2 : Tail(<<a, b, c>>)[i] = <<a, b, c>>[i + 1]
  BY <1>1, <1>2, HeadTailProperties
<1>4. \A i \in 1 .. 2 : <<a, b, c>>[i + 1] = <<b, c>>[i]
  OBVIOUS
<1>5. Tail(<<a, b, c>>) = <<b, c>>
  BY <1>1, <1>2, <1>3, <1>4, SeqEqual
<1> QED
  BY <1>2, <1>5

(* The first steps of a removal and of a reset.                            *)
LEMMA LongPlans ==
  ASSUME NEW p
  PROVE  /\ job.todo = <<<<"try stop", p>>, <<"unregister", p>>, <<"settle", p>>>> =>
              /\ Head(job.todo) = <<"try stop", p>>
              /\ Tail(job.todo) = <<<<"unregister", p>>, <<"settle", p>>>>
         /\ job.todo = <<<<"stop all", p>>, <<"clear", p>>, <<"wipe", p>>>> =>
              /\ Head(job.todo) = <<"stop all", p>>
              /\ Tail(job.todo) = <<<<"clear", p>>, <<"wipe", p>>>>
<1>1. ASSUME NEW a, NEW b, NEW c, job.todo = <<a, b, c>>
      PROVE  Head(job.todo) = a /\ Tail(job.todo) = <<b, c>>
  BY <1>1, ThreeSteps
<1>2. ASSUME job.todo = <<<<"try stop", p>>, <<"unregister", p>>, <<"settle", p>>>>
      PROVE  /\ Head(job.todo) = <<"try stop", p>>
             /\ Tail(job.todo) = <<<<"unregister", p>>, <<"settle", p>>>>
  BY <1>1, <1>2
<1>3. ASSUME job.todo = <<<<"stop all", p>>, <<"clear", p>>, <<"wipe", p>>>>
      PROVE  /\ Head(job.todo) = <<"stop all", p>>
             /\ Tail(job.todo) = <<<<"clear", p>>, <<"wipe", p>>>>
  BY <1>1, <1>3
<1> QED
  BY <1>2, <1>3

LEMMA OneAtATime ==
  ASSUME NEW task, NEW p, Doing(task, p), task # "clear"
  PROVE  job.todo # <<>> /\ ~Doing("clear", NoProject)
<1>1. <<task, p>> # <<"clear", NoProject>>
  OBVIOUS
<1> QED
  BY <1>1 DEF Doing

LEMMA TodoHeads ==
  ASSUME TypeOK, TodoAgrees, NEW task, NEW p, Doing(task, p)
  PROVE  /\ task = "share" => p \in started
         /\ task = "unregister" => p \notin started
         /\ task = "wipe" => started = {}
<1>1. CASE job.todo \in QuietPlans
  <2>1. Head(job.todo) \in QuietSteps
    BY <1>1, HeadTailProperties DEF Doing, QuietPlans
  <2> QED
    BY <2>1 DEF Doing, QuietSteps, Marked
<1>2. CASE \E q \in started : job.todo = <<<<"share", q>>, <<"apply", q>>>>
  BY <1>2 DEF Doing
<1>3. ASSUME NEW q \in Projects \ started,
             \/ job.todo = <<<<"try stop", q>>, <<"unregister", q>>, <<"settle", q>>>>
             \/ job.todo = <<<<"unregister", q>>, <<"settle", q>>>>
      PROVE  \/ <<task, p>> = <<"try stop", q>>
             \/ <<task, p>> = <<"unregister", q>>
  <2>1. CASE job.todo = <<<<"try stop", q>>, <<"unregister", q>>, <<"settle", q>>>>
    BY <2>1, LongPlans DEF Doing
  <2>2. CASE job.todo = <<<<"unregister", q>>, <<"settle", q>>>>
    <3>1. Head(<<<<"unregister", q>>, <<"settle", q>>>>) = <<"unregister", q>>
      OBVIOUS
    <3> QED
      BY <2>2, <3>1 DEF Doing
  <2> QED
    BY <1>3, <2>1, <2>2
<1>4. CASE job.todo = <<<<"stop all", NoProject>>, <<"clear", NoProject>>, <<"wipe", NoProject>>>>
  <2>1. <<task, p>> = <<"stop all", NoProject>>
    BY <1>4, LongPlans DEF Doing
  <2> QED
    BY <2>1
<1>5. CASE job.todo = <<<<"clear", NoProject>>, <<"wipe", NoProject>>>>
  BY <1>5 DEF Doing
<1>6. CASE started = {} /\ job.todo = <<<<"wipe", NoProject>>>>
  BY <1>6 DEF Doing
<1>7. CASE \E q \in Projects \ started :
             \/ job.todo = <<<<"try stop", q>>, <<"unregister", q>>, <<"settle", q>>>>
             \/ job.todo = <<<<"unregister", q>>, <<"settle", q>>>>
  <2>1. PICK q \in Projects \ started : \/ <<task, p>> = <<"try stop", q>>
                                       \/ <<task, p>> = <<"unregister", q>>
    BY <1>3, <1>7
  <2> QED
    BY <2>1
<1> QED
  BY <1>1, <1>2, <1>4, <1>5, <1>6, <1>7 DEF TodoAgrees

LEMMA TodoTails ==
  ASSUME TypeOK, TodoAgrees, job.todo # <<>>, job'.todo = Tail(job.todo),
         \/ started' = {}
         \/ started' = started /\ ~Doing("clear", NoProject)
  PROVE  TodoAgrees'
<1>1. CASE job.todo \in QuietPlans
  BY <1>1, HeadTailProperties DEF QuietPlans, TodoAgrees
<1>2. CASE \E q \in started : job.todo = <<<<"share", q>>, <<"apply", q>>>>
  <2>1. PICK q \in started : job.todo = <<<<"share", q>>, <<"apply", q>>>>
    BY <1>2
  <2>2. job'.todo = <<<<"apply", q>>>>
    BY <2>1
  <2> QED
    BY <2>1, <2>2, QuietPlanTypes DEF TodoAgrees, TypeOK
<1>3. ASSUME NEW q \in Projects \ started,
             job.todo = <<<<"try stop", q>>, <<"unregister", q>>, <<"settle", q>>>>
      PROVE  TodoAgrees'
  <2>1. job'.todo = <<<<"unregister", q>>, <<"settle", q>>>>
    BY <1>3, LongPlans
  <2>2. q \in Projects \ started'
    BY <1>3
  <2> QED
    BY <2>1, <2>2 DEF TodoAgrees
<1>4. ASSUME NEW q \in Projects, job.todo = <<<<"unregister", q>>, <<"settle", q>>>>
      PROVE  TodoAgrees'
  <2>1. job'.todo = <<<<"settle", q>>>>
    BY <1>4
  <2> QED
    BY <2>1, QuietPlanTypes DEF TodoAgrees
<1>5. CASE job.todo = <<<<"stop all", NoProject>>, <<"clear", NoProject>>, <<"wipe", NoProject>>>>
  <2>1. job'.todo = <<<<"clear", NoProject>>, <<"wipe", NoProject>>>>
    BY <1>5, LongPlans
  <2> QED
    BY <2>1 DEF TodoAgrees
<1>6. CASE job.todo = <<<<"clear", NoProject>>, <<"wipe", NoProject>>>>
  <2>1. job'.todo = <<<<"wipe", NoProject>>>> /\ Doing("clear", NoProject)
    BY <1>6 DEF Doing
  <2> QED
    BY <2>1 DEF TodoAgrees
<1>7. CASE job.todo = <<<<"wipe", NoProject>>>>
  <2>1. job'.todo = <<>>
    BY <1>7
  <2> QED
    BY <2>1, QuietPlanTypes DEF TodoAgrees
<1> QED
  BY <1>1, <1>2, <1>3, <1>4, <1>5, <1>6, <1>7 DEF TodoAgrees

LEMMA QuietTodo ==
  ASSUME job'.todo \in QuietPlans
  PROVE  TodoAgrees'
BY DEF TodoAgrees

LEMMA QuietBegin ==
  ASSUME NEW op, NEW p, NEW todo \in QuietPlans, Begin(op, p, todo)
  PROVE  TodoAgrees'
BY DEF Begin, TodoAgrees

LEMMA TodoKept ==
  ASSUME TodoAgrees, job' = job, started' = started
  PROVE  TodoAgrees'
BY DEF TodoAgrees

(* A call moves the job on, ends it, or has a share taken back.            *)
LEMMA TodoAfterCall ==
  ASSUME TypeOK, TodoAgrees, job.todo # <<>>, started' = started, NEW call,
         ~Doing("clear", NoProject),
         \/ GoOn \/ GoOnAnyway \/ GiveUp
         \/ Then(call) \/ ThenAnyway(call) \/ ThenTakeBack(call)
  PROVE  TodoAgrees'
<1>1. job \in Jobs /\ job.project \in Projects \cup {NoProject}
  BY DEF TypeOK, Jobs
<1>2. CASE GoOn \/ GoOnAnyway
  <2>1. job'.todo = Tail(job.todo)
    BY <1>1, <1>2 DEF GoOn, GoOnAnyway, Jobs
  <2> QED
    BY <2>1, TodoTails
<1>3. CASE GiveUp
  <2>1. job'.todo = <<>>
    BY <1>1, <1>3 DEF GiveUp, Jobs
  <2> QED
    BY <2>1, QuietPlanTypes, QuietTodo
<1>4. CASE job' = [job EXCEPT !.todo = <<<<"take back", job.project>>,
                                         <<"reapply", job.project>>>>, !.err = TRUE]
  <2>1. job'.todo = <<<<"take back", job.project>>, <<"reapply", job.project>>>>
    BY <1>1, <1>4 DEF Jobs
  <2> QED
    BY <1>1, <2>1, QuietPlanTypes, QuietTodo
<1> QED
  BY <1>2, <1>3, <1>4 DEF Then, ThenAnyway, ThenTakeBack

-----------------------------------------------------------------------------
(* The ledgers themselves.                                                 *)
LEMMA LedgersKept ==
  ASSUME LedgersAgree, UNCHANGED <<ledgers, edited>>, registered \subseteq registered'
  PROVE  LedgersAgree'
BY DEF LedgersAgree, ledgers

LEMMA LedgersWritten ==
  ASSUME LedgersAgree, UNCHANGED <<registered, edited>>, NEW p,
         \/ p \in registered /\ SetStarted(p)
         \/ SetStopped(p) \/ StartFailed(p) \/ ClearStarted
  PROVE  LedgersAgree'
<1>1. CASE p \in registered /\ SetStarted(p)
  BY <1>1 DEF LedgersAgree, SetStarted
<1>2. CASE SetStopped(p)
  BY <1>2 DEF LedgersAgree, SetStopped
<1>3. CASE StartFailed(p)
  BY <1>3 DEF LedgersAgree, StartFailed
<1>4. CASE ClearStarted
  BY <1>4 DEF LedgersAgree, ClearStarted
<1> QED
  BY <1>1, <1>2, <1>3, <1>4

-----------------------------------------------------------------------------
LEMMA StepKeepsLedgers ==
  ASSUME LedgersInv, Step
  PROVE  TodoAgrees' /\ LedgersAgree'
<1> USE DEF LedgersInv
<1>1. CASE Return
  <2>1. TodoAgrees'
    BY <1>1, QuietPlanTypes, QuietTodo DEF Return, Idle
  <2>2. LedgersAgree'
    BY <1>1, LedgersKept, LedgersWritten DEF Return, cfgVars
  <2> QED
    BY <2>1, <2>2
<1>2. CASE StopEverything
  <2>1. ~Doing("clear", NoProject) /\ job.todo # <<>>
    BY <1>2, OneAtATime DEF StopEverything
  <2>2. TodoAgrees'
    BY <1>2, <2>1, TodoAfterCall DEF StopEverything, ledgers
  <2>3. LedgersAgree'
    BY <1>2 DEF StopEverything, LedgersAgree, ledgers, cfgVars
  <2> QED
    BY <2>2, <2>3
<1>3. CASE Clear
  <2>1. job.todo # <<>> /\ job'.todo = Tail(job.todo) /\ started' = {}
    BY <1>3 DEF Clear, Doing, GoOn, ClearStarted, TypeOK, Jobs
  <2>2. TodoAgrees'
    BY <2>1, TodoTails
  <2>3. LedgersAgree'
    BY <1>3 DEF Clear, ClearStarted, LedgersAgree
  <2> QED
    BY <2>2, <2>3
<1>4. CASE Wipe
  <2>1. started = {} /\ job.todo # <<>> /\ ~Doing("clear", NoProject)
    BY <1>4, TodoHeads, OneAtATime DEF Wipe
  <2>2. TodoAgrees'
    BY <1>4, <2>1, TodoAfterCall DEF Wipe, ledgers
  <2>3. LedgersAgree'
    BY <1>4, <2>1 DEF Wipe, LedgersAgree, ledgers
  <2> QED
    BY <2>2, <2>3
<1>5. ASSUME NEW p \in Projects \cup {NoProject},
             \/ Apply(p) \/ Reload(p) \/ EnsurePHP(p) \/ Serve(p) \/ Settle(p) \/ Reapply(p)
             \/ CheckRules(p) \/ OwnPort(p)
             \/ StartOwn(p) \/ RestartOwn(p) \/ StopOwn(p) \/ TryStopOwn(p) \/ Evict(p)
      PROVE  TodoAgrees' /\ LedgersAgree'
  <2>1. /\ UNCHANGED <<ledgers, edited, registered>>
        /\ \/ GoOn \/ GiveUp
           \/ \E call : Then(call) \/ ThenAnyway(call) \/ ThenTakeBack(call)
    <3>1. CASE Apply(p) \/ Reload(p) \/ Serve(p) \/ Settle(p) \/ Reapply(p)
      BY <3>1 DEF Apply, Reload, Serve, Settle, Reapply, FrontIs, cfgVars
    <3>2. CASE EnsurePHP(p) \/ CheckRules(p) \/ OwnPort(p)
      BY <3>2 DEF EnsurePHP, CheckRules, OwnPort, cfgVars
    <3>3. CASE StartOwn(p) \/ RestartOwn(p) \/ StopOwn(p) \/ TryStopOwn(p) \/ Evict(p)
      BY <3>3 DEF StartOwn, RestartOwn, StopOwn, TryStopOwn, Evict, OwnIs, cfgVars
    <3> QED
      BY <1>5, <3>1, <3>2, <3>3
  <2>2. job.todo # <<>> /\ ~Doing("clear", NoProject)
    BY <1>5, OneAtATime DEF Apply, Reload, Serve, Settle, Reapply, EnsurePHP, CheckRules,
                            OwnPort, StartOwn, RestartOwn, StopOwn, TryStopOwn, Evict
  <2> QED
    BY <2>1, <2>2, TodoAfterCall, LedgersKept DEF ledgers
<1>6. ASSUME NEW p \in Projects, TakeBack(p)
      PROVE  TodoAgrees' /\ LedgersAgree'
  <2>1. job.todo # <<>> /\ ~Doing("clear", NoProject) /\ GoOn /\ started' = started
    BY <1>6, OneAtATime DEF TakeBack
  <2>2. LedgersAgree'
    BY <1>6 DEF TakeBack, LedgersAgree, cfgVars
  <2> QED
    BY <2>1, <2>2, TodoAfterCall
<1>7. ASSUME NEW p \in Projects, Unregister(p)
      PROVE  TodoAgrees' /\ LedgersAgree'
  <2>1. /\ job.todo # <<>> /\ ~Doing("clear", NoProject)
        /\ GoOn \/ GiveUp
        /\ UNCHANGED ledgers
    BY <1>7, OneAtATime DEF Unregister
  <2>2. p \notin started
    BY <1>7, TodoHeads DEF Unregister
  <2>3. LedgersAgree'
    BY <1>7, <2>2 DEF Unregister, Forget, LedgersAgree, ledgers
  <2> QED
    BY <2>1, <2>3, TodoAfterCall DEF ledgers
<1>8. ASSUME NEW p \in Projects, SharePort(p)
      PROVE  TodoAgrees' /\ LedgersAgree'
  <2>1. job.todo # <<>> /\ ~Doing("clear", NoProject) /\ (GoOn \/ GiveUp) /\ started' = started
    BY <1>8, OneAtATime DEF SharePort
  <2>2. p \in started
    BY <1>8, TodoHeads DEF SharePort
  <2>3. LedgersAgree'
    BY <1>8, <2>2 DEF SharePort, LedgersAgree
  <2> QED
    BY <2>1, <2>3, TodoAfterCall
<1> QED
  BY <1>1, <1>2, <1>3, <1>4, <1>5, <1>6, <1>7, <1>8 DEF Step

LEMMA OperationKeepsLedgers ==
  ASSUME LedgersInv, Operation
  PROVE  TodoAgrees' /\ LedgersAgree'
<1> USE DEF LedgersInv
<1>1. ASSUME NEW p \in Projects, StartProject(p) \/ StartAdded(p)
      PROVE  TodoAgrees' /\ LedgersAgree'
  <2>1. CASE UNCHANGED <<job, ledgers>>
    BY <1>1, <2>1, TodoKept, LedgersKept DEF StartProject, StartAdded, cfgVars, ledgers
  <2>2. CASE Begin("start", p, StartPlan(p)) /\ SetStarted(p) /\ p \in registered
    <3>1. TodoAgrees'
      BY <2>2, QuietPlanTypes, QuietTodo DEF Begin
    <3>2. LedgersAgree'
      BY <1>1, <2>2, LedgersWritten DEF StartProject, StartAdded, cfgVars
    <3> QED
      BY <3>1, <3>2
  <2>3. CASE Begin("already", p, <<>>) /\ UNCHANGED ledgers
    <3>1. TodoAgrees'
      BY <2>3, QuietPlanTypes, QuietTodo DEF Begin
    <3>2. LedgersAgree'
      BY <1>1, <2>3, LedgersKept DEF StartProject, StartAdded, cfgVars
    <3> QED
      BY <3>1, <3>2
  <2> QED
    BY <1>1, <2>1, <2>2, <2>3 DEF StartProject, StartAdded, StartLocked
<1>2. ASSUME NEW p \in Projects, StopProject(p)
      PROVE  TodoAgrees' /\ LedgersAgree'
  <2>1. TodoAgrees'
    BY <1>2, QuietPlanTypes, QuietTodo DEF StopProject, Begin
  <2>2. LedgersAgree'
    BY <1>2, LedgersWritten DEF StopProject, cfgVars
  <2> QED
    BY <2>1, <2>2
<1>3. ASSUME NEW p \in Projects, RestartProject(p)
      PROVE  TodoAgrees' /\ LedgersAgree'
  <2>1. /\ <<<<"php", p>>, <<"rules", p>>>> \o <<<<"port", p>>, <<"restart", p>>, <<"apply", p>>>>
             \in QuietPlans
        /\ <<<<"php", p>>, <<"rules", p>>>> \o <<<<"serve", p>>>> \in QuietPlans
    BY QuietPlanTypes, ConcatProperties DEF QuietPlans
  <2>2. TodoAgrees'
    BY <1>3, <2>1, QuietTodo DEF RestartProject, Begin
  <2>3. LedgersAgree'
    BY <1>3, LedgersWritten DEF RestartProject, cfgVars
  <2> QED
    BY <2>2, <2>3
<1>4. ASSUME NEW p \in Projects, RemoveProject(p)
      PROVE  TodoAgrees' /\ LedgersAgree'
  <2>1. job'.todo = <<<<"try stop", p>>, <<"unregister", p>>, <<"settle", p>>>>
    BY <1>4 DEF RemoveProject, Begin
  <2>2. p \in Projects \ started'
    BY <1>4 DEF RemoveProject, SetStopped
  <2>3. TodoAgrees'
    BY <2>1, <2>2 DEF TodoAgrees
  <2>4. LedgersAgree'
    BY <1>4, LedgersWritten DEF RemoveProject, cfgVars
  <2> QED
    BY <2>3, <2>4
<1>5. ASSUME NEW p \in Projects, Share(p)
      PROVE  TodoAgrees' /\ LedgersAgree'
  <2>1. job'.todo = <<<<"share", p>>, <<"apply", p>>>> /\ p \in started'
    BY <1>5 DEF Share, Begin, ledgers
  <2>2. TodoAgrees'
    BY <2>1 DEF TodoAgrees
  <2>3. LedgersAgree'
    BY <1>5, LedgersKept DEF Share, cfgVars
  <2> QED
    BY <2>2, <2>3
<1>6. ASSUME NEW p \in Projects, Unshare(p)
      PROVE  TodoAgrees' /\ LedgersAgree'
  <2>1. TodoAgrees'
    BY <1>6, QuietPlanTypes, QuietTodo DEF Unshare, Begin
  <2>2. LedgersAgree'
    BY <1>6 DEF Unshare, LedgersAgree, cfgVars
  <2> QED
    BY <2>1, <2>2
<1>7. ASSUME NEW p \in Projects, NEW server, UpdateSettings(p, server)
      PROVE  TodoAgrees' /\ LedgersAgree'
  <2> DEFINE rest == <<<<"php", p>>, <<"port", p>>, <<"restart", p>>, <<"apply", p>>>>
  <2>1. /\ <<<<"evict", p>>>> \o rest \in QuietPlans
        /\ <<>> \o rest \in QuietPlans
    BY QuietPlanTypes, ConcatProperties DEF QuietPlans
  <2>2. LedgersAgree'
    BY <1>7, LedgersKept DEF UpdateSettings
  <2>3. CASE p \in started
    BY <1>7, <2>1, <2>2, <2>3, QuietBegin DEF UpdateSettings
  <2>4. CASE p \notin started
    BY <1>7, <2>2, <2>4, TodoKept DEF UpdateSettings, ledgers
  <2> QED
    BY <2>3, <2>4
<1>8. ASSUME NEW p \in Projects, NEW server, NEW start, AddProject(p, server, start)
      PROVE  TodoAgrees' /\ LedgersAgree'
  <2>1. job' = job /\ started' = started
    BY <1>8 DEF AddProject, ledgers
  <2>2. UNCHANGED <<ledgers, edited>> /\ registered \subseteq registered'
    BY <1>8 DEF AddProject
  <2> QED
    BY <2>1, <2>2, TodoKept, LedgersKept
<1>9. ASSUME NEW server, SetWebserver(server)
      PROVE  TodoAgrees' /\ LedgersAgree'
  <2>1. LedgersAgree'
    BY <1>9, LedgersKept DEF SetWebserver
  <2>2. CASE job' = job
    <3>1. started' = started
      BY <1>9 DEF SetWebserver, ledgers
    <3> QED
      BY <2>1, <2>2, <3>1, TodoKept
  <2>3. CASE \E order \in Orders(registered) : Begin("switch", NoProject, SwitchPlan(order))
    <3>1. \A order \in Orders(registered) : SwitchPlan(order) \in QuietPlans
      BY SwitchPlanTypes DEF TypeOK
    <3>2. job'.todo \in QuietPlans
      BY <2>3, <3>1 DEF Begin
    <3> QED
      BY <2>1, <3>2, QuietTodo
  <2> QED
    BY <1>9, <2>2, <2>3 DEF SetWebserver
<1>10. CASE SetPHPVersion \/ FollowNetwork \/ Shutdown
  <2>1. TodoAgrees'
    <3>1. /\ <<<<"php", NoProject>>, <<"reload", NoProject>>>> \in QuietPlans
          /\ <<<<"reload", NoProject>>>> \in QuietPlans
          /\ <<<<"stop all", NoProject>>>> \in QuietPlans
      BY QuietPlanTypes
    <3> QED
      BY <1>10, <3>1, QuietBegin DEF SetPHPVersion, FollowNetwork, Shutdown
  <2>2. LedgersAgree'
    BY <1>10, LedgersKept DEF SetPHPVersion, FollowNetwork, Shutdown, cfgVars
  <2> QED
    BY <2>1, <2>2
<1>11. CASE StopAll
  <2>1. TodoAgrees'
    BY <1>11, QuietPlanTypes, QuietTodo DEF StopAll, Begin
  <2>2. LedgersAgree'
    BY <1>11 DEF StopAll, ClearStarted, LedgersAgree, cfgVars
  <2> QED
    BY <2>1, <2>2
<1>12. CASE Reset
  <2>1. TodoAgrees'
    <3>1. job'.todo = <<<<"stop all", NoProject>>, <<"clear", NoProject>>, <<"wipe", NoProject>>>>
      BY <1>12 DEF Reset, Begin
    <3> QED
      BY <3>1 DEF TodoAgrees
  <2>2. LedgersAgree'
    BY <1>12, LedgersKept DEF Reset, cfgVars
  <2> QED
    BY <2>1, <2>2
<1> QED
  BY <1>1, <1>2, <1>3, <1>4, <1>5, <1>6, <1>7, <1>8, <1>9, <1>10, <1>11, <1>12 DEF Operation

LEMMA EnvironmentKeepsLedgers ==
  ASSUME LedgersInv, Environment
  PROVE  TodoAgrees' /\ LedgersAgree'
<1> USE DEF LedgersInv
<1>1. CASE Crash
  <2>1. job'.todo = job.todo /\ started' = started
    BY <1>1 DEF Crash, NotCalm, ledgers, TypeOK, Jobs
  <2>2. TodoAgrees'
    BY <2>1 DEF TodoAgrees
  <2>3. LedgersAgree'
    BY <1>1, LedgersKept DEF Crash, cfgVars
  <2> QED
    BY <2>2, <2>3
<1>2. CASE HandEdit
  <2>1. TodoAgrees'
    BY <1>2, TodoKept DEF HandEdit, ledgers
  <2>2. edited' \/ started = {}
    BY <1>2 DEF HandEdit
  <2>3. LedgersAgree'
    BY <1>2, <2>2 DEF HandEdit, LedgersAgree, ledgers
  <2> QED
    BY <2>1, <2>3
<1>3. ASSUME NEW n, PortTaken(n) \/ PortReleased(n)
      PROVE  TodoAgrees' /\ LedgersAgree'
  BY <1>3, TodoKept, LedgersKept DEF PortTaken, PortReleased, ledgers, cfgVars
<1> QED
  BY <1>1, <1>2, <1>3 DEF Environment

LEMMA LedgersInvInitially == Init => LedgersInv
<1>1. <<>> \in QuietPlans
  BY QuietPlanTypes
<1>2. Init => job.todo = <<>>
  BY DEF Init, Idle
<1>3. Init => TodoAgrees
  BY <1>1, <1>2 DEF TodoAgrees
<1>4. Init => LedgersAgree
  BY DEF Init, LedgersAgree
<1> QED
  BY <1>3, <1>4, InitialTypes DEF LedgersInv

LEMMA LedgersInvStep ==
  ASSUME LedgersInv, [Next]_vars
  PROVE  LedgersInv'
<1>1. TypeOK'
  BY TypesKept DEF LedgersInv
<1>2. CASE Next
  <2>1. TodoAgrees' /\ LedgersAgree'
    BY <1>2, StepKeepsLedgers, OperationKeepsLedgers, EnvironmentKeepsLedgers DEF Next
  <2> QED
    BY <1>1, <2>1 DEF LedgersInv
<1>3. CASE UNCHANGED vars
  BY <1>1, <1>3, TodoKept, LedgersKept DEF LedgersInv, vars, ledgers
<1> QED
  BY <1>2, <1>3

(* Only started projects are shared, none is both started and failed, and  *)
(* unless wharf.json was edited by hand every started project is in it     *)
(* (setStarted, setShared, startFailed, clearStarted, RemoveProject,       *)
(* Reset).                                                                 *)
THEOREM LedgersAlwaysAgree == Spec => []LedgersAgree
<1>1. LedgersInv /\ [Next]_vars => LedgersInv'
  BY LedgersInvStep
<1>2. LedgersInv => LedgersAgree
  BY DEF LedgersInv
<1> QED
  BY <1>1, <1>2, LedgersInvInitially, PTL DEF Spec

-----------------------------------------------------------------------------
(* Shutdown.  Once closing is set a supervisor call starts nothing, so     *)
(* after StopEverything nothing is left that could run.                    *)
ShutdownInv ==
  /\ TypeOK
  /\ job.op = "shutdown" => job.todo \in {<<>>, <<<<"stop all", NoProject>>>>}
  /\ NothingAfterShutdown

LEMMA NothingComesUp ==
  ASSUME closing, NEW process, ~Up(process), NEW conf, NEW bindable
  PROVE  /\ ~Up(Fault(process).process) /\ ~Up(Done(process).process)
         /\ ~Up(Forced(process).process)
         /\ \A call \in StartOf(process, conf, bindable) : ~Up(call.process)
         /\ \A call \in StopOf(process) : ~Up(call.process)
         /\ \A call \in RestartOf(process, conf, bindable) : ~Up(call.process)
<1>1. \A call \in StartOf(process, conf, bindable) : ~Up(call.process)
  BY DEF StartOf, Forced
<1>2. \A call \in StopOf(process) : ~Up(call.process)
  BY DEF StopOf, Done
<1> QED
  BY <1>1, <1>2 DEF RestartOf, Fault, Done, Forced

LEMMA FrontStaysDown ==
  ASSUME closing, ~Up(front)
  PROVE  \A call \in FrontRestarts \cup Applied \cup Reloaded \cup Settled : ~Up(call.process)
<1>1. \A call \in FrontRestarts : ~Up(call.process)
  BY NothingComesUp DEF FrontRestarts
<1>2. \A call \in StopOf(front) : ~Up(call.process)
  BY NothingComesUp
<1>3. \A call \in Reloaded : ~Up(call.process)
  BY <1>1, NothingComesUp DEF Reloaded
<1> QED
  BY <1>1, <1>2, <1>3 DEF Applied, Settled

LEMMA OneStep ==
  ASSUME NEW s
  PROVE  /\ <<s>> # <<>> /\ Head(<<s>>) = s
         /\ Tail(<<s>>) = <<>>
OBVIOUS

(* Only Shutdown's own step runs for it.                                   *)
LEMMA NotShuttingDown ==
  ASSUME ShutdownInv, NEW task, NEW p, Doing(task, p), task # "stop all"
  PROVE  /\ job.op # "shutdown"
         /\ closing => ~AnyRunning
<1>1. job.todo # <<<<"stop all", NoProject>>>>
  <2>1. Head(<<<<"stop all", NoProject>>>>) = <<"stop all", NoProject>>
    BY OneStep
  <2>2. <<task, p>> # <<"stop all", NoProject>>
    OBVIOUS
  <2> QED
    BY <2>1, <2>2 DEF Doing
<1> QED
  BY <1>1 DEF ShutdownInv, NothingAfterShutdown, Doing

LEMMA OpKept ==
  ASSUME TypeOK, NEW call,
         \/ GoOn \/ GoOnAnyway \/ GiveUp
         \/ Then(call) \/ ThenAnyway(call) \/ ThenTakeBack(call)
  PROVE  job'.op = job.op
BY DEF GoOn, GoOnAnyway, GiveUp, Then, ThenAnyway, ThenTakeBack, TypeOK, Jobs

(* While another operation is at work, and between operations.             *)
LEMMA StaysDown ==
  ASSUME closing' = closing, job'.op # "shutdown", closing => ~AnyRunning'
  PROVE  /\ job'.op = "shutdown" => job'.todo \in {<<>>, <<<<"stop all", NoProject>>>>}
         /\ NothingAfterShutdown'
BY DEF NothingAfterShutdown

LEMMA CallKeepsDown ==
  ASSUME ShutdownInv, NEW p \in Projects \cup {NoProject},
         \/ Apply(p) \/ Reload(p) \/ EnsurePHP(p)
         \/ /\ p \in Projects
            /\ \/ Serve(p) \/ Settle(p) \/ Reapply(p)
               \/ StartOwn(p) \/ RestartOwn(p) \/ StopOwn(p) \/ TryStopOwn(p) \/ Evict(p)
  PROVE  /\ closing' = closing /\ job'.op # "shutdown"
         /\ closing => ~AnyRunning'
<1>1. job.op # "shutdown" /\ (closing => ~AnyRunning)
  BY NotShuttingDown DEF Apply, Reload, EnsurePHP, Serve, Settle, Reapply, StartOwn, RestartOwn,
                         StopOwn, TryStopOwn, Evict
<1>2. closing' = closing
  BY DEF Apply, Reload, EnsurePHP, Serve, Settle, Reapply, StartOwn, RestartOwn,
         StopOwn, TryStopOwn, Evict, FrontIs, OwnIs
<1>3. \E call : Then(call) \/ ThenAnyway(call) \/ ThenTakeBack(call)
  BY DEF Apply, Reload, EnsurePHP, Serve, Settle, Reapply, StartOwn, RestartOwn,
         StopOwn, TryStopOwn, Evict
<1>4. job'.op = job.op
  BY <1>3, OpKept DEF ShutdownInv
<1>5. ASSUME closing
      PROVE  ~AnyRunning'
  <2>1. /\ ~Up(front) /\ ~Up(php) /\ \A q \in Projects : ~Up(own[q])
    BY <1>1, <1>5 DEF AnyRunning
  <2>2. CASE Apply(p) \/ Reload(p) \/ Serve(p) \/ Settle(p) \/ Reapply(p)
    <3>1. PICK call \in FrontRestarts \cup Applied \cup Reloaded \cup Settled : FrontIs(call)
      BY <2>2 DEF Apply, Reload, Serve, Settle, Reapply
    <3>2. ~Up(call.process)
      BY <1>5, <2>1, FrontStaysDown
    <3>3. front' = call.process /\ php' = php /\ own' = own
      BY <3>1 DEF FrontIs, phpVars
    <3> QED
      BY <2>1, <3>2, <3>3 DEF AnyRunning, Up
  <2>3. CASE EnsurePHP(p)
    <3>1. PICK call \in {Fault(php)} \cup StartOf(php, NoConf, TRUE) : php' = call.process
      BY <2>3 DEF EnsurePHP
    <3>2. ~Up(call.process)
      BY <1>5, <2>1, NothingComesUp
    <3>3. front' = front /\ own' = own
      BY <2>3 DEF EnsurePHP
    <3> QED
      BY <2>1, <3>1, <3>2, <3>3 DEF AnyRunning, Up
  <2>4. CASE p \in Projects
             /\ (StartOwn(p) \/ RestartOwn(p) \/ StopOwn(p) \/ TryStopOwn(p) \/ Evict(p))
    <3>1. PICK call \in {Done(own[p]), Fault(own[p]), Forced(own[p])}
                          \cup StartOf(own[p], OwnConf(p), Bindable(p))
                          \cup RestartOf(own[p], OwnConf(p), Bindable(p))
                          \cup StopOf(own[p]) : OwnIs(p, call)
      BY <2>4 DEF StartOwn, RestartOwn, StopOwn, TryStopOwn, Evict, WithSpec
    <3>2. ~Up(call.process)
      BY <1>5, <2>1, <2>4, NothingComesUp
    <3>3. /\ front' = front /\ php' = php
          /\ own' = [own EXCEPT ![p] = call.process] /\ own \in [Projects -> Processes(OwnConfs)]
      BY <3>1 DEF OwnIs, phpVars, ShutdownInv, TypeOK
    <3>4. \A q \in Projects : own'[q] = IF q = p THEN call.process ELSE own[q]
      BY <3>3
    <3> QED
      BY <2>1, <3>2, <3>3, <3>4 DEF AnyRunning, Up
  <2> QED
    BY <2>2, <2>3, <2>4
<1> QED
  BY <1>1, <1>2, <1>4, <1>5

LEMMA StopsEverything ==
  ASSUME ShutdownInv, StopEverything
  PROVE  /\ job'.op = "shutdown" => job'.todo \in {<<>>, <<<<"stop all", NoProject>>>>}
         /\ NothingAfterShutdown'
<1>1. ~AnyRunning'
  <2>1. own' = [p \in Projects |-> IF Up(own[p]) THEN Down("stopped") ELSE own[p]]
    BY DEF StopEverything
  <2>2. \A p \in Projects : ~Up(own[p])'
    BY <2>1 DEF Up, Down
  <2>3. ~Up(front)' /\ ~Up(php)'
    BY DEF StopEverything, Up, Down
  <2> QED
    BY <2>2, <2>3 DEF AnyRunning
<1>2. job'.op = job.op
  BY OpKept DEF StopEverything, ShutdownInv
<1>3. job'.todo = Tail(job.todo) \/ job'.todo = <<>>
  BY DEF StopEverything, GoOn, GiveUp, ShutdownInv, TypeOK, Jobs
<1>4. job.todo # <<>>
  BY DEF StopEverything, Doing
<1>5. job.op = "shutdown" => job'.todo = <<>>
  <2>1. Tail(<<<<"stop all", NoProject>>>>) = <<>>
    OBVIOUS
  <2> QED
    BY <1>3, <1>4, <2>1 DEF ShutdownInv
<1> QED
  BY <1>1, <1>2, <1>5 DEF NothingAfterShutdown

(* Whatever else happens touches no process, or only takes one down.       *)
LEMMA OthersKeepDown ==
  ASSUME ShutdownInv,
         \/ Clear \/ Wipe
         \/ \E p \in Projects : TakeBack(p) \/ CheckRules(p) \/ OwnPort(p) \/ Unregister(p)
                                  \/ SharePort(p)
  PROVE  /\ closing' = closing /\ job'.op # "shutdown"
         /\ closing => ~AnyRunning'
<1>1. job.op # "shutdown" /\ (closing => ~AnyRunning)
  BY NotShuttingDown DEF Clear, Wipe, TakeBack, CheckRules, OwnPort, Unregister, SharePort
<1>2. closing' = closing /\ UNCHANGED <<front, own, php>> /\ (GoOn \/ GiveUp)
  BY DEF Clear, Wipe, TakeBack, CheckRules, OwnPort, Unregister, SharePort, processes
<1>3. job'.op = job.op
  BY <1>2, OpKept DEF ShutdownInv
<1> QED
  BY <1>1, <1>2, <1>3 DEF AnyRunning, Up

LEMMA OperationKeepsDown ==
  ASSUME ShutdownInv, Operation
  PROVE  /\ job'.op = "shutdown" => job'.todo \in {<<>>, <<<<"stop all", NoProject>>>>}
         /\ NothingAfterShutdown'
<1>1. CASE Shutdown
  <2>1. job'.op = "shutdown" /\ job'.todo = <<<<"stop all", NoProject>>>>
    BY <1>1 DEF Shutdown, Begin
  <2>2. job'.todo # <<>>
    BY <2>1, OneStep
  <2> QED
    BY <2>1, <2>2 DEF NothingAfterShutdown
<1>2. CASE ~Shutdown
  <2>1. job = Idle /\ closing' = closing /\ UNCHANGED processes
    <3>1. CASE \E p \in Projects :
                 \/ StartProject(p) \/ StopProject(p) \/ RestartProject(p) \/ RemoveProject(p)
                 \/ StartAdded(p) \/ Share(p) \/ Unshare(p)
      BY <3>1 DEF StartProject, StopProject, RestartProject, RemoveProject, StartAdded, Share,
                  StartLocked, Unshare, Begin
    <3>2. CASE \E p \in Projects : \E server \in Servers \cup {NoServer} :
                 \/ UpdateSettings(p, server)
                 \/ \E start \in BOOLEAN : AddProject(p, server, start)
      BY <3>2 DEF UpdateSettings, AddProject
    <3>3. CASE \/ \E server \in Servers : SetWebserver(server)
               \/ SetPHPVersion \/ FollowNetwork \/ StopAll \/ Reset
      BY <3>3 DEF SetWebserver, SetPHPVersion, FollowNetwork, StopAll, Reset, Begin
    <3> QED
      BY <1>2, <3>1, <3>2, <3>3 DEF Operation
  <2>2. job' = job \/ \E op \in Operations \ {"shutdown"} : \E p, todo : Begin(op, p, todo)
    <3>1. CASE \E p \in Projects :
                 \/ StartProject(p) \/ StopProject(p) \/ RestartProject(p) \/ RemoveProject(p)
                 \/ StartAdded(p) \/ Share(p) \/ Unshare(p)
      BY <3>1 DEF StartProject, StopProject, RestartProject, RemoveProject, StartAdded,
                  StartLocked, Share, Unshare, Operations
    <3>2. CASE \E p \in Projects : \E server \in Servers \cup {NoServer} :
                 \/ UpdateSettings(p, server)
                 \/ \E start \in BOOLEAN : AddProject(p, server, start)
      BY <3>2 DEF UpdateSettings, AddProject, Operations
    <3>3. CASE \/ \E server \in Servers : SetWebserver(server)
               \/ SetPHPVersion \/ FollowNetwork \/ StopAll \/ Reset
      BY <3>3 DEF SetWebserver, SetPHPVersion, FollowNetwork, StopAll, Reset, Operations
    <3> QED
      BY <1>2, <3>1, <3>2, <3>3 DEF Operation
  <2>3. job'.op # "shutdown"
    BY <2>1, <2>2 DEF Idle, Begin
  <2>4. closing => ~AnyRunning'
    BY <2>1 DEF ShutdownInv, NothingAfterShutdown, Idle, processes, AnyRunning, Up
  <2> QED
    BY <2>1, <2>3, <2>4, StaysDown
<1> QED
  BY <1>1, <1>2

LEMMA EnvironmentKeepsDown ==
  ASSUME ShutdownInv, Environment
  PROVE  /\ job'.op = "shutdown" => job'.todo \in {<<>>, <<<<"stop all", NoProject>>>>}
         /\ NothingAfterShutdown'
<1>1. job'.op = job.op /\ job'.todo = job.todo /\ closing' = closing
  BY DEF Environment, Crash, NotCalm, HandEdit, PortTaken, PortReleased, ShutdownInv, TypeOK, Jobs
<1>2. ~AnyRunning => ~AnyRunning'
  <2>1. CASE Crash
    <3>1. \A p \in Projects : ~Up(own[p]) => ~Up(own[p])'
      BY <2>1 DEF Crash, FrontCrashes, PHPCrashes, OwnCrashes, Up, Down, ShutdownInv, TypeOK
    <3>2. (~Up(front) => ~Up(front)') /\ (~Up(php) => ~Up(php)')
      BY <2>1 DEF Crash, FrontCrashes, PHPCrashes, OwnCrashes, phpVars, Up, Down
    <3> QED
      BY <3>1, <3>2 DEF AnyRunning
  <2>2. CASE UNCHANGED processes
    BY <2>2 DEF processes, AnyRunning, Up
  <2> QED
    BY <2>1, <2>2 DEF Environment, HandEdit, PortTaken, PortReleased
<1> QED
  BY <1>1, <1>2 DEF ShutdownInv, NothingAfterShutdown

LEMMA StepKeepsDown ==
  ASSUME ShutdownInv, Step
  PROVE  /\ job'.op = "shutdown" => job'.todo \in {<<>>, <<<<"stop all", NoProject>>>>}
         /\ NothingAfterShutdown'
<1>1. CASE Return
  <2>1. /\ closing => ~AnyRunning
        /\ closing' = closing /\ UNCHANGED processes /\ job'.op # "shutdown"
    BY <1>1 DEF Return, ShutdownInv, NothingAfterShutdown, Idle
  <2> QED
    BY <2>1, StaysDown DEF processes, AnyRunning, Up
<1> QED
  BY <1>1, StopsEverything, OthersKeepDown, CallKeepsDown, StaysDown DEF Step

(* Once Wharf is quitting and what ran is stopped, nothing comes up again, *)
(* whichever operations were waiting for d.mu (Shutdown, closing).         *)
THEOREM QuitForGood == Spec => []NothingAfterShutdown
<1>1. Init => ShutdownInv
  <2>1. Init => job.op # "shutdown" /\ ~closing
    BY DEF Init, Idle
  <2> QED
    BY <2>1, InitialTypes DEF ShutdownInv, NothingAfterShutdown
<1>2. ShutdownInv /\ [Next]_vars => ShutdownInv'
  <2>1. ASSUME ShutdownInv, Next
        PROVE  ShutdownInv'
    BY <2>1, TypesKept, StepKeepsDown, OperationKeepsDown, EnvironmentKeepsDown
       DEF Next, ShutdownInv
  <2>2. ASSUME ShutdownInv, UNCHANGED vars
        PROVE  ShutdownInv'
    BY <2>2, TypesKept DEF ShutdownInv, NothingAfterShutdown, vars, AnyRunning, Up
  <2> QED
    BY <2>1, <2>2
<1>3. ShutdownInv => NothingAfterShutdown
  BY DEF ShutdownInv
<1> QED
  BY <1>1, <1>2, <1>3, PTL DEF Spec

-----------------------------------------------------------------------------
(* What is shown is served.  ServesWhatItShows says something between      *)
(* operations only; what holds within one depends on the steps still to be *)
(* done.                                                                   *)
Awaits(tasks) == \E i \in DOMAIN job.todo : job.todo[i][1] \in tasks

(* After the last step that brings the front door in line, or down, only   *)
(* own instances are started, or all that is left is wiped.                *)
FrontTasks == {"apply", "serve", "settle", "reload", "reapply", "stop all"}
LateTasks == {"start", "clear", "wipe"}
FrontLast ==
  \A i \in DOMAIN job.todo :
    \/ job.todo[i][1] \in LateTasks
    \/ \E k \in DOMAIN job.todo : i <= k /\ job.todo[k][1] \in FrontTasks

(* Nothing runs any more when wharf.json is emptied, nor does a project's  *)
(* own instance when it leaves wharf.json.                                 *)
ResetPlans == Seq({"stop all", "clear", "wipe"} \X {NoProject})
DownForReset ==
  Awaits({"clear", "wipe"}) =>
    /\ job.todo \in ResetPlans
    /\ Doing("stop all", NoProject) \/ ~AnyRunning
RemovePlans(p) == Seq({"try stop", "unregister", "settle"} \X {p})
DownForRemoval ==
  Awaits({"unregister"}) =>
    /\ job.todo \in RemovePlans(job.project)
    /\ job.project \in Projects
    /\ Doing("try stop", job.project) \/ ~Up(own[job.project])

(* Only a project in wharf.json is pinned, and an instance of its own that *)
(* runs is on its recorded port.                                           *)
Pinned == \A p \in Projects : pin[p] # NoServer => p \in registered
OwnFits ==
  ~edited => \A p \in Projects : Up(own[p]) => p \in registered /\ own[p].conf.port = port[p]

(* The front door serves what it would serve if it started now, unless a   *)
(* step that brings it in line is still to come, or something failed.      *)
InLine == Up(front) => front.conf.server = active /\ front.conf.routes = ServedRoutes
Smooth == ~edited /\ ~job.err /\ job.calm
FrontFits == Smooth /\ ~stale /\ ~Awaits(FrontTasks) => InLine

(* What a start or restart has done so far.                                *)
StartTasks == {"rules", "php", "port", "start", "restart", "apply", "serve"}
StartPlans(p) == Seq(StartTasks \X {p})
StartPlanned == job.op \in {"start", "restart"} => job.todo \in StartPlans(job.project)
StartServes ==
  job.op \in {"start", "restart"} /\ Smooth =>
    /\ job.project \in registered \cap started
    /\ Awaits({"php"}) \/ Up(php)
    /\ Awaits({"start", "restart"}) \/ ~OwnInstance(job.project) \/ Up(own[job.project])
    /\ Awaits({"apply", "serve"}) \/ (Up(front) /\ InLine)

PlansInv == FrontLast /\ DownForReset /\ DownForRemoval /\ StartPlanned
ServesInv == LedgersInv /\ PlansInv /\ Pinned /\ OwnFits /\ FrontFits /\ StartServes

-----------------------------------------------------------------------------
(* How a step leaves the job.                                              *)
WayBack == <<<<"take back", job.project>>, <<"reapply", job.project>>>>
Moves ==
  /\ job'.op = job.op /\ job'.project = job.project
  /\ \/ job'.todo = Tail(job.todo) /\ job'.err = job.err /\ (job'.calm => job.calm)
     \/ job'.todo = <<>> /\ job'.err = TRUE
     \/ job'.todo = WayBack /\ job'.err = TRUE /\ job.op = "share"

LEMMA JobMoves ==
  ASSUME TypeOK, NEW call,
         \/ GoOn \/ GiveUp \/ Then(call) \/ ThenAnyway(call)
         \/ job.op = "share" /\ ThenTakeBack(call)
  PROVE  Moves
<1>1. job \in Jobs
  BY DEF TypeOK
<1>2. GoOn \/ GoOnAnyway => Moves
  BY <1>1 DEF GoOn, GoOnAnyway, Moves, Jobs
<1>3. GiveUp => Moves
  BY <1>1 DEF GiveUp, Moves, Jobs
<1>4. ASSUME job.op = "share", job' = [job EXCEPT !.todo = WayBack, !.err = TRUE]
      PROVE  Moves
  BY <1>1, <1>4 DEF Moves, Jobs
<1>5. CASE job.op = "share" /\ ThenTakeBack(call)
  BY <1>2, <1>4, <1>5 DEF ThenTakeBack, WayBack
<1>6. CASE Then(call) \/ ThenAnyway(call)
  BY <1>2, <1>3, <1>6 DEF Then, ThenAnyway
<1> QED
  BY <1>2, <1>3, <1>5, <1>6

(* Nothing failed: the call that was made returned nil.                    *)
LEMMA OnlyIfOk ==
  ASSUME TypeOK, NEW call, Smooth', Then(call) \/ ThenAnyway(call) \/ ThenTakeBack(call)
  PROVE  call.result = "ok" /\ job'.todo = Tail(job.todo) /\ ~job.err /\ job.calm
<1>1. job \in Jobs /\ ~job'.err /\ job'.calm
  BY DEF TypeOK, Smooth
<1>2. ~GiveUp /\ ~GoOnAnyway
  BY <1>1 DEF GiveUp, GoOnAnyway, Jobs
<1>3. job' # [job EXCEPT !.todo = <<<<"take back", job.project>>, <<"reapply", job.project>>>>,
                         !.err = TRUE]
  BY <1>1 DEF Jobs
<1>4. call.result = "ok" /\ GoOn
  BY <1>2, <1>3 DEF Then, ThenAnyway, ThenTakeBack
<1> QED
  BY <1>1, <1>4 DEF GoOn, Jobs

LEMMA NextSteps ==
  ASSUME TypeOK, NEW task, NEW p, Doing(task, p), job'.todo = Tail(job.todo)
  PROVE  /\ 1 \in DOMAIN job.todo /\ job.todo[1] = <<task, p>>
         /\ \A i \in DOMAIN job'.todo :
              i \in Nat /\ i + 1 \in DOMAIN job.todo /\ job'.todo[i] = job.todo[i + 1]
         /\ \A i \in DOMAIN job.todo :
              i = 1 \/ (i \in Nat /\ i - 1 \in DOMAIN job'.todo /\ job'.todo[i - 1] = job.todo[i])
<1>1. job.todo \in Seq(Steps) /\ job.todo # <<>> /\ Head(job.todo) = <<task, p>>
  BY DEF TypeOK, Jobs, Doing
<1>2. /\ Tail(job.todo) \in Seq(Steps)
      /\ Len(Tail(job.todo)) = Len(job.todo) - 1
      /\ \A i \in 1 .. Len(Tail(job.todo)) : Tail(job.todo)[i] = job.todo[i + 1]
      /\ Head(job.todo) = job.todo[1]
  BY <1>1, TailsOfPlans
<1>3. Len(job.todo) \in Nat /\ DOMAIN job.todo = 1 .. Len(job.todo)
  BY <1>1, LenProperties
<1>4. Len(job.todo) # 0
  BY <1>1, EmptySeq
<1>5. DOMAIN job'.todo = 1 .. (Len(job.todo) - 1)
  BY <1>2, LenProperties
<1>6. \A i \in 1 .. (Len(job.todo) - 1) : job'.todo[i] = job.todo[i + 1]
  BY <1>2
<1> QED
  BY <1>1, <1>2, <1>3, <1>4, <1>5, <1>6

LEMMA AwaitsNext ==
  ASSUME TypeOK, NEW task, NEW p, Doing(task, p), job'.todo = Tail(job.todo), NEW tasks
  PROVE  /\ Awaits(tasks)' => Awaits(tasks)
         /\ Awaits(tasks) => task \in tasks \/ Awaits(tasks)'
         /\ task \in tasks => Awaits(tasks)
<1>1. task = <<task, p>>[1]
  OBVIOUS
<1>2. Awaits(tasks)' => Awaits(tasks)
  BY NextSteps DEF Awaits
<1>3. Awaits(tasks) => task \in tasks \/ Awaits(tasks)'
  <2>1. SUFFICES ASSUME NEW i \in DOMAIN job.todo, job.todo[i][1] \in tasks, i # 1
                 PROVE  Awaits(tasks)'
    BY <1>1, NextSteps DEF Awaits
  <2>2. i - 1 \in DOMAIN job'.todo /\ job'.todo[i - 1] = job.todo[i]
    BY <2>1, NextSteps
  <2> QED
    BY <2>1, <2>2 DEF Awaits
<1>4. task \in tasks => Awaits(tasks)
  BY <1>1, NextSteps DEF Awaits
<1> QED
  BY <1>2, <1>3, <1>4

LEMMA NextTask ==
  ASSUME TypeOK, NEW task, NEW p, Doing(task, p), NEW tasks, task \in tasks
  PROVE  Awaits(tasks)
<1>1. job.todo \in Seq(Steps) /\ job.todo # <<>> /\ Head(job.todo) = <<task, p>>
  BY DEF TypeOK, Jobs, Doing
<1>2. Len(job.todo) \in Nat /\ DOMAIN job.todo = 1 .. Len(job.todo)
  BY <1>1, LenProperties
<1>3. Len(job.todo) # 0 /\ Head(job.todo) = job.todo[1]
  BY <1>1, EmptySeq, HeadTailProperties
<1>4. <<task, p>>[1] = task
  OBVIOUS
<1> QED
  BY <1>1, <1>2, <1>3, <1>4 DEF Awaits

LEMMA FrontLastNext ==
  ASSUME TypeOK, FrontLast, NEW task, NEW p, Doing(task, p), job'.todo = Tail(job.todo)
  PROVE  /\ FrontLast'
         /\ task \in LateTasks \cup FrontTasks \/ Awaits(FrontTasks)'
<1>1. ASSUME NEW i \in DOMAIN job'.todo, job'.todo[i][1] \notin LateTasks
      PROVE  \E k \in DOMAIN job'.todo : i <= k /\ job'.todo[k][1] \in FrontTasks
  <2>1. i \in Nat /\ i + 1 \in DOMAIN job.todo /\ job'.todo[i] = job.todo[i + 1]
    BY NextSteps
  <2>2. PICK k \in DOMAIN job.todo : i + 1 <= k /\ job.todo[k][1] \in FrontTasks
    BY <1>1, <2>1 DEF FrontLast
  <2>3. k \in Nat /\ k # 1
    BY <2>1, <2>2, NextSteps, TypeOK DEF TypeOK, Jobs
  <2>4. k - 1 \in DOMAIN job'.todo /\ job'.todo[k - 1] = job.todo[k]
    BY <2>3, NextSteps
  <2> QED
    BY <2>1, <2>2, <2>3, <2>4
<1>2. ASSUME task \notin LateTasks \cup FrontTasks
      PROVE  Awaits(FrontTasks)'
  <2>1. 1 \in DOMAIN job.todo /\ job.todo[1] = <<task, p>> /\ <<task, p>>[1] = task
    BY NextSteps
  <2>2. Awaits(FrontTasks)
    BY <1>2, <2>1 DEF FrontLast, Awaits
  <2> QED
    BY <1>2, <2>2, AwaitsNext
<1> QED
  BY <1>1, <1>2 DEF FrontLast

-----------------------------------------------------------------------------
(* What is still to be done stays in order, whatever a step did.           *)
LEMMA QuietAwaits ==
  ASSUME job'.todo \in QuietPlans
  PROVE  ~Awaits({"clear", "wipe"})' /\ ~Awaits({"unregister"})'
<1>1. \A i \in DOMAIN job'.todo : job'.todo[i] \in QuietSteps
  BY DEF QuietPlans
<1> QED
  BY <1>1 DEF QuietSteps, Marked, Awaits

(* A plan that is a sequence of steps of these tasks, for this project.    *)
LEMMA HeadOfPlan ==
  ASSUME NEW tasks, NEW q, job.todo \in Seq(tasks \X {q}), NEW task, NEW p, Doing(task, p)
  PROVE  /\ task \in tasks /\ p = q
         /\ Tail(job.todo) \in Seq(tasks \X {q})
<1>1. job.todo # <<>> /\ Head(job.todo) = <<task, p>>
  BY DEF Doing
<1>2. Head(job.todo) \in tasks \X {q} /\ Tail(job.todo) \in Seq(tasks \X {q})
  BY <1>1, HeadTailProperties
<1> QED
  BY <1>1, <1>2

LEMMA NoSteps ==
  ASSUME job'.todo = <<>>
  PROVE  /\ FrontLast' /\ DownForReset' /\ DownForRemoval'
         /\ \A tasks : ~Awaits(tasks)'
         /\ \A S : job'.todo \in Seq(S)
<1>1. DOMAIN job'.todo = {}
  BY DEF Awaits
<1>2. \A tasks : ~Awaits(tasks)'
  BY <1>1 DEF Awaits
<1> QED
  BY <1>1, <1>2, EmptySeq DEF FrontLast, DownForReset, DownForRemoval

(* A plan that ends by bringing the front door in line.                    *)
LEMMA EndsInFront ==
  ASSUME job'.todo \in Seq(Steps), Len(job'.todo) # 0,
         job'.todo[Len(job'.todo)][1] \in FrontTasks
  PROVE  FrontLast' /\ Awaits(FrontTasks)'
<1>1. Len(job'.todo) \in Nat /\ DOMAIN job'.todo = 1 .. Len(job'.todo)
  BY LenProperties
<1>2. /\ Len(job'.todo) \in DOMAIN job'.todo
      /\ \A i \in DOMAIN job'.todo : i <= Len(job'.todo)
  BY <1>1
<1> QED
  BY <1>2 DEF FrontLast, Awaits

LEMMA WayBackFits ==
  ASSUME TypeOK, job'.todo = WayBack
  PROVE  FrontLast' /\ DownForReset' /\ DownForRemoval'
<1>1. job.project \in Projects \cup {NoProject}
  BY DEF TypeOK, Jobs
<1>2. job'.todo \in QuietPlans
  BY <1>1, QuietPlanTypes DEF WayBack
<1>3. ~Awaits({"clear", "wipe"})' /\ ~Awaits({"unregister"})'
  BY <1>2, QuietAwaits
<1>4. /\ job'.todo \in Seq(Steps) /\ Len(job'.todo) = 2
      /\ job'.todo[2] = <<"reapply", job.project>>
  <2>1. \A a, b : Len(<<a, b>>) = 2 /\ <<a, b>>[2] = b
    OBVIOUS
  <2>2. job'.todo \in Seq(Steps)
    BY <1>2, QuietPlansArePlans
  <2>3. Len(WayBack) = 2 /\ WayBack[2] = <<"reapply", job.project>>
    BY <2>1 DEF WayBack
  <2> QED
    BY <2>2, <2>3
<1>5. FrontLast'
  <2>1. job'.todo[Len(job'.todo)] = <<"reapply", job.project>> /\ Len(job'.todo) # 0
    BY <1>4
  <2>2. <<"reapply", job.project>>[1] \in FrontTasks
    BY DEF FrontTasks
  <2> QED
    BY <1>4, <2>1, <2>2, EndsInFront
<1> QED
  BY <1>3, <1>5 DEF DownForReset, DownForRemoval

LEMMA PlansStep ==
  ASSUME TypeOK, PlansInv, NEW task, NEW p, Doing(task, p), Moves,
         task = "stop all" => ~AnyRunning',
         task \in {"clear", "wipe"} => UNCHANGED <<front, own, php>>,
         task = "try stop" /\ p \in Projects => ~Up(own[p])',
         task \in {"unregister", "settle"} => own' = own
  PROVE  PlansInv'
<1>1. FrontLast' /\ DownForReset' /\ DownForRemoval'
  <2>1. CASE job'.todo = <<>>
    BY <2>1, NoSteps
  <2>2. CASE job'.todo = WayBack
    BY <2>2, WayBackFits
  <2>3. CASE job'.todo = Tail(job.todo)
    <3>1. FrontLast'
      BY <2>3, FrontLastNext DEF PlansInv
    <3>2. ASSUME Awaits({"clear", "wipe"})'
          PROVE  job'.todo \in ResetPlans /\ ~AnyRunning'
      <4>1. Awaits({"clear", "wipe"})
        BY <2>3, <3>2, AwaitsNext
      <4>2. job.todo \in ResetPlans /\ (Doing("stop all", NoProject) \/ ~AnyRunning)
        BY <4>1 DEF PlansInv, DownForReset
      <4>3. task \in {"stop all", "clear", "wipe"} /\ Tail(job.todo) \in ResetPlans
        BY <4>2, HeadOfPlan DEF ResetPlans
      <4>4. CASE task = "stop all"
        BY <2>3, <4>3, <4>4
      <4>5. CASE task \in {"clear", "wipe"}
        <5>1. <<task, p>> # <<"stop all", NoProject>>
          BY <4>5
        <5>2. ~AnyRunning /\ UNCHANGED <<front, own, php>>
          BY <4>2, <4>5, <5>1 DEF Doing
        <5> QED
          BY <2>3, <4>3, <5>2 DEF AnyRunning, Up
      <4> QED
        BY <4>3, <4>4, <4>5
    <3>3. ASSUME Awaits({"unregister"})'
          PROVE  /\ job'.todo \in RemovePlans(job'.project)
                 /\ job'.project \in Projects
                 /\ ~Up(own'[job'.project])
      <4>1. Awaits({"unregister"})
        BY <2>3, <3>3, AwaitsNext
      <4>2. /\ job.todo \in RemovePlans(job.project) /\ job.project \in Projects
            /\ Doing("try stop", job.project) \/ ~Up(own[job.project])
        BY <4>1 DEF PlansInv, DownForRemoval
      <4>3. /\ task \in {"try stop", "unregister", "settle"} /\ p = job.project
            /\ Tail(job.todo) \in RemovePlans(job.project)
        BY <4>2, HeadOfPlan DEF RemovePlans
      <4>4. job'.project = job.project
        BY DEF Moves
      <4>5. CASE task = "try stop"
        BY <2>3, <4>2, <4>3, <4>4, <4>5 DEF Up
      <4>6. CASE task \in {"unregister", "settle"}
        <5>1. <<task, p>> # <<"try stop", job.project>>
          BY <4>6
        <5>2. ~Up(own[job.project]) /\ own' = own
          BY <4>2, <4>6, <5>1 DEF Doing
        <5> QED
          BY <2>3, <4>2, <4>3, <4>4, <5>2
      <4> QED
        BY <4>3, <4>5, <4>6
    <3> QED
      BY <3>1, <3>2, <3>3 DEF DownForReset, DownForRemoval
  <2> QED
    BY <2>1, <2>2, <2>3 DEF Moves
<1>2. StartPlanned'
  <2>1. SUFFICES ASSUME job'.op \in {"start", "restart"}
                 PROVE  job'.todo \in StartPlans(job'.project)
    BY DEF StartPlanned
  <2>2. /\ job.todo \in StartPlans(job.project) /\ job'.project = job.project
        /\ job'.todo \in {Tail(job.todo), <<>>}
    BY <2>1 DEF Moves, PlansInv, StartPlanned
  <2>3. Tail(job.todo) \in StartPlans(job.project) /\ <<>> \in StartPlans(job.project)
    BY <2>2, HeadOfPlan, EmptySeq DEF StartPlans
  <2> QED
    BY <2>2, <2>3
<1> QED
  BY <1>1, <1>2 DEF PlansInv

-----------------------------------------------------------------------------
(* What a call that returned nil leaves.                                   *)
LEMMA FrontCalls ==
  ASSUME NEW call \in FrontRestarts \cup Applied \cup Reloaded \cup Settled, call.result = "ok"
  PROVE  /\ ~Up(call.process) \/ call.process = Running(FrontConf)
         /\ started # {} /\ call \in FrontRestarts \cup Applied =>
              call.process = Running(FrontConf)
<1>1. \A process : ~Up(Down("stopped")) /\ Fault(process).result # "ok"
  BY DEF Up, Down, Fault
<1>2. ASSUME NEW binds, NEW c \in RestartOf(front, FrontConf, binds), c.result = "ok"
      PROVE  c.process = Running(FrontConf)
  <2>1. ASSUME NEW process, ~Up(process), NEW d \in StartOf(process, FrontConf, binds),
               d.result = "ok"
        PROVE  d.process = Running(FrontConf)
    BY <2>1 DEF StartOf, Done, Fault, Forced
  <2> QED
    BY <1>1, <1>2, <2>1 DEF RestartOf
<1>3. ASSUME NEW c \in FrontRestarts, c.result = "ok"
      PROVE  c.process = Running(FrontConf)
  <2>1. PICK binds \in FrontBinds : c \in RestartOf(front, FrontConf, binds)
    BY <1>1, <1>3 DEF FrontRestarts
  <2> QED
    BY <1>2, <1>3, <2>1
<1>4. \A c \in StopOf(front) : ~Up(c.process)
  BY <1>1 DEF StopOf, Done, Fault
<1>5. \A c \in Reloaded : c.result = "ok" => ~Up(c.process) \/ c.process = Running(FrontConf)
  BY <1>3 DEF Reloaded, Done
<1> QED
  BY <1>3, <1>4, <1>5 DEF Applied, Settled

LEMMA OwnCalls ==
  ASSUME NEW process, NEW conf, NEW bindable
  PROVE  /\ \A call \in StartOf(process, conf, bindable) :
              /\ Up(call.process) => call.process \in {process, Running(conf)}
              /\ call.result = "ok" => Up(call.process)
         /\ \A call \in RestartOf(process, conf, bindable) :
              /\ Up(call.process) => call.process = Running(conf)
              /\ call.result = "ok" => Up(call.process)
         /\ \A call \in StopOf(process) : ~Up(call.process)
         /\ \A call \in {Fault(process), Forced(process)} :
              call.process = process /\ call.result # "ok"
         /\ Done(process).process = process
<1>1. /\ ~Up(Down("stopped")) /\ ~Up(Down("failed")) /\ Up(Running(conf))
      /\ \A old : /\ Fault(old).process = old /\ Fault(old).result = "fault"
                  /\ Forced(old).process = old /\ Forced(old).result = "forced"
                  /\ Done(old).process = old /\ Done(old).result = "ok"
  BY DEF Up, Down, Running, Fault, Forced, Done
<1>2. \A old : \A call \in StartOf(old, conf, bindable) :
        /\ Up(call.process) => call.process \in {old, Running(conf)}
        /\ ~Up(old) /\ Up(call.process) => call.process = Running(conf)
        /\ call.result = "ok" => Up(call.process)
  BY <1>1 DEF StartOf
<1>3. \A call \in StopOf(process) : ~Up(call.process)
  BY <1>1 DEF StopOf
<1>4. \A call \in RestartOf(process, conf, bindable) :
        /\ Up(call.process) => call.process = Running(conf)
        /\ call.result = "ok" => Up(call.process)
  BY <1>1, <1>2 DEF RestartOf
<1> QED
  BY <1>1, <1>2, <1>3, <1>4

LEMMA RoutesKept ==
  ASSUME UNCHANGED <<registered, started, active, pin, port>>
  PROVE  /\ ServedRoutes' = ServedRoutes
         /\ \A p : OwnInstance(p)' = OwnInstance(p)
         /\ UNCHANGED front => InLine' = InLine
<1>1. \A p : OwnInstance(p)' = OwnInstance(p)
  BY DEF OwnInstance
<1>2. ServedRoutes' = ServedRoutes
  BY <1>1 DEF ServedRoutes
<1> QED
  BY <1>1, <1>2 DEF InLine, Up

(* Any other step waits for one that brings the front door in line.        *)
LEMMA FrontStillDue ==
  ASSUME TypeOK, PlansInv, NEW task, NEW p, Doing(task, p), Moves,
         task \notin LateTasks \cup FrontTasks
  PROVE  FrontFits' /\ (Smooth' => Awaits(FrontTasks)')
<1>1. ASSUME Smooth'
      PROVE  Awaits(FrontTasks)'
  <2>1. job'.todo = Tail(job.todo)
    BY <1>1 DEF Smooth, Moves
  <2> QED
    BY <2>1, FrontLastNext DEF PlansInv
<1> QED
  BY <1>1 DEF FrontFits

(* The steps of a start or restart.                                        *)
LEMMA StartHead ==
  ASSUME StartPlanned, job.op \in {"start", "restart"}, NEW task, NEW p, Doing(task, p)
  PROVE  task \in StartTasks /\ p = job.project
<1>1. job.todo \in StartPlans(job.project)
  BY DEF StartPlanned
<1> QED
  BY <1>1, HeadOfPlan DEF StartPlans

(* Any other step leaves a start's account of itself as it was.            *)
LEMMA NotStarting ==
  ASSUME StartPlanned, NEW task, NEW p, Doing(task, p), Moves, task \notin StartTasks
  PROVE  StartServes'
BY StartHead DEF StartServes, Moves

LEMMA SmoothBefore ==
  ASSUME Moves, edited' = edited, Smooth'
  PROVE  Smooth /\ job'.todo = Tail(job.todo)
BY DEF Moves, Smooth

(* Each step of a start does its part of what is promised.                 *)
LEMMA StartStep ==
  ASSUME TypeOK, PlansInv, StartServes, NEW task, NEW p, Doing(task, p), Moves,
         UNCHANGED <<registered, started, active, pin, edited>>,
         Smooth' /\ job.op \in {"start", "restart"} =>
           /\ IF task = "php" THEN Up(php)' ELSE php' = php
           /\ IF task \in {"start", "restart"} THEN OwnInstance(p) => Up(own[p])'
              ELSE own' = own
           /\ IF task \in {"apply", "serve"} THEN (Up(front) /\ InLine)'
              ELSE task = "port" \/ UNCHANGED <<front, port>>
  PROVE  StartServes'
<1>1. SUFFICES ASSUME job'.op \in {"start", "restart"}, Smooth'
               PROVE  /\ job'.project \in registered' \cap started'
                      /\ Awaits({"php"})' \/ Up(php)'
                      /\ \/ Awaits({"start", "restart"})'
                         \/ ~OwnInstance(job.project)
                         \/ Up(own'[job.project])
                      /\ Awaits({"apply", "serve"})' \/ (Up(front) /\ InLine)'
  <2>1. job'.project = job.project /\ (OwnInstance(job.project)' <=> OwnInstance(job.project))
    BY DEF Moves, OwnInstance
  <2> QED
    BY <1>1, <2>1 DEF StartServes
<1>2. /\ job.op \in {"start", "restart"} /\ job'.project = job.project
      /\ Smooth /\ job'.todo = Tail(job.todo)
  BY <1>1, SmoothBefore DEF Moves
<1>3. /\ job.project \in registered \cap started
      /\ Awaits({"php"}) \/ Up(php)
      /\ Awaits({"start", "restart"}) \/ ~OwnInstance(job.project) \/ Up(own[job.project])
      /\ Awaits({"apply", "serve"}) \/ (Up(front) /\ InLine)
  BY <1>2 DEF StartServes
<1>4. p = job.project /\ task \in StartTasks
  BY <1>2, StartHead DEF PlansInv
<1>5. Awaits({"php"})' \/ Up(php)'
  BY <1>1, <1>2, <1>3, AwaitsNext DEF Up
<1>6. \/ Awaits({"start", "restart"})'
      \/ ~OwnInstance(job.project)
      \/ Up(own'[job.project])
  <2>1. CASE task \in {"start", "restart"}
    BY <1>1, <1>2, <1>4, <2>1 DEF Up
  <2>2. CASE task \notin {"start", "restart"}
    BY <1>1, <1>2, <1>3, <2>2, AwaitsNext
  <2> QED
    BY <2>1, <2>2
<1>7. Awaits({"apply", "serve"})' \/ (Up(front) /\ InLine)'
  <2>1. CASE task \in {"apply", "serve"}
    BY <1>1, <1>2, <2>1
  <2>2. CASE task = "port"
    <3>1. Awaits(FrontTasks)'
      BY <1>1, <2>2, FrontStillDue DEF LateTasks, FrontTasks
    <3>2. job'.todo \in StartPlans(job.project)
      <4>1. job.todo \in Seq(StartTasks \X {job.project})
        BY <1>2 DEF PlansInv, StartPlanned, StartPlans
      <4>2. Tail(job.todo) \in Seq(StartTasks \X {job.project})
        BY <4>1, HeadOfPlan
      <4> QED
        BY <1>2, <4>2 DEF StartPlans
    <3>3. \A i \in DOMAIN job'.todo : job'.todo[i][1] \in StartTasks
      <4>1. \A i \in DOMAIN job'.todo : job'.todo[i] \in StartTasks \X {job.project}
        BY <3>2 DEF StartPlans
      <4> QED
        BY <4>1
    <3>4. StartTasks \cap FrontTasks = {"apply", "serve"}
      BY DEF StartTasks, FrontTasks
    <3> QED
      BY <3>1, <3>3, <3>4 DEF Awaits
  <2>3. CASE task \notin {"apply", "serve", "port"}
    <3>1. UNCHANGED <<front, port>>
      BY <1>1, <1>2, <2>3
    <3>2. InLine' = InLine /\ Up(front)' = Up(front)
      BY <3>1, RoutesKept DEF Up
    <3> QED
      BY <1>2, <1>3, <2>3, <3>2, AwaitsNext
  <2> QED
    BY <2>1, <2>2, <2>3
<1> QED
  BY <1>2, <1>3, <1>5, <1>6, <1>7

-----------------------------------------------------------------------------
LEMMA FrontStepServes ==
  ASSUME ServesInv, NEW p \in Projects \cup {NoProject},
         Apply(p) \/ Reload(p) \/ Serve(p) \/ Settle(p) \/ Reapply(p)
  PROVE  PlansInv' /\ Pinned' /\ OwnFits' /\ FrontFits' /\ StartServes'
<1>1. TypeOK /\ PlansInv /\ Pinned /\ OwnFits /\ StartServes
  BY DEF ServesInv, LedgersInv
<1>2. PICK task \in {"apply", "reload", "serve", "settle", "reapply"} :
        /\ Doing(task, p)
        /\ \E call \in FrontRestarts \cup Applied \cup Reloaded \cup Settled :
             /\ FrontIs(call)
             /\ Then(call) \/ ThenAnyway(call) \/ (job.op = "share" /\ ThenTakeBack(call))
             /\ task \in {"apply", "serve"} => call \in FrontRestarts \cup Applied
  BY DEF Apply, Reload, Serve, Settle, Reapply
<1>3. PICK call \in FrontRestarts \cup Applied \cup Reloaded \cup Settled :
        /\ FrontIs(call)
        /\ Then(call) \/ ThenAnyway(call) \/ (job.op = "share" /\ ThenTakeBack(call))
        /\ task \in {"apply", "serve"} => call \in FrontRestarts \cup Applied
  BY <1>2
<1>4. /\ UNCHANGED <<registered, active, pin, port, started, own, php, edited>>
      /\ front' = call.process
  <2>1. UNCHANGED ledgers
    BY DEF Apply, Reload, Serve, Settle, Reapply
  <2> QED
    BY <1>3, <2>1 DEF FrontIs, cfgVars, phpVars, ledgers
<1>5. Moves
  BY <1>1, <1>3, JobMoves
<1>6. PlansInv'
  BY <1>1, <1>2, <1>4, <1>5, PlansStep
<1>7. ASSUME Smooth'
      PROVE  /\ InLine'
             /\ started # {} /\ task \in {"apply", "serve"} => Up(front)'
  <2>1. call.result = "ok"
    BY <1>1, <1>3, <1>7, OnlyIfOk
  <2>2. /\ ~Up(call.process) \/ call.process = Running(FrontConf)
        /\ started # {} /\ task \in {"apply", "serve"} => call.process = Running(FrontConf)
    BY <1>3, <2>1, FrontCalls
  <2>3. /\ Up(Running(FrontConf)) /\ Running(FrontConf).conf.server = active
        /\ Running(FrontConf).conf.routes = ServedRoutes
    BY DEF Up, Running, FrontConf
  <2>4. ServedRoutes' = ServedRoutes /\ active' = active
    BY <1>4, RoutesKept
  <2> QED
    BY <1>4, <2>2, <2>3, <2>4 DEF InLine, Up
<1>8. Pinned' /\ OwnFits'
  BY <1>1, <1>4 DEF Pinned, OwnFits, Up
<1>9. StartServes'
  <2>1. Smooth' /\ job.op \in {"start", "restart"} => started # {}
    BY <1>1, <1>4, <1>5, SmoothBefore DEF StartServes
  <2> QED
    BY <1>1, <1>2, <1>4, <1>5, <1>7, <2>1, StartHead, NotStarting, StartStep
       DEF PlansInv, StartTasks
<1> QED
  BY <1>6, <1>7, <1>8, <1>9 DEF FrontFits

LEMMA OwnStepServes ==
  ASSUME ServesInv, NEW p \in Projects,
         StartOwn(p) \/ RestartOwn(p) \/ StopOwn(p) \/ TryStopOwn(p) \/ Evict(p)
  PROVE  PlansInv' /\ Pinned' /\ OwnFits' /\ FrontFits' /\ StartServes'
<1>1. TypeOK /\ PlansInv /\ Pinned /\ OwnFits /\ FrontFits /\ StartServes
  BY DEF ServesInv, LedgersInv
<1> DEFINE starts == StartOf(own[p], OwnConf(p), Bindable(p))
           restarts == RestartOf(own[p], OwnConf(p), Bindable(p))
           refusals == {Fault(own[p]), Forced(own[p])}
<1>2. PICK task \in {"start", "restart", "stop", "try stop", "evict"} :
        /\ Doing(task, p)
        /\ \E call : /\ OwnIs(p, call) /\ (Then(call) \/ ThenAnyway(call))
                     /\ \/ call \in {Done(own[p])} \cup refusals \cup StopOf(own[p])
                        \/ OwnInstance(p) /\ call \in starts \cup restarts
                     /\ task = "start" /\ OwnInstance(p) /\ p \in started =>
                          call \in refusals \cup starts
                     /\ task = "restart" /\ OwnInstance(p) => call \in refusals \cup restarts
                     /\ task = "try stop" => call \in StopOf(own[p])
  BY DEF StartOwn, RestartOwn, StopOwn, TryStopOwn, Evict, WithSpec
<1>3. PICK call : /\ OwnIs(p, call) /\ (Then(call) \/ ThenAnyway(call))
                  /\ \/ call \in {Done(own[p])} \cup refusals \cup StopOf(own[p])
                     \/ OwnInstance(p) /\ call \in starts \cup restarts
                  /\ task = "start" /\ OwnInstance(p) /\ p \in started =>
                       call \in refusals \cup starts
                  /\ task = "restart" /\ OwnInstance(p) => call \in refusals \cup restarts
                  /\ task = "try stop" => call \in StopOf(own[p])
  BY <1>2
<1>4. /\ Up(call.process) => \/ call.process = own[p]
                             \/ OwnInstance(p) /\ call.process = Running(OwnConf(p))
      /\ call.result = "ok" /\ task = "start" /\ OwnInstance(p) /\ p \in started => Up(call.process)
      /\ call.result = "ok" /\ task = "restart" /\ OwnInstance(p) => Up(call.process)
      /\ task = "try stop" => ~Up(call.process)
  <2>1. /\ \A c \in starts : /\ Up(c.process) => c.process \in {own[p], Running(OwnConf(p))}
                             /\ c.result = "ok" => Up(c.process)
        /\ \A c \in restarts : /\ Up(c.process) => c.process = Running(OwnConf(p))
                               /\ c.result = "ok" => Up(c.process)
    BY OwnCalls
  <2>2. \A c \in StopOf(own[p]) : ~Up(c.process)
    BY OwnCalls
  <2>3. /\ \A c \in refusals : c.process = own[p] /\ c.result # "ok"
        /\ Done(own[p]).process = own[p]
    BY OwnCalls
  <2> QED
    BY <1>3, <2>1, <2>2, <2>3
<1>5. /\ UNCHANGED <<registered, active, pin, port, started, front, php, edited, stale>>
      /\ own' = [own EXCEPT ![p] = call.process]
  BY <1>3 DEF OwnIs, cfgVars, phpVars, ledgers
<1>6. \A q \in Projects : own'[q] = IF q = p THEN call.process ELSE own[q]
  BY <1>1, <1>5 DEF TypeOK
<1>7. Moves
  BY <1>1, <1>3, JobMoves
<1>8. PlansInv'
  BY <1>1, <1>2, <1>4, <1>6, <1>7, PlansStep DEF Up
<1>9. Pinned'
  BY <1>1, <1>5 DEF Pinned
<1>10. OwnFits'
  <2>1. OwnInstance(p) => p \in registered
    BY <1>1 DEF OwnInstance, Pinned
  <2>2. Running(OwnConf(p)).conf.port = port[p]
    BY DEF Running, OwnConf
  <2>3. ASSUME ~edited
        PROVE  Up(call.process) => p \in registered /\ call.process.conf.port = port[p]
    BY <1>1, <1>4, <2>1, <2>2, <2>3 DEF OwnFits
  <2>4. ASSUME ~edited, NEW q \in Projects, Up(own[q])'
        PROVE  q \in registered /\ own'[q].conf.port = port[q]
    BY <1>1, <1>6, <2>3, <2>4 DEF OwnFits, Up
  <2> QED
    BY <1>5, <2>4 DEF OwnFits
<1>11. FrontFits'
  <2>1. CASE task = "start"
    <3>1. ASSUME Smooth', ~stale', ~Awaits(FrontTasks)'
          PROVE  InLine'
      <4>1. Smooth /\ job'.todo = Tail(job.todo) /\ ~stale
        BY <1>5, <1>7, <3>1, SmoothBefore
      <4>2. ~Awaits(FrontTasks)
        BY <1>1, <1>2, <2>1, <3>1, <4>1, AwaitsNext DEF FrontTasks
      <4> QED
        BY <1>1, <1>5, <4>1, <4>2, RoutesKept DEF FrontFits
    <3> QED
      BY <3>1 DEF FrontFits
  <2>2. CASE task # "start"
    BY <1>1, <1>2, <1>7, <2>2, FrontStillDue DEF LateTasks, FrontTasks
  <2> QED
    BY <2>1, <2>2
<1>12. StartServes'
  <2>1. CASE task \in {"start", "restart"}
    <3>1. ASSUME Smooth', job.op \in {"start", "restart"}
          PROVE  OwnInstance(p) => Up(own[p])'
      <4>1. call.result = "ok" /\ Smooth
        BY <1>1, <1>3, <1>5, <1>7, <3>1, OnlyIfOk, SmoothBefore
      <4>2. p = job.project
        BY <1>1, <1>2, <3>1, StartHead DEF PlansInv
      <4>3. p \in started
        BY <1>1, <3>1, <4>1, <4>2 DEF StartServes
      <4> QED
        BY <1>4, <1>6, <2>1, <4>1, <4>3 DEF Up
    <3> QED
      BY <1>1, <1>2, <1>5, <1>7, <2>1, <3>1, StartStep
  <2>2. CASE task \in {"stop", "try stop", "evict"}
    BY <1>1, <1>2, <1>7, <2>2, NotStarting DEF PlansInv, StartTasks
  <2> QED
    BY <1>2, <2>1, <2>2
<1> QED
  BY <1>8, <1>9, <1>10, <1>11, <1>12

(* A check, PHP, a port: the step that brings the front door in line is    *)
(* still to come.                                                          *)
LEMMA QuietStepServes ==
  ASSUME ServesInv, NEW p \in Projects \cup {NoProject},
         \/ EnsurePHP(p)
         \/ p \in Projects /\ (CheckRules(p) \/ OwnPort(p) \/ TakeBack(p) \/ SharePort(p))
  PROVE  PlansInv' /\ Pinned' /\ OwnFits' /\ FrontFits' /\ StartServes'
<1>1. TypeOK /\ PlansInv /\ Pinned /\ OwnFits /\ StartServes
  BY DEF ServesInv, LedgersInv
<1>2. PICK task \in {"php", "rules", "port", "take back", "share"} :
        /\ Doing(task, p)
        /\ task # "php" => php' = php
        /\ task # "port" => port' = port
        /\ task = "php" => EnsurePHP(p)
        /\ task = "port" => OwnPort(p) /\ p \in Projects
  BY DEF EnsurePHP, CheckRules, OwnPort, TakeBack, SharePort, processes, cfgVars
<1>3. UNCHANGED <<registered, active, pin, started, front, own, edited>>
  BY DEF EnsurePHP, CheckRules, OwnPort, TakeBack, SharePort, processes, cfgVars, ledgers
<1>4. GoOn \/ GiveUp \/ \E call : Then(call)
  BY DEF EnsurePHP, CheckRules, OwnPort, TakeBack, SharePort
<1>5. Moves
  BY <1>1, <1>4, JobMoves
<1>6. PlansInv'
  BY <1>1, <1>2, <1>3, <1>5, PlansStep
<1>7. Pinned'
  BY <1>1, <1>3 DEF Pinned
<1>8. OwnFits'
  <2>1. CASE task # "port"
    BY <1>1, <1>2, <1>3, <2>1 DEF OwnFits, Up
  <2>2. CASE task = "port"
    <3>1. /\ port' = port \/ ~Up(own[p])
          /\ \A q \in Projects : q # p => port'[q] = port[q]
      BY <1>1, <1>2, <2>2 DEF OwnPort, NeedsPort, TypeOK
    <3> QED
      BY <1>1, <1>3, <3>1 DEF OwnFits, Up
  <2> QED
    BY <2>1, <2>2
<1>9. FrontFits'
  BY <1>1, <1>2, <1>5, FrontStillDue DEF LateTasks, FrontTasks
<1>10. Smooth' /\ task = "php" => Up(php)'
  <2>1. SUFFICES ASSUME Smooth', task = "php"
                 PROVE  Up(php)'
    OBVIOUS
  <2>2. PICK call \in {Fault(php)} \cup StartOf(php, NoConf, TRUE) :
          php' = call.process /\ Then(call)
    BY <1>2, <2>1 DEF EnsurePHP
  <2>3. call.result = "ok"
    BY <1>1, <2>1, <2>2, OnlyIfOk
  <2>4. Up(call.process)
    BY <2>2, <2>3, OwnCalls
  <2> QED
    BY <2>2, <2>4 DEF Up
<1>11. StartServes'
  <2>1. CASE task \in {"php", "rules", "port"}
    BY <1>1, <1>2, <1>3, <1>5, <1>10, <2>1, StartStep
  <2>2. CASE task \in {"take back", "share"}
    BY <1>1, <1>2, <1>5, <2>2, NotStarting DEF PlansInv, StartTasks
  <2> QED
    BY <1>2, <2>1, <2>2
<1> QED
  BY <1>6, <1>7, <1>8, <1>9, <1>11

LEMMA UnregisterServes ==
  ASSUME ServesInv, NEW p \in Projects, Unregister(p)
  PROVE  PlansInv' /\ Pinned' /\ OwnFits' /\ FrontFits' /\ StartServes'
<1>1. /\ TypeOK /\ PlansInv /\ Pinned /\ OwnFits
      /\ Doing("unregister", p)
      /\ UNCHANGED <<front, own, php, edited>>
  BY DEF ServesInv, LedgersInv, Unregister, processes
<1>2. Moves
  BY <1>1, JobMoves DEF Unregister
<1>3. PlansInv' /\ FrontFits' /\ StartServes'
  BY <1>1, <1>2, PlansStep, FrontStillDue, NotStarting
     DEF LateTasks, FrontTasks, StartTasks, PlansInv
<1>4. ~Up(own[p])
  <2>1. Awaits({"unregister"})
    BY <1>1, NextTask
  <2>2. /\ job.todo \in RemovePlans(job.project)
        /\ Doing("try stop", job.project) \/ ~Up(own[job.project])
    BY <1>1, <2>1 DEF PlansInv, DownForRemoval
  <2>3. p = job.project
    BY <1>1, <2>2, HeadOfPlan DEF RemovePlans
  <2>4. <<"unregister", p>> # <<"try stop", p>>
    OBVIOUS
  <2> QED
    BY <1>1, <2>2, <2>3, <2>4 DEF Doing
<1>5. CASE Forget(p)
  <2>1. /\ registered' = registered \ {p}
        /\ \A q \in Projects : /\ pin'[q] = IF q = p THEN NoServer ELSE pin[q]
                               /\ port'[q] = IF q = p THEN 0 ELSE port[q]
    BY <1>1, <1>5 DEF Forget, TypeOK
  <2>2. Pinned'
    BY <1>1, <2>1 DEF Pinned
  <2>3. OwnFits'
    BY <1>1, <1>4, <2>1 DEF OwnFits, Up
  <2> QED
    BY <1>3, <2>2, <2>3
<1>6. CASE UNCHANGED <<registered, pin, port, lan>>
  BY <1>1, <1>3, <1>6 DEF Pinned, OwnFits, Up
<1> QED
  BY <1>5, <1>6 DEF Unregister

(* Nothing runs: nothing is served, and no process is on the wrong port.   *)
LEMMA NothingRuns ==
  ASSUME ~AnyRunning
  PROVE  OwnFits /\ InLine /\ FrontFits
BY DEF AnyRunning, OwnFits, InLine, FrontFits

LEMMA ResetServes ==
  ASSUME ServesInv, StopEverything \/ Clear \/ Wipe
  PROVE  PlansInv' /\ Pinned' /\ OwnFits' /\ FrontFits' /\ StartServes'
<1>1. TypeOK /\ PlansInv /\ Pinned
  BY DEF ServesInv, LedgersInv
<1>2. PICK task \in {"stop all", "clear", "wipe"} :
        /\ Doing(task, NoProject)
        /\ task = "stop all" => StopEverything
        /\ task # "stop all" => UNCHANGED <<front, own, php>>
  BY DEF StopEverything, Clear, Wipe, processes
<1>3. Moves
  BY <1>1, JobMoves DEF StopEverything, Clear, Wipe
<1>4. ~AnyRunning'
  <2>1. CASE task = "stop all"
    <3>1. own' = [p \in Projects |-> IF Up(own[p]) THEN Down("stopped") ELSE own[p]]
      BY <1>2, <2>1 DEF StopEverything
    <3>2. \A p \in Projects : ~Up(own[p])'
      BY <3>1 DEF Up, Down
    <3>3. /\ front' = IF Up(front) THEN Down("stopped") ELSE front
          /\ php' = IF Up(php) THEN Down("stopped") ELSE php
      BY <1>2, <2>1 DEF StopEverything
    <3>4. ~Up(front)' /\ ~Up(php)'
      BY <3>3 DEF Up, Down
    <3> QED
      BY <3>2, <3>4 DEF AnyRunning
  <2>2. CASE task # "stop all"
    <3>1. Awaits({"clear", "wipe"})
      BY <1>1, <1>2, <2>2, NextTask
    <3>2. <<task, NoProject>> # <<"stop all", NoProject>>
      BY <2>2
    <3>3. ~AnyRunning
      BY <1>1, <1>2, <3>1, <3>2 DEF PlansInv, DownForReset, Doing
    <3> QED
      BY <1>2, <2>2, <3>3 DEF AnyRunning, Up
  <2> QED
    BY <2>1, <2>2
<1>5. OwnFits' /\ FrontFits'
  BY <1>4, NothingRuns DEF AnyRunning, OwnFits, InLine, FrontFits
<1>6. PlansInv'
  BY <1>1, <1>2, <1>3, <1>4, PlansStep
<1>7. StartServes'
  BY <1>1, <1>2, <1>3, NotStarting DEF PlansInv, StartTasks
<1>8. Pinned'
  BY <1>1 DEF StopEverything, Clear, Wipe, Pinned, cfgVars
<1> QED
  BY <1>5, <1>6, <1>7, <1>8

LEMMA ReturnServes ==
  ASSUME ServesInv, Return
  PROVE  PlansInv' /\ Pinned' /\ OwnFits' /\ FrontFits' /\ StartServes'
<1>1. /\ Pinned /\ OwnFits /\ FrontFits
      /\ job' = Idle /\ job.todo = <<>>
      /\ UNCHANGED <<registered, active, pin, port, front, own, edited>>
  BY DEF ServesInv, Return, cfgVars, processes
<1>2. job'.todo = <<>> /\ job'.op = "none"
  BY <1>1 DEF Idle
<1>3. PlansInv' /\ StartServes'
  BY <1>2, NoSteps DEF PlansInv, StartPlanned, StartServes
<1>4. Pinned' /\ OwnFits'
  BY <1>1 DEF Pinned, OwnFits, Up
<1>5. FrontFits'
  <2>1. SUFFICES ASSUME Smooth', ~stale'
                 PROVE  InLine'
    BY DEF FrontFits
  <2>2. ~stale /\ ~job.err /\ job.calm /\ ~edited /\ started' = started
    <3>1. ~(stale \/ job.err \/ ~job.calm)
      BY <2>1 DEF Return
    <3>2. UNCHANGED ledgers
      BY <3>1 DEF Return
    <3> QED
      BY <1>1, <2>1, <3>1, <3>2 DEF Smooth, ledgers
  <2>3. ~Awaits(FrontTasks)
    BY <1>1 DEF Awaits
  <2>4. InLine
    BY <1>1, <2>2, <2>3 DEF FrontFits, Smooth
  <2> QED
    BY <1>1, <2>2, <2>4, RoutesKept
<1> QED
  BY <1>3, <1>4, <1>5

LEMMA StepServes ==
  ASSUME ServesInv, Step
  PROVE  PlansInv' /\ Pinned' /\ OwnFits' /\ FrontFits' /\ StartServes'
BY FrontStepServes, OwnStepServes, QuietStepServes, UnregisterServes, ResetServes, ReturnServes
   DEF Step

-----------------------------------------------------------------------------
(* The plans operations set out on.                                        *)
LEMMA PlanLengths ==
  /\ \A a : Len(<<a>>) = 1 /\ <<a>>[1] = a
  /\ \A a, b : Len(<<a, b>>) = 2 /\ <<a, b>>[1] = a /\ <<a, b>>[2] = b
  /\ \A a, b, c : /\ Len(<<a, b, c>>) = 3 /\ <<a, b, c>>[1] = a
                  /\ <<a, b, c>>[2] = b /\ <<a, b, c>>[3] = c
OBVIOUS

(* A plan that ends by bringing the front door in line is one to set out   *)
(* on: until it has, nothing is promised.                                  *)
LEMMA SetsOut ==
  ASSUME job'.todo \in Seq(Steps), NEW n \in Nat, Len(job'.todo) = n, n # 0,
         NEW task \in FrontTasks, NEW p, job'.todo[n] = <<task, p>>
  PROVE  FrontLast' /\ FrontFits'
<1>1. <<task, p>>[1] \in FrontTasks
  OBVIOUS
<1>2. Len(job'.todo) # 0 /\ job'.todo[Len(job'.todo)][1] \in FrontTasks
  BY <1>1
<1>3. FrontLast' /\ Awaits(FrontTasks)'
  BY <1>2, EndsInFront
<1> QED
  BY <1>3 DEF FrontFits

LEMMA QuietSetsOut ==
  ASSUME NEW op, op \notin {"start", "restart"}, NEW p, NEW todo \in QuietPlans, Begin(op, p, todo),
         FrontLast', FrontFits'
  PROVE  PlansInv' /\ FrontFits' /\ StartServes'
<1>1. job'.todo = todo /\ job'.op = op
  BY DEF Begin
<1>2. ~Awaits({"clear", "wipe"})' /\ ~Awaits({"unregister"})'
  BY <1>1, QuietAwaits
<1> QED
  BY <1>1, <1>2 DEF PlansInv, DownForReset, DownForRemoval, StartPlanned, StartServes

LEMMA ShortSetsOut ==
  ASSUME NEW op, op \notin {"start", "restart"}, NEW q, NEW todo \in QuietPlans,
         Begin(op, q, todo), NEW n \in Nat, Len(todo) = n, n # 0,
         NEW task \in FrontTasks, NEW p, todo[n] = <<task, p>>
  PROVE  PlansInv' /\ FrontFits' /\ StartServes'
<1>1. job'.todo = todo /\ todo \in Seq(Steps)
  BY QuietPlansArePlans DEF Begin
<1>2. FrontLast' /\ FrontFits'
  BY <1>1, SetsOut
<1> QED
  BY <1>2, QuietSetsOut

LEMMA ShortPlansSetOut ==
  ASSUME NEW op, op \notin {"start", "restart"}, NEW q, NEW p \in Projects \cup {NoProject}
  PROVE  /\ Begin(op, q, <<<<"stop", p>>, <<"settle", p>>>>) =>
              PlansInv' /\ FrontFits' /\ StartServes'
         /\ Begin(op, q, <<<<"reload", p>>>>) => PlansInv' /\ FrontFits' /\ StartServes'
         /\ Begin(op, q, <<<<"php", p>>, <<"reload", p>>>>) =>
              PlansInv' /\ FrontFits' /\ StartServes'
         /\ Begin(op, q, <<<<"stop all", p>>>>) => PlansInv' /\ FrontFits' /\ StartServes'
<1>1. /\ <<<<"stop", p>>, <<"settle", p>>>> \in QuietPlans
      /\ <<<<"reload", p>>>> \in QuietPlans
      /\ <<<<"php", p>>, <<"reload", p>>>> \in QuietPlans
      /\ <<<<"stop all", p>>>> \in QuietPlans
  BY QuietPlanTypes
<1>2. "settle" \in FrontTasks /\ "reload" \in FrontTasks /\ "stop all" \in FrontTasks
  BY DEF FrontTasks
<1>3. ASSUME NEW a, NEW task \in FrontTasks, <<a, <<task, p>>>> \in QuietPlans,
             Begin(op, q, <<a, <<task, p>>>>)
      PROVE  PlansInv' /\ FrontFits' /\ StartServes'
  <2>1. Len(<<a, <<task, p>>>>) = 2 /\ <<a, <<task, p>>>>[2] = <<task, p>>
    BY PlanLengths
  <2>2. 2 \in Nat /\ 2 # 0
    OBVIOUS
  <2> QED
    BY <1>3, <2>1, <2>2, ShortSetsOut
<1>4. ASSUME NEW task \in FrontTasks, <<<<task, p>>>> \in QuietPlans,
             Begin(op, q, <<<<task, p>>>>)
      PROVE  PlansInv' /\ FrontFits' /\ StartServes'
  <2>1. Len(<<<<task, p>>>>) = 1 /\ <<<<task, p>>>>[1] = <<task, p>>
    BY PlanLengths
  <2>2. 1 \in Nat /\ 1 # 0
    OBVIOUS
  <2> QED
    BY <1>4, <2>1, <2>2, ShortSetsOut
<1> QED
  BY <1>1, <1>2, <1>3, <1>4

LEMMA SwitchSetsOut ==
  ASSUME TypeOK, NEW order \in Orders(registered),
         Begin("switch", NoProject, SwitchPlan(order))
  PROVE  PlansInv' /\ FrontFits' /\ StartServes'
<1> DEFINE starts == Each("start", order)
           before == Each("evict", order) \o Each("port", order)
           fronts == before \o <<<<"apply", NoProject>>>>
<1>1. Cardinality(registered) \in Nat /\ order \in [1 .. Cardinality(registered) -> Projects]
  BY ProjectsAssumption, FS_Subset, FS_CardinalityType DEF TypeOK, Orders
<1>2. order \in Seq(Projects)
  BY <1>1, SeqDef
<1>3. /\ Each("evict", order) \in QuietPlans
      /\ Each("port", order) \in QuietPlans
      /\ starts \in QuietPlans
  BY <1>1, EachTypes DEF Tasks, Marked
<1>4. \A i \in 1 .. Len(starts) : starts[i][1] = "start"
  <2>1. Len(order) \in Nat
    BY <1>2, LenProperties
  <2>2. DOMAIN starts = 1 .. Len(order) /\ DOMAIN starts = 1 .. Len(starts)
    BY <1>3, <2>1, LenProperties DEF Each, QuietPlans
  <2> QED
    BY <2>2 DEF Each
<1>5. before \in QuietPlans
  BY <1>3, ConcatProperties DEF QuietPlans
<1>6. <<<<"apply", NoProject>>>> \in QuietPlans
  BY QuietPlanTypes
<1>7. /\ fronts \in QuietPlans /\ Len(fronts) = Len(before) + 1 /\ Len(before) \in Nat
      /\ fronts[Len(fronts)] = <<"apply", NoProject>>
  BY <1>5, <1>6, PlanLengths, ConcatProperties, LenProperties DEF QuietPlans
<1> HIDE DEF before, fronts, starts
<1>8. SwitchPlan(order) = fronts \o starts
  BY DEF SwitchPlan, fronts, before, starts
<1>9. /\ SwitchPlan(order) \in QuietPlans
      /\ Len(SwitchPlan(order)) = Len(fronts) + Len(starts)
      /\ \A i \in 1 .. Len(fronts) + Len(starts) :
           SwitchPlan(order)[i] = IF i <= Len(fronts) THEN fronts[i] ELSE starts[i - Len(fronts)]
  <2>1. fronts \in Seq(QuietSteps) /\ starts \in Seq(QuietSteps)
    BY <1>3, <1>7 DEF QuietPlans
  <2>2. /\ fronts \o starts \in Seq(QuietSteps)
        /\ Len(fronts \o starts) = Len(fronts) + Len(starts)
        /\ \A i \in 1 .. Len(fronts) + Len(starts) :
             (fronts \o starts)[i] = IF i <= Len(fronts) THEN fronts[i] ELSE starts[i - Len(fronts)]
    BY <2>1, ConcatProperties
  <2> QED
    BY <1>8, <2>2 DEF QuietPlans
<1>10. job'.todo = SwitchPlan(order)
  BY DEF Begin
<1>11. /\ Len(fronts) \in Nat /\ Len(starts) \in Nat /\ Len(fronts) # 0
       /\ DOMAIN job'.todo = 1 .. Len(fronts) + Len(starts)
  BY <1>3, <1>7, <1>9, <1>10, LenProperties DEF QuietPlans
<1>12. /\ Len(fronts) \in DOMAIN job'.todo
       /\ job'.todo[Len(fronts)][1] = "apply"
  <2>1. <<"apply", NoProject>>[1] = "apply"
    OBVIOUS
  <2> QED
    BY <1>7, <1>9, <1>10, <1>11, <2>1
<1>13. \A i \in DOMAIN job'.todo : ~(i <= Len(fronts)) => job'.todo[i][1] = "start"
  <2>1. SUFFICES ASSUME NEW i \in DOMAIN job'.todo, ~(i <= Len(fronts))
                 PROVE  job'.todo[i][1] = "start"
    OBVIOUS
  <2>2. i - Len(fronts) \in 1 .. Len(starts)
    BY <1>11, <2>1
  <2> QED
    BY <1>4, <1>9, <1>10, <1>11, <2>1, <2>2
<1>14. FrontLast' /\ Awaits(FrontTasks)'
  BY <1>12, <1>13 DEF FrontLast, Awaits, FrontTasks, LateTasks
<1> QED
  BY <1>9, <1>14, QuietSetsOut DEF FrontFits

(* A start and a restart promise everything, and have all of it to do.     *)
LEMMA StartSetsOut ==
  ASSUME NEW op \in {"start", "restart"}, NEW p \in registered' \cap started', NEW todo,
         todo \in QuietPlans, todo \in StartPlans(p), Begin(op, p, todo),
         NEW n \in Nat, Len(todo) = n, n # 0, NEW i \in 1 .. n, todo[i] = <<"php", p>>,
         \/ todo[n] = <<"serve", p>> /\ ~OwnInstance(p)'
         \/ /\ todo[n] = <<"apply", p>>
            /\ \E k \in 1 .. n : todo[k] = <<"start", p>> \/ todo[k] = <<"restart", p>>
  PROVE  PlansInv' /\ FrontFits' /\ StartServes'
<1>1. job'.todo = todo /\ job'.op = op /\ job'.project = p /\ todo \in Seq(Steps)
  BY QuietPlansArePlans DEF Begin
<1>2. DOMAIN job'.todo = 1 .. n /\ n \in 1 .. n
  BY <1>1, LenProperties
<1>3. \A task : <<task, p>>[1] = task
  OBVIOUS
<1>4. ~Awaits({"clear", "wipe"})' /\ ~Awaits({"unregister"})'
  BY <1>1, QuietAwaits
<1>5. Awaits({"apply", "serve"})' /\ FrontLast' /\ FrontFits'
  <2>1. job'.todo[n][1] \in {"apply", "serve"}
    BY <1>1, <1>3
  <2>2. \A k \in DOMAIN job'.todo : k <= n
    BY <1>2
  <2>3. {"apply", "serve"} \subseteq FrontTasks
    BY DEF FrontTasks
  <2> QED
    BY <1>2, <2>1, <2>2, <2>3 DEF Awaits, FrontLast, FrontFits
<1>6. Awaits({"php"})'
  BY <1>1, <1>2, <1>3 DEF Awaits
<1>7. Awaits({"start", "restart"})' \/ ~OwnInstance(p)'
  <2>1. ASSUME NEW k \in 1 .. n, todo[k] = <<"start", p>> \/ todo[k] = <<"restart", p>>
        PROVE  Awaits({"start", "restart"})'
    <3>1. job'.todo[k][1] \in {"start", "restart"} /\ k \in DOMAIN job'.todo
      BY <1>1, <1>2, <1>3, <2>1
    <3> QED
      BY <3>1 DEF Awaits
  <2>2. CASE ~OwnInstance(p)'
    BY <2>2
  <2>3. CASE \E k \in 1 .. n : todo[k] = <<"start", p>> \/ todo[k] = <<"restart", p>>
    BY <2>1, <2>3
  <2> QED
    BY <2>2, <2>3
<1>8. PlansInv'
  BY <1>1, <1>4, <1>5 DEF PlansInv, DownForReset, DownForRemoval, StartPlanned
<1>9. StartServes'
  BY <1>1, <1>5, <1>6, <1>7 DEF StartServes, OwnInstance
<1> QED
  BY <1>5, <1>8, <1>9

LEMMA StartServesPlan ==
  ASSUME NEW p \in Projects, p \in registered', Begin("start", p, StartPlan(p)), SetStarted(p)
  PROVE  PlansInv' /\ FrontFits' /\ StartServes'
<1> DEFINE todo == StartPlan(p)
<1>1. todo \in QuietPlans
  BY QuietPlanTypes
<1>2. todo \in StartPlans(p)
  <2>1. /\ <<"rules", p>> \in StartTasks \X {p} /\ <<"php", p>> \in StartTasks \X {p}
        /\ <<"port", p>> \in StartTasks \X {p} /\ <<"start", p>> \in StartTasks \X {p}
        /\ <<"apply", p>> \in StartTasks \X {p}
    BY DEF StartTasks
  <2> QED
    BY <2>1, ShortPlans DEF StartPlan, StartPlans
<1>3. /\ Len(todo) = 5 /\ todo[2] = <<"php", p>> /\ todo[4] = <<"start", p>>
      /\ todo[5] = <<"apply", p>>
  <2>1. \A a, b, c, d, e : /\ Len(<<a, b, c, d, e>>) = 5 /\ <<a, b, c, d, e>>[2] = b
                           /\ <<a, b, c, d, e>>[4] = d /\ <<a, b, c, d, e>>[5] = e
    OBVIOUS
  <2> QED
    BY <2>1 DEF StartPlan
<1>4. p \in registered' \cap started'
  BY DEF SetStarted
<1>5. 5 \in Nat /\ 5 # 0 /\ 2 \in 1 .. 5 /\ 4 \in 1 .. 5
  OBVIOUS
<1> HIDE DEF todo
<1>6. Begin("start", p, todo)
  BY DEF todo
<1> QED
  BY <1>1, <1>2, <1>3, <1>4, <1>5, <1>6, StartSetsOut

LEMMA PlansJoin ==
  ASSUME NEW s \in QuietPlans, NEW t \in QuietPlans, NEW p,
         s \in StartPlans(p), t \in StartPlans(p)
  PROVE  /\ s \o t \in QuietPlans /\ s \o t \in StartPlans(p)
         /\ Len(s \o t) = Len(s) + Len(t)
         /\ \A i \in 1 .. Len(s) + Len(t) :
              (s \o t)[i] = IF i <= Len(s) THEN s[i] ELSE t[i - Len(s)]
<1>1. s \o t \in StartPlans(p)
  BY ConcatProperties DEF StartPlans
<1>2. s \in Seq(QuietSteps) /\ t \in Seq(QuietSteps)
  BY DEF QuietPlans
<1>3. /\ s \o t \in Seq(QuietSteps)
      /\ Len(s \o t) = Len(s) + Len(t)
      /\ \A i \in 1 .. Len(s) + Len(t) :
           (s \o t)[i] = IF i <= Len(s) THEN s[i] ELSE t[i - Len(s)]
  BY <1>2, ConcatProperties
<1> QED
  BY <1>1, <1>3 DEF QuietPlans

LEMMA RestartServesPlan ==
  ASSUME NEW p \in registered, p \in Projects, RestartProject(p)
  PROVE  PlansInv' /\ FrontFits' /\ StartServes'
<1> DEFINE begin == <<<<"php", p>>, <<"rules", p>>>>
           mine == <<<<"port", p>>, <<"restart", p>>, <<"apply", p>>>>
           serves == <<<<"serve", p>>>>
<1>1. begin \in QuietPlans /\ mine \in QuietPlans /\ serves \in QuietPlans
  BY QuietPlanTypes
<1>2. begin \in StartPlans(p) /\ mine \in StartPlans(p) /\ serves \in StartPlans(p)
  <2>1. /\ <<"rules", p>> \in StartTasks \X {p} /\ <<"php", p>> \in StartTasks \X {p}
        /\ <<"port", p>> \in StartTasks \X {p} /\ <<"restart", p>> \in StartTasks \X {p}
        /\ <<"apply", p>> \in StartTasks \X {p} /\ <<"serve", p>> \in StartTasks \X {p}
    BY DEF StartTasks
  <2> QED
    BY <2>1, ShortPlans DEF StartPlans
<1>3. /\ Len(begin) = 2 /\ begin[1] = <<"php", p>>
      /\ Len(mine) = 3 /\ mine[2] = <<"restart", p>> /\ mine[3] = <<"apply", p>>
      /\ Len(serves) = 1 /\ serves[1] = <<"serve", p>>
  BY PlanLengths
<1>4. p \in registered' \cap started'
  BY DEF RestartProject, SetStarted, cfgVars
<1>5. OwnInstance(p)' = OwnInstance(p)
  BY DEF RestartProject, cfgVars, OwnInstance
<1>6. Begin("restart", p, begin \o IF OwnInstance(p) THEN mine ELSE serves)
  BY DEF RestartProject
<1> HIDE DEF begin, mine, serves
<1>7. CASE OwnInstance(p)
  <2>1. /\ begin \o mine \in QuietPlans /\ begin \o mine \in StartPlans(p)
        /\ Len(begin \o mine) = 5
        /\ (begin \o mine)[1] = <<"php", p>> /\ (begin \o mine)[4] = <<"restart", p>>
        /\ (begin \o mine)[5] = <<"apply", p>>
    <3>1. /\ begin \o mine \in QuietPlans /\ begin \o mine \in StartPlans(p)
          /\ Len(begin \o mine) = Len(begin) + Len(mine)
          /\ \A i \in 1 .. Len(begin) + Len(mine) :
               (begin \o mine)[i] = IF i <= Len(begin) THEN begin[i] ELSE mine[i - Len(begin)]
      BY <1>1, <1>2, PlansJoin
    <3> QED
      BY <1>3, <3>1
  <2>2. 5 \in Nat /\ 5 # 0 /\ 1 \in 1 .. 5 /\ 4 \in 1 .. 5
    OBVIOUS
  <2>3. Begin("restart", p, begin \o mine)
    BY <1>6, <1>7
  <2> QED
    BY <1>4, <2>1, <2>2, <2>3, StartSetsOut
<1>8. CASE ~OwnInstance(p)
  <2>1. /\ begin \o serves \in QuietPlans /\ begin \o serves \in StartPlans(p)
        /\ Len(begin \o serves) = 3
        /\ (begin \o serves)[1] = <<"php", p>> /\ (begin \o serves)[3] = <<"serve", p>>
    <3>1. /\ begin \o serves \in QuietPlans /\ begin \o serves \in StartPlans(p)
          /\ Len(begin \o serves) = Len(begin) + Len(serves)
          /\ \A i \in 1 .. Len(begin) + Len(serves) :
               (begin \o serves)[i] = IF i <= Len(begin) THEN begin[i] ELSE serves[i - Len(begin)]
      BY <1>1, <1>2, PlansJoin
    <3> QED
      BY <1>3, <3>1
  <2>2. 3 \in Nat /\ 3 # 0 /\ 1 \in 1 .. 3
    OBVIOUS
  <2>3. Begin("restart", p, begin \o serves)
    BY <1>6, <1>8
  <2> QED
    BY <1>4, <1>5, <1>8, <2>1, <2>2, <2>3, StartSetsOut
<1> QED
  BY <1>7, <1>8

LEMMA StepsOfPlan ==
  ASSUME NEW S, NEW s \in Seq(S)
  PROVE  \A i \in DOMAIN s : s[i] \in S
OBVIOUS

(* A removal and a share.                                                  *)
LEMMA MarkedSetsOut ==
  ASSUME NEW p \in Projects, RemoveProject(p) \/ Share(p)
  PROVE  PlansInv' /\ FrontFits' /\ StartServes'
<1>1. \A task, q : <<task, q>>[1] = task
  OBVIOUS
<1>2. CASE RemoveProject(p)
  <2> DEFINE todo == <<<<"try stop", p>>, <<"unregister", p>>, <<"settle", p>>>>
  <2>1. todo \in Seq(Steps) /\ todo \in RemovePlans(p)
    <3>1. /\ <<"try stop", p>> \in {"try stop", "unregister", "settle"} \X {p}
          /\ <<"unregister", p>> \in {"try stop", "unregister", "settle"} \X {p}
          /\ <<"settle", p>> \in {"try stop", "unregister", "settle"} \X {p}
      OBVIOUS
    <3> QED
      BY <3>1, ShortPlans, MarkedPlanTypes DEF RemovePlans
  <2>2. /\ Len(todo) = 3 /\ todo[1] = <<"try stop", p>> /\ todo[2] = <<"unregister", p>>
        /\ todo[3] = <<"settle", p>>
    BY PlanLengths
  <2>3. todo # <<>> /\ Head(todo) = <<"try stop", p>>
    <3>1. Len(<<>>) = 0
      OBVIOUS
    <3>2. todo # <<>>
      BY <2>2, <3>1
    <3>3. \A a, b, c : Head(<<a, b, c>>) = a
      OBVIOUS
    <3> QED
      BY <3>2, <3>3
  <2>4. job'.todo = todo /\ job'.op = "remove" /\ job'.project = p
    BY <1>2 DEF RemoveProject, Begin
  <2> HIDE DEF todo
  <2>5. FrontLast' /\ FrontFits'
    <3>1. "settle" \in FrontTasks /\ 3 \in Nat /\ 3 # 0
      BY DEF FrontTasks
    <3> QED
      BY <2>1, <2>2, <2>4, <3>1, SetsOut
  <2>6. ~Awaits({"clear", "wipe"})'
    <3>1. \A i \in DOMAIN todo : todo[i] \in {"try stop", "unregister", "settle"} \X {p}
      BY <2>1, StepsOfPlan DEF RemovePlans
    <3>2. \A i \in DOMAIN todo : todo[i][1] \notin {"clear", "wipe"}
      BY <3>1
    <3> QED
      BY <2>4, <3>2 DEF Awaits
  <2>7. DownForReset' /\ DownForRemoval'
    BY <2>1, <2>3, <2>4, <2>6 DEF DownForReset, DownForRemoval, Doing
  <2>8. StartPlanned' /\ StartServes'
    BY <2>4 DEF StartPlanned, StartServes
  <2> QED
    BY <2>5, <2>7, <2>8 DEF PlansInv
<1>3. CASE Share(p)
  <2> DEFINE todo == <<<<"share", p>>, <<"apply", p>>>>
  <2>1. todo \in Seq(Steps) /\ Len(todo) = 2 /\ todo[1] = <<"share", p>> /\ todo[2] = <<"apply", p>>
    BY PlanLengths, MarkedPlanTypes
  <2>2. job'.todo = todo /\ job'.op = "share"
    BY <1>3 DEF Share, Begin
  <2> HIDE DEF todo
  <2>3. FrontLast' /\ FrontFits'
    <3>1. "apply" \in FrontTasks /\ 2 \in Nat /\ 2 # 0
      BY DEF FrontTasks
    <3> QED
      BY <2>1, <2>2, <3>1, SetsOut
  <2>4. \A i \in DOMAIN job'.todo : job'.todo[i][1] \in {"share", "apply"}
    <3>1. DOMAIN job'.todo = 1 .. 2
      BY <2>1, <2>2, LenProperties
    <3> QED
      BY <1>1, <2>1, <2>2, <3>1
  <2>5. ~Awaits({"clear", "wipe"})' /\ ~Awaits({"unregister"})'
    BY <2>4 DEF Awaits
  <2>6. DownForReset' /\ DownForRemoval' /\ StartPlanned' /\ StartServes'
    BY <2>2, <2>5 DEF DownForReset, DownForRemoval, StartPlanned, StartServes
  <2> QED
    BY <2>3, <2>6 DEF PlansInv
<1> QED
  BY <1>2, <1>3

LEMMA ResetSetsOut ==
  ASSUME Reset
  PROVE  PlansInv' /\ FrontFits' /\ StartServes'
<1> DEFINE todo == <<<<"stop all", NoProject>>, <<"clear", NoProject>>, <<"wipe", NoProject>>>>
           tasks == {"stop all", "clear", "wipe"}
<1>1. todo \in Seq(Steps) /\ todo \in ResetPlans
  <2>1. /\ <<"stop all", NoProject>> \in tasks \X {NoProject}
        /\ <<"clear", NoProject>> \in tasks \X {NoProject}
        /\ <<"wipe", NoProject>> \in tasks \X {NoProject}
    OBVIOUS
  <2> QED
    BY <2>1, ShortPlans, ResetPlanType DEF ResetPlans
<1>2. /\ Len(todo) = 3 /\ todo[1] = <<"stop all", NoProject>>
      /\ todo[2] = <<"clear", NoProject>> /\ todo[3] = <<"wipe", NoProject>>
  BY PlanLengths
<1>3. todo # <<>> /\ Head(todo) = <<"stop all", NoProject>>
  <2>1. Len(<<>>) = 0
    OBVIOUS
  <2>2. todo # <<>>
    BY <1>2, <2>1
  <2>3. \A a, b, c : Head(<<a, b, c>>) = a
    OBVIOUS
  <2> QED
    BY <2>2, <2>3
<1>4. job'.todo = todo /\ job'.op = "reset"
  BY DEF Reset, Begin
<1>10. \A task, q : <<task, q>>[1] = task
  OBVIOUS
<1> HIDE DEF todo
<1>5. DOMAIN job'.todo = 1 .. 3
  BY <1>1, <1>2, <1>4, LenProperties
<1>6. FrontLast' /\ FrontFits'
  <2>1. 1 \in DOMAIN job'.todo /\ job'.todo[1][1] \in FrontTasks
    <3>1. 1 \in DOMAIN job'.todo
      BY <1>5
    <3>2. job'.todo[1][1] = "stop all"
      BY <1>10, <1>2, <1>4
    <3> QED
      BY <3>1, <3>2 DEF FrontTasks
  <2>2. /\ job'.todo[2][1] \in LateTasks /\ job'.todo[3][1] \in LateTasks
    BY <1>10, <1>2, <1>4 DEF LateTasks
  <2>3. \A i \in 1 .. 3 : i = 1 \/ i = 2 \/ i = 3
    OBVIOUS
  <2> QED
    BY <1>5, <2>1, <2>2, <2>3 DEF FrontLast, FrontFits, Awaits
<1>7. \A i \in DOMAIN job'.todo : job'.todo[i][1] \in tasks
  <2>1. \A i \in DOMAIN todo : todo[i] \in tasks \X {NoProject}
    BY <1>1, StepsOfPlan DEF ResetPlans
  <2>2. \A i \in DOMAIN todo : todo[i][1] \in tasks
    BY <2>1
  <2> QED
    BY <1>4, <2>2
<1>8. ~Awaits({"unregister"})'
  BY <1>7 DEF Awaits
<1>9. DownForReset' /\ DownForRemoval' /\ StartPlanned' /\ StartServes'
  BY <1>1, <1>3, <1>4, <1>8 DEF DownForReset, DownForRemoval, StartPlanned, StartServes, Doing
<1> QED
  BY <1>6, <1>9 DEF PlansInv

(* Operations that leave wharf.json alone.                                 *)
LEMMA FileKept ==
  ASSUME Pinned, OwnFits, UNCHANGED <<registered, pin, port, own, edited>>
  PROVE  Pinned' /\ OwnFits'
BY DEF Pinned, OwnFits, Up

(* An operation with nothing to do.                                        *)
LEMMA NothingToDo ==
  ASSUME ServesInv, job = Idle, job' = job, UNCHANGED <<front, stale, edited>>,
         ~edited /\ InLine => InLine'
  PROVE  PlansInv' /\ FrontFits' /\ StartServes'
<1>1. job'.todo = <<>> /\ job'.op = "none" /\ job.todo = <<>>
  BY DEF Idle
<1>2. PlansInv' /\ StartServes'
  BY <1>1, NoSteps DEF PlansInv, StartPlanned, StartServes
<1>3. ~Awaits(FrontTasks) /\ FrontFits
  BY <1>1 DEF Awaits, ServesInv
<1> QED
  BY <1>2, <1>3 DEF FrontFits, Smooth

(* A start that finds its project shown as running.                        *)
LEMMA AlreadySetsOut ==
  ASSUME ServesInv, NEW p, Begin("already", p, <<>>),
         UNCHANGED <<registered, active, pin, port, started, front, stale, edited>>
  PROVE  PlansInv' /\ FrontFits' /\ StartServes'
<1>1. /\ job'.todo = <<>> /\ job'.op = "already" /\ job.todo = <<>>
      /\ ~job.err /\ job.calm
  BY DEF Begin, Idle
<1>2. PlansInv' /\ StartServes'
  BY <1>1, NoSteps DEF PlansInv, StartPlanned, StartServes
<1>3. ~Awaits(FrontTasks) /\ FrontFits
  BY <1>1 DEF Awaits, ServesInv
<1>4. InLine => InLine'
  BY RoutesKept DEF InLine
<1> QED
  BY <1>1, <1>2, <1>3, <1>4 DEF FrontFits, Smooth

LEMMA PlainOperationServes ==
  ASSUME ServesInv,
         \/ SetPHPVersion \/ FollowNetwork \/ StopAll \/ Reset \/ Shutdown
         \/ \E p \in Projects :
              \/ StartProject(p) \/ StopProject(p) \/ RestartProject(p) \/ RemoveProject(p)
              \/ StartAdded(p) \/ Share(p) \/ Unshare(p)
  PROVE  PlansInv' /\ Pinned' /\ OwnFits' /\ FrontFits' /\ StartServes'
<1>1. UNCHANGED <<cfgVars, processes, stale, edited>>
  BY DEF StartProject, StopProject, RestartProject, RemoveProject, StartAdded, Share, Unshare,
         SetPHPVersion, FollowNetwork, StopAll, Reset, Shutdown
<1>2. /\ UNCHANGED <<registered, active, pin, port, lan>>
      /\ UNCHANGED <<front, own, php, stale, edited>>
  BY <1>1 DEF cfgVars, processes
<1>3. Pinned' /\ OwnFits'
  BY <1>2, FileKept DEF ServesInv
<1>4. ASSUME NEW p \in Projects, StartProject(p) \/ StartAdded(p)
      PROVE  PlansInv' /\ FrontFits' /\ StartServes'
  <2>1. CASE Begin("start", p, StartPlan(p)) /\ SetStarted(p) /\ p \in registered
    BY <1>2, <2>1, StartServesPlan
  <2>2. CASE UNCHANGED <<job, ledgers>> /\ job = Idle
    <3>1. started' = started
      BY <2>2 DEF ledgers
    <3> QED
      BY <1>2, <2>2, <3>1, NothingToDo, RoutesKept
  <2>3. CASE Begin("already", p, <<>>) /\ UNCHANGED ledgers
    BY <1>2, <2>3, AlreadySetsOut DEF ledgers
  <2> QED
    BY <1>4, <2>1, <2>2, <2>3 DEF StartProject, StartAdded, StartLocked
<1>5. ASSUME NEW p \in Projects, RestartProject(p)
      PROVE  PlansInv' /\ FrontFits' /\ StartServes'
  BY <1>5, RestartServesPlan DEF RestartProject
<1>6. ASSUME NEW p \in Projects, RemoveProject(p) \/ Share(p)
      PROVE  PlansInv' /\ FrontFits' /\ StartServes'
  BY <1>6, MarkedSetsOut
<1>7. ASSUME NEW p \in Projects, StopProject(p) \/ Unshare(p)
      PROVE  PlansInv' /\ FrontFits' /\ StartServes'
  BY <1>7, ShortPlansSetOut DEF StopProject, Unshare
<1>8. CASE SetPHPVersion \/ FollowNetwork \/ StopAll \/ Shutdown
  BY <1>3, <1>8, ShortPlansSetOut DEF SetPHPVersion, FollowNetwork, StopAll, Shutdown
<1> QED
  BY <1>3, <1>4, <1>5, <1>6, <1>7, <1>8, ResetSetsOut

LEMMA UpdateSettingsServes ==
  ASSUME ServesInv, NEW p \in Projects, NEW server, UpdateSettings(p, server)
  PROVE  PlansInv' /\ Pinned' /\ OwnFits' /\ FrontFits' /\ StartServes'
<1>1. /\ TypeOK /\ Pinned /\ OwnFits
      /\ job = Idle /\ p \in registered /\ pin' = [pin EXCEPT ![p] = server]
      /\ UNCHANGED <<registered, active, port, started, front, own, stale, edited>>
  BY DEF ServesInv, LedgersInv, UpdateSettings, ledgers, processes
<1>2. \A q \in Projects : q # p => pin'[q] = pin[q]
  BY <1>1 DEF TypeOK
<1>3. Pinned' /\ OwnFits'
  BY <1>1, <1>2 DEF Pinned, OwnFits, Up
<1>4. CASE p \in started
  <2> DEFINE rest == <<<<"php", p>>, <<"port", p>>, <<"restart", p>>, <<"apply", p>>>>
             Plan(first) == first \o rest
  <2>1. PICK first \in {<<<<"evict", p>>>>, <<>>} : Begin("settings", p, first \o rest)
    BY <1>4 DEF UpdateSettings
  <2>2. first \in QuietPlans /\ rest \in QuietPlans
    BY QuietPlanTypes
  <2>3. Len(rest) = 4 /\ rest[4] = <<"apply", p>>
    <3>1. \A a, b, c, d : Len(<<a, b, c, d>>) = 4 /\ <<a, b, c, d>>[4] = d
      OBVIOUS
    <3> QED
      BY <3>1
  <2> HIDE DEF rest
  <2>4. /\ first \o rest \in QuietPlans
        /\ Len(first \o rest) = Len(first) + 4
        /\ (first \o rest)[Len(first) + 4] = <<"apply", p>>
        /\ Len(first) \in Nat
    <3>1. first \in Seq(QuietSteps) /\ rest \in Seq(QuietSteps)
      BY <2>2 DEF QuietPlans
    <3>2. /\ first \o rest \in Seq(QuietSteps)
          /\ Len(first \o rest) = Len(first) + Len(rest)
          /\ \A i \in 1 .. Len(first) + Len(rest) :
               (first \o rest)[i] = IF i <= Len(first) THEN first[i] ELSE rest[i - Len(first)]
      BY <3>1, ConcatProperties
    <3>3. Len(first) \in Nat
      BY <3>1, LenProperties
    <3>4. (first \o rest)[Len(first) + 4] = rest[4]
      BY <2>3, <3>2, <3>3
    <3> QED
      BY <2>3, <3>2, <3>3, <3>4 DEF QuietPlans
  <2>5. Len(first) + 4 \in Nat /\ Len(first) + 4 # 0
    BY <2>4
  <2>6. "apply" \in FrontTasks /\ "settings" \notin {"start", "restart"}
    BY DEF FrontTasks
  <2>7. PlansInv' /\ FrontFits' /\ StartServes'
    BY <2>1, <2>4, <2>5, <2>6, ShortSetsOut
  <2> QED
    BY <1>3, <2>7
<1>5. CASE p \notin started
  <2>1. job' = job
    BY <1>5 DEF UpdateSettings
  <2>2. ServedRoutes' = ServedRoutes
    <3>1. \A q \in Projects : q # p => OwnInstance(q)' = OwnInstance(q)
      BY <1>1, <1>2 DEF OwnInstance
    <3> QED
      BY <1>1, <1>5, <3>1 DEF ServedRoutes
  <2>3. InLine => InLine'
    BY <1>1, <2>2 DEF InLine, Up
  <2> QED
    BY <1>1, <1>3, <2>1, <2>3, NothingToDo
<1> QED
  BY <1>4, <1>5

LEMMA AddProjectServes ==
  ASSUME ServesInv, NEW p \in Projects, NEW server, NEW start, AddProject(p, server, start)
  PROVE  PlansInv' /\ Pinned' /\ OwnFits' /\ FrontFits' /\ StartServes'
<1>1. /\ TypeOK /\ LedgersAgree /\ Pinned /\ OwnFits
      /\ job = Idle /\ job' = job /\ p \notin registered /\ registered' = registered \cup {p}
      /\ UNCHANGED <<active, started, front, own, stale, edited>>
  BY DEF ServesInv, LedgersInv, AddProject, ledgers, processes
<1>2. \A q \in Projects : q # p => pin'[q] = pin[q] /\ port'[q] = port[q]
  BY <1>1 DEF AddProject, TypeOK
<1>3. Pinned'
  BY <1>1, <1>2 DEF Pinned
<1>4. OwnFits'
  <2>1. ~edited => ~Up(own[p])
    BY <1>1 DEF OwnFits
  <2> QED
    BY <1>1, <1>2, <2>1 DEF OwnFits, Up
<1>5. ~edited /\ InLine => InLine'
  <2>1. SUFFICES ASSUME ~edited, InLine
                 PROVE  InLine'
    OBVIOUS
  <2>2. p \notin started
    BY <1>1, <2>1 DEF LedgersAgree
  <2>3. \A q \in Projects : q # p => OwnInstance(q)' = OwnInstance(q)
    BY <1>1, <1>2 DEF OwnInstance
  <2>4. ServedRoutes' = ServedRoutes
    BY <1>1, <1>2, <2>2, <2>3 DEF ServedRoutes
  <2> QED
    BY <1>1, <2>1, <2>4 DEF InLine, Up
<1> QED
  BY <1>1, <1>3, <1>4, <1>5, NothingToDo

LEMMA SetWebserverServes ==
  ASSUME ServesInv, NEW server, SetWebserver(server)
  PROVE  PlansInv' /\ Pinned' /\ OwnFits' /\ FrontFits' /\ StartServes'
<1>1. /\ TypeOK /\ job = Idle
      /\ UNCHANGED <<registered, pin, port, front, own, php, stale, edited>>
  BY DEF ServesInv, LedgersInv, SetWebserver, processes
<1>2. Pinned' /\ OwnFits'
  BY <1>1, FileKept DEF ServesInv
<1>3. CASE AnyRunning
  BY <1>1, <1>2, <1>3, SwitchSetsOut DEF SetWebserver
<1>4. CASE ~AnyRunning
  <2>1. job' = job
    BY <1>4 DEF SetWebserver
  <2>2. InLine'
    BY <1>1, <1>4 DEF AnyRunning, InLine, Up
  <2> QED
    BY <1>1, <1>2, <2>1, <2>2, NothingToDo
<1> QED
  BY <1>3, <1>4

LEMMA OperationServes ==
  ASSUME ServesInv, Operation
  PROVE  PlansInv' /\ Pinned' /\ OwnFits' /\ FrontFits' /\ StartServes'
<1>1. CASE \E p \in Projects :
             \/ StartProject(p) \/ StopProject(p) \/ RestartProject(p) \/ RemoveProject(p)
             \/ StartAdded(p) \/ Share(p) \/ Unshare(p)
  BY <1>1, PlainOperationServes
<1>2. CASE SetPHPVersion \/ FollowNetwork \/ StopAll \/ Reset \/ Shutdown
  BY <1>2, PlainOperationServes
<1>3. CASE \E p \in Projects : \E server \in Servers \cup {NoServer} :
             \/ UpdateSettings(p, server)
             \/ \E start \in BOOLEAN : AddProject(p, server, start)
  BY <1>3, UpdateSettingsServes, AddProjectServes
<1>4. CASE \E server \in Servers : SetWebserver(server)
  BY <1>4, SetWebserverServes
<1> QED
  BY <1>1, <1>2, <1>3, <1>4 DEF Operation

(* Nothing of it is about other programs' ports.                           *)
LEMMA ServesKept ==
  ASSUME UNCHANGED <<registered, active, pin, port, started, front, own, php, job, stale, edited>>
  PROVE  (PlansInv /\ Pinned /\ OwnFits /\ FrontFits /\ StartServes)' =
           (PlansInv /\ Pinned /\ OwnFits /\ FrontFits /\ StartServes)
<1>1. /\ \A tasks : Awaits(tasks)' = Awaits(tasks)
      /\ AnyRunning' = AnyRunning /\ InLine' = InLine
      /\ \A p : OwnInstance(p)' = OwnInstance(p)
  BY RoutesKept DEF Awaits, AnyRunning, Up, OwnInstance
<1>2. PlansInv' = PlansInv
  BY <1>1 DEF PlansInv, FrontLast, DownForReset, DownForRemoval, StartPlanned, Doing, Up
<1>3. Pinned' = Pinned /\ OwnFits' = OwnFits
  BY DEF Pinned, OwnFits, Up
<1>4. FrontFits' = FrontFits
  BY <1>1 DEF FrontFits, Smooth
<1>5. StartServes' = StartServes
  BY <1>1 DEF StartServes, Smooth, Up
<1> QED
  BY <1>2, <1>3, <1>4, <1>5

LEMMA CrashServes ==
  ASSUME ServesInv, Crash
  PROVE  PlansInv' /\ Pinned' /\ OwnFits' /\ FrontFits' /\ StartServes'
<1>1. /\ TypeOK /\ PlansInv /\ Pinned /\ OwnFits /\ FrontFits
      /\ UNCHANGED <<registered, active, pin, port, started, stale, edited>>
      /\ job'.op = job.op /\ job'.project = job.project /\ job'.todo = job.todo
  BY DEF ServesInv, LedgersInv, Crash, NotCalm, cfgVars, ledgers, TypeOK, Jobs
<1>2. \A p \in Projects : own'[p] = own[p] \/ ~Up(own[p])'
  BY <1>1 DEF Crash, FrontCrashes, PHPCrashes, OwnCrashes, Up, Down, TypeOK
<1>3. front' = front \/ ~Up(front)'
  BY DEF Crash, FrontCrashes, PHPCrashes, OwnCrashes, Up, Down
<1>4. php' = php \/ ~Up(php)'
  BY DEF Crash, FrontCrashes, PHPCrashes, OwnCrashes, phpVars, Up, Down
<1>5. ~AnyRunning => ~AnyRunning'
  BY <1>2, <1>3, <1>4 DEF AnyRunning, Up
<1>6. \A tasks : Awaits(tasks)' = Awaits(tasks)
  BY <1>1 DEF Awaits
<1>7. PlansInv'
  <2>1. FrontLast' /\ StartPlanned'
    BY <1>1 DEF PlansInv, FrontLast, StartPlanned
  <2>2. DownForReset'
    BY <1>1, <1>5, <1>6 DEF PlansInv, DownForReset, Doing
  <2>3. DownForRemoval'
    BY <1>1, <1>2, <1>6 DEF PlansInv, DownForRemoval, Doing, Up
  <2> QED
    BY <2>1, <2>2, <2>3 DEF PlansInv
<1>8. Pinned' /\ OwnFits'
  BY <1>1, <1>2 DEF Pinned, OwnFits, Up
<1>9. Smooth' => Smooth /\ job'.op = "none"
  <2>1. job \in Jobs
    BY <1>1 DEF TypeOK
  <2>2. job' = [job EXCEPT !.calm = (job = Idle)]
    BY DEF Crash, NotCalm
  <2>3. job'.calm <=> job = Idle
    BY <2>1, <2>2 DEF Jobs
  <2> QED
    BY <1>1, <2>3 DEF Smooth, Idle
<1>10. FrontFits'
  <2>1. SUFFICES ASSUME Smooth', ~stale', ~Awaits(FrontTasks)'
                 PROVE  InLine'
    BY DEF FrontFits
  <2>2. InLine
    BY <1>1, <1>6, <1>9, <2>1 DEF FrontFits
  <2> QED
    BY <1>1, <1>3, <2>2, RoutesKept DEF InLine
<1>11. StartServes'
  BY <1>9 DEF StartServes
<1> QED
  BY <1>7, <1>8, <1>10, <1>11

LEMMA HandEditServes ==
  ASSUME ServesInv, HandEdit
  PROVE  PlansInv' /\ Pinned' /\ OwnFits' /\ FrontFits' /\ StartServes'
<1>1. /\ TypeOK /\ Pinned
      /\ job = Idle /\ job' = job /\ UNCHANGED <<front, own, php, started>>
      /\ edited' = (edited \/ AnyRunning \/ started # {})
  BY DEF ServesInv, LedgersInv, HandEdit, ledgers, processes
<1>2. job'.todo = <<>> /\ job'.op = "none"
  BY <1>1 DEF Idle
<1>3. PlansInv' /\ StartServes'
  BY <1>2, NoSteps DEF PlansInv, StartPlanned, StartServes
<1>4. Pinned'
  <2>1. CASE \E p \in registered : Forget(p)
    BY <1>1, <2>1 DEF Forget, Pinned, TypeOK
  <2>2. CASE \E p \in Projects : WriteEntry(p)
    BY <1>1, <2>2 DEF WriteEntry, Pinned, TypeOK
  <2>3. CASE UNCHANGED <<registered, pin>>
    BY <1>1, <2>3 DEF Pinned
  <2> QED
    BY <2>1, <2>2, <2>3 DEF HandEdit
<1>5. ~edited' => ~AnyRunning'
  <2>1. ~edited' => ~AnyRunning
    BY <1>1
  <2> QED
    BY <1>1, <2>1 DEF AnyRunning, Up
<1>6. OwnFits' /\ FrontFits'
  BY <1>5 DEF AnyRunning, OwnFits, FrontFits, InLine, Smooth
<1> QED
  BY <1>3, <1>4, <1>6

LEMMA EnvironmentServes ==
  ASSUME ServesInv, Environment
  PROVE  PlansInv' /\ Pinned' /\ OwnFits' /\ FrontFits' /\ StartServes'
<1>1. ASSUME NEW n, PortTaken(n) \/ PortReleased(n)
      PROVE  PlansInv' /\ Pinned' /\ OwnFits' /\ FrontFits' /\ StartServes'
  <2>1. /\ UNCHANGED <<registered, active, pin, port, started, front, own, php>>
        /\ UNCHANGED <<job, stale, edited>>
    BY <1>1 DEF PortTaken, PortReleased, cfgVars, ledgers, processes
  <2> QED
    BY <2>1, ServesKept DEF ServesInv
<1> QED
  BY <1>1, CrashServes, HandEditServes DEF Environment

LEMMA ServesInvInitially == Init => ServesInv
<1>1. SUFFICES ASSUME Init
               PROVE  ServesInv
  OBVIOUS
<1>2. job.todo = <<>> /\ job.op = "none" /\ ~AnyRunning
  BY <1>1 DEF Init, Idle, AnyRunning, Up, Down
<1>3. \A tasks : ~Awaits(tasks)
  BY <1>2 DEF Awaits
<1>4. PlansInv
  <2>1. DOMAIN job.todo = {}
    BY <1>2
  <2>2. \A S : job.todo \in Seq(S)
    BY <1>2, EmptySeq
  <2> QED
    BY <1>2, <1>3, <2>1, <2>2 DEF StartPlans, PlansInv, FrontLast, DownForReset, DownForRemoval,
                                  StartPlanned
<1>5. OwnFits /\ FrontFits /\ StartServes
  BY <1>2, NothingRuns DEF StartServes
<1>6. Pinned
  BY <1>1 DEF Init, Pinned
<1> QED
  BY <1>1, <1>4, <1>5, <1>6, LedgersInvInitially DEF ServesInv

LEMMA ServesInvStep ==
  ASSUME ServesInv, [Next]_vars
  PROVE  ServesInv'
<1>1. LedgersInv'
  BY LedgersInvStep DEF ServesInv
<1>2. CASE Next
  BY <1>1, <1>2, StepServes, OperationServes, EnvironmentServes DEF Next, ServesInv
<1>3. CASE UNCHANGED vars
  BY <1>1, <1>3, ServesKept DEF vars, ServesInv
<1> QED
  BY <1>2, <1>3

LEMMA InvShows ==
  ASSUME ServesInv
  PROVE  ServesWhatItShows
<1>1. SUFFICES ASSUME job = Idle, ~stale, ~edited
               PROVE  /\ Up(front) => \A p \in Projects :
                                        front.conf.routes[p] # Unserved => p \in started
                      /\ \A p \in registered : Status(p) = "running" =>
                           /\ front.conf.server = active
                           /\ front.conf.routes[p] =
                                IF OwnInstance(p) THEN own[p].conf.port ELSE Direct
  BY DEF ServesWhatItShows
<1>2. TypeOK /\ LedgersAgree /\ OwnFits
  BY DEF ServesInv, LedgersInv
<1>3. InLine
  <2>1. Smooth /\ ~Awaits(FrontTasks)
    BY <1>1 DEF Smooth, Idle, Awaits
  <2> QED
    BY <1>1, <2>1 DEF ServesInv, FrontFits
<1>4. \A p \in Projects :
        ServedRoutes[p] = IF p \notin registered \cap started THEN Unserved
                          ELSE IF OwnInstance(p) THEN port[p] ELSE Direct
  BY DEF ServedRoutes
<1>5. ASSUME NEW p \in Projects, Up(front), front.conf.routes[p] # Unserved
      PROVE  p \in started
  BY <1>3, <1>4, <1>5 DEF InLine
<1>6. ASSUME NEW p \in registered, Status(p) = "running"
      PROVE  /\ front.conf.server = active
             /\ front.conf.routes[p] = IF OwnInstance(p) THEN own[p].conf.port ELSE Direct
  <2>1. p \in Projects /\ p \in started
    BY <1>2, <1>6 DEF Status, TypeOK
  <2>2. Up(front) /\ (OwnInstance(p) => Up(own[p]))
    BY <1>6, <2>1 DEF Status, Up
  <2>3. OwnInstance(p) => own[p].conf.port = port[p]
    BY <1>1, <1>2, <2>1, <2>2 DEF OwnFits
  <2> QED
    BY <1>3, <1>4, <1>6, <2>1, <2>2, <2>3 DEF InLine
<1> QED
  BY <1>5, <1>6

(* Between operations, once failures and hand-edits are made up for, the   *)
(* front door serves started projects only, and a project shown as running *)
(* is answered by the webserver and at the port it is meant to be          *)
(* (applyFrontDoor, settleFrontDoor, projectStatus).                       *)
THEOREM ShownIsServed == Spec => []ServesWhatItShows
<1>1. ServesInv /\ [Next]_vars => ServesInv'
  BY ServesInvStep
<1>2. ServesInv => ServesWhatItShows
  BY InvShows
<1> QED
  BY <1>1, <1>2, ServesInvInitially, PTL DEF Spec

-----------------------------------------------------------------------------
(* What a start finds that returns at once.  Unless PHP crashed, or a      *)
(* reset that failed stopped it, a started project has PHP behind it, or   *)
(* it is the one that is being started, and PHP is still to come or failed.*)
AlreadyServed ==
  job.op = "already" =>
    /\ job.todo = <<>> /\ job.project \in started
    /\ Smooth /\ ~stale => Served(job.project)
FirstStart ==
  /\ job.op \in {"start", "restart"} /\ started = {job.project}
  /\ Awaits({"php"}) \/ (job.err /\ job.todo = <<>>)
PHPBehind == phpLost \/ Up(php) \/ started = {} \/ FirstStart

(* A step of an operation: what it does to the job and to what is started. *)
LEMMA StepsAdvance ==
  ASSUME TypeOK, Step, ~Return
  PROVE  \E task, p : /\ Doing(task, p) /\ Moves
                      /\ started' = started \/ started' = {}
                      /\ task = "php" => EnsurePHP(p)
<1>1. CASE StopEverything \/ Clear \/ Wipe
  <2>1. started' = started \/ started' = {}
    BY <1>1 DEF StopEverything, Clear, Wipe, ClearStarted, ledgers
  <2>2. \E task \in {"stop all", "clear", "wipe"} : Doing(task, NoProject)
    BY <1>1 DEF StopEverything, Clear, Wipe
  <2>3. Moves
    BY <1>1, JobMoves DEF StopEverything, Clear, Wipe
  <2> QED
    BY <2>1, <2>2, <2>3
<1>2. ASSUME NEW p \in Projects \cup {NoProject}, Apply(p) \/ Reload(p) \/ EnsurePHP(p)
      PROVE  \E task : /\ Doing(task, p) /\ Moves /\ started' = started
                       /\ task = "php" => EnsurePHP(p)
  <2>1. started' = started
    BY <1>2 DEF Apply, Reload, EnsurePHP, ledgers
  <2>2. \E task \in {"apply", "reload", "php"} :
          Doing(task, p) /\ (task = "php" => EnsurePHP(p))
    BY <1>2 DEF Apply, Reload, EnsurePHP
  <2>3. \E call : Then(call) \/ ThenAnyway(call) \/ (job.op = "share" /\ ThenTakeBack(call))
    BY <1>2 DEF Apply, Reload, EnsurePHP
  <2>4. Moves
    BY <2>3, JobMoves
  <2> QED
    BY <2>1, <2>2, <2>4
<1>3. ASSUME NEW p \in Projects,
             \/ Serve(p) \/ Settle(p) \/ TakeBack(p) \/ Reapply(p) \/ CheckRules(p) \/ OwnPort(p)
             \/ StartOwn(p) \/ RestartOwn(p) \/ StopOwn(p) \/ TryStopOwn(p) \/ Evict(p)
             \/ Unregister(p) \/ SharePort(p)
      PROVE  \E task : Doing(task, p) /\ Moves /\ started' = started /\ task # "php"
  <2>1. started' = started
    BY <1>3 DEF Serve, Settle, TakeBack, Reapply, CheckRules, OwnPort, StartOwn, RestartOwn,
                StopOwn, TryStopOwn, Evict, OwnIs, Unregister, SharePort, ledgers
  <2>2. \E task \in Tasks \ {"php"} : Doing(task, p)
    BY <1>3 DEF Serve, Settle, TakeBack, Reapply, CheckRules, OwnPort, StartOwn, RestartOwn,
                StopOwn, TryStopOwn, Evict, Unregister, SharePort, Tasks
  <2>3. \E call : GoOn \/ GiveUp \/ Then(call) \/ ThenAnyway(call)
    BY <1>3 DEF Serve, Settle, TakeBack, Reapply, CheckRules, OwnPort, StartOwn, RestartOwn,
                StopOwn, TryStopOwn, Evict, Unregister, SharePort
  <2>4. Moves
    BY <2>3, JobMoves
  <2> QED
    BY <2>1, <2>2, <2>4
<1> QED
  BY <1>1, <1>2, <1>3 DEF Step

(* An operation begins while nothing else is at work: what it sets out on. *)
LEMMA OperationsBegin ==
  ASSUME Operation
  PROVE  /\ job = Idle
         /\ \/ job' = job /\ started' = started
            \/ /\ job'.op \notin {"already", "start", "restart"}
               /\ started' \subseteq started
            \/ \E p \in registered \cap Projects :
                 \/ Begin("already", p, <<>>) /\ Status(p) = "running" /\ started' = started
                 \/ Begin("start", p, StartPlan(p)) /\ SetStarted(p)
                 \/ RestartProject(p)
<1>1. ASSUME NEW p \in Projects, StartProject(p) \/ StartAdded(p)
      PROVE  /\ job = Idle
             /\ \/ job' = job /\ started' = started
                \/ /\ p \in registered
                   /\ \/ Begin("already", p, <<>>) /\ Status(p) = "running" /\ started' = started
                      \/ Begin("start", p, StartPlan(p)) /\ SetStarted(p)
  BY <1>1 DEF StartProject, StartAdded, StartLocked, Begin, ledgers
<1>2. ASSUME NEW p \in Projects,
             StopProject(p) \/ RemoveProject(p) \/ Share(p) \/ Unshare(p)
      PROVE  /\ job = Idle /\ job'.op \notin {"already", "start", "restart"}
             /\ started' \subseteq started
  <2>1. \E op \in {"stop", "remove", "share", "unshare"} : \E todo : Begin(op, p, todo)
    BY <1>2 DEF StopProject, RemoveProject, Share, Unshare
  <2>2. started' \subseteq started
    BY <1>2 DEF StopProject, RemoveProject, Share, Unshare, SetStopped, ledgers
  <2> QED
    BY <2>1, <2>2 DEF Begin
<1>3. ASSUME NEW p \in Projects, RestartProject(p)
      PROVE  job = Idle /\ p \in registered
  BY <1>3 DEF RestartProject, Begin
<1>4. ASSUME NEW p \in Projects, NEW server, NEW start,
             UpdateSettings(p, server) \/ AddProject(p, server, start)
      PROVE  /\ job = Idle /\ started' = started
             /\ job' = job \/ job'.op \notin {"already", "start", "restart"}
  BY <1>4 DEF UpdateSettings, AddProject, Begin, ledgers
<1>5. CASE SetPHPVersion \/ FollowNetwork \/ StopAll \/ Reset \/ Shutdown
  <2>1. job = Idle /\ job'.op \notin {"already", "start", "restart"}
    <3>1. \E op \in {"php", "network", "stopAll", "reset", "shutdown"} :
            \E todo : Begin(op, NoProject, todo)
      BY <1>5 DEF SetPHPVersion, FollowNetwork, StopAll, Reset, Shutdown
    <3> QED
      BY <3>1 DEF Begin
  <2>2. started' \subseteq started
    BY <1>5 DEF SetPHPVersion, FollowNetwork, StopAll, Reset, Shutdown, ClearStarted, ledgers
  <2> QED
    BY <2>1, <2>2
<1>6. CASE \E server \in Servers : SetWebserver(server)
  <2>1. PICK server \in Servers : SetWebserver(server)
    BY <1>6
  <2> QED
    BY <2>1 DEF SetWebserver, Begin, ledgers
<1> QED
  BY <1>1, <1>2, <1>3, <1>4, <1>5, <1>6 DEF Operation

LEMMA AlreadyStays ==
  ASSUME ServesInv, AlreadyServed, Next
  PROVE  AlreadyServed'
<1>1. SUFFICES ASSUME job'.op = "already"
               PROVE  /\ job'.todo = <<>> /\ (job.project \in started)'
                      /\ Smooth' /\ ~stale' => Served(job.project)'
  BY DEF AlreadyServed
<1>2. TypeOK /\ job \in Jobs /\ (job = Idle => job.op = "none")
  BY DEF ServesInv, LedgersInv, TypeOK, Idle
<1>3. CASE Step
  <2>1. ~Return
    BY <1>1 DEF Return, Idle
  <2>2. job.todo # <<>> /\ job'.op = job.op
    BY <1>2, <1>3, <2>1, StepsAdvance DEF Doing, Moves
  <2> QED
    BY <1>1, <2>2 DEF AlreadyServed
<1>4. CASE Operation
  <2>1. job = Idle /\ job' # job
    BY <1>1, <1>2, <1>4, OperationsBegin
  <2>2. PICK p \in registered \cap Projects :
          Begin("already", p, <<>>) /\ Status(p) = "running" /\ started' = started
    <3>1. \A p, todo : ~Begin("start", p, todo) /\ ~Begin("restart", p, todo)
      BY <1>1 DEF Begin
    <3> QED
      BY <1>1, <1>4, <2>1, <3>1, OperationsBegin DEF RestartProject
  <2>3. job'.todo = <<>> /\ job'.project = p
    BY <2>2 DEF Begin
  <2>4. p \in started /\ Up(front) /\ (OwnInstance(p) => Up(own[p]))
    BY <2>2 DEF Status, Up
  <2>5. ServesWhatItShows
    BY InvShows
  <2>6. UNCHANGED <<active, pin, front, own, stale, edited>>
    <3>1. PICK q \in Projects : StartProject(q) \/ StartAdded(q)
      <4>1. \A q, todo, op : op # "already" => ~Begin(op, q, todo)
        BY <1>1 DEF Begin
      <4> QED
        BY <1>1, <1>4, <2>1, <4>1 DEF Operation, StopProject, RestartProject, RemoveProject,
             Share, Unshare, UpdateSettings, AddProject, SetWebserver, SetPHPVersion,
             FollowNetwork, StopAll, Reset, Shutdown
    <3> QED
      BY <3>1 DEF StartProject, StartAdded, cfgVars, processes
  <2>7. ~stale /\ ~edited => Served(p)
    BY <2>1, <2>2, <2>4, <2>5 DEF ServesWhatItShows, Served
  <2>8. Smooth' /\ ~stale' => Served(p)'
    BY <2>6, <2>7 DEF Smooth, Served, OwnInstance, Up
  <2> QED
    BY <2>2, <2>3, <2>4, <2>8
<1>5. CASE Environment
  <2>1. CASE HandEdit
    BY <1>1, <1>2, <2>1 DEF HandEdit
  <2>2. CASE Crash
    <3>1. /\ job' = [job EXCEPT !.calm = (job = Idle)]
          /\ started' = started
      BY <2>2 DEF Crash, NotCalm, ledgers
    <3>2. /\ job'.op = job.op /\ job'.todo = job.todo /\ job'.project = job.project
          /\ job'.calm = (job = Idle)
      BY <1>2, <3>1 DEF Jobs
    <3>3. ~Smooth'
      BY <1>1, <1>2, <3>2 DEF Smooth
    <3> QED
      BY <1>1, <3>1, <3>2, <3>3 DEF AlreadyServed
  <2>3. CASE \E n \in Ports : PortTaken(n) \/ PortReleased(n)
    <3>1. UNCHANGED <<active, pin, front, own, stale, edited, job, started>>
      BY <2>3 DEF PortTaken, PortReleased, cfgVars, processes, ledgers
    <3> QED
      BY <1>1, <3>1 DEF AlreadyServed, Smooth, Served, OwnInstance, Up
  <2> QED
    BY <1>5, <2>1, <2>2, <2>3 DEF Environment
<1> QED
  BY <1>3, <1>4, <1>5 DEF Next

(* PHP is left behind only by a crash, or with nothing started.            *)
LEMMA PHPStays ==
  ASSUME TypeOK, Next, ~phpLost', ~Up(php)', started' # {}
  PROVE  ~phpLost /\ ~Up(php)
<1>1. CASE UNCHANGED phpVars
  BY <1>1 DEF phpVars, Up
<1>2. CASE StopEverything
  BY <1>2 DEF StopEverything, ledgers
<1>3. CASE Clear
  BY <1>3 DEF Clear, ClearStarted
<1>4. ASSUME NEW p, EnsurePHP(p)
      PROVE  ~phpLost /\ ~Up(php)
  <2>1. PICK call \in {Fault(php)} \cup StartOf(php, NoConf, TRUE) :
          php' = call.process /\ phpLost' = (phpLost /\ call.result # "ok")
    BY <1>4 DEF EnsurePHP
  <2>2. call.result # "ok"
    <3>1. \A c \in StartOf(php, NoConf, TRUE) : c.result = "ok" => Up(c.process)
      BY OwnCalls
    <3>2. Fault(php).result # "ok"
      BY OwnCalls
    <3>3. ~Up(call.process)
      BY <2>1 DEF Up
    <3> QED
      BY <2>1, <3>1, <3>2, <3>3
  <2>3. Up(php) => call.process = php
    BY OwnCalls DEF StartOf
  <2> QED
    BY <2>1, <2>2, <2>3
<1>5. CASE Crash
  BY <1>5 DEF Crash, FrontCrashes, PHPCrashes, OwnCrashes, phpVars, Up
<1>6. CASE HandEdit \/ \E n \in Ports : PortTaken(n) \/ PortReleased(n)
  BY <1>1, <1>6 DEF HandEdit, PortTaken, PortReleased, processes, phpVars
<1>7. CASE Return \/ Wipe
  BY <1>1, <1>7 DEF Return, Wipe, processes, phpVars
<1>8. ASSUME NEW p,
             \/ Apply(p) \/ Reload(p) \/ Serve(p) \/ Settle(p) \/ TakeBack(p) \/ Reapply(p)
             \/ CheckRules(p) \/ OwnPort(p) \/ StartOwn(p) \/ RestartOwn(p) \/ StopOwn(p)
             \/ TryStopOwn(p) \/ Evict(p) \/ Unregister(p) \/ SharePort(p)
      PROVE  ~phpLost /\ ~Up(php)
  <2>1. UNCHANGED phpVars
    BY <1>8 DEF Apply, Reload, Serve, Settle, TakeBack, Reapply, CheckRules, OwnPort, StartOwn,
                RestartOwn, StopOwn, TryStopOwn, Evict, Unregister, SharePort, FrontIs, OwnIs,
                processes, phpVars
  <2> QED
    BY <1>1, <2>1
<1>9. CASE Operation
  <2>1. UNCHANGED processes
    BY <1>9 DEF Operation, StartProject, StartAdded, StopProject, RestartProject, RemoveProject,
                Share, Unshare, UpdateSettings, AddProject, SetWebserver, SetPHPVersion,
                FollowNetwork, StopAll, Reset, Shutdown
  <2> QED
    BY <1>1, <2>1 DEF processes, phpVars
<1> QED
  BY <1>2, <1>3, <1>4, <1>5, <1>6, <1>7, <1>8, <1>9 DEF Next, Step, Environment

(* A start or restart has PHP to come when it begins.                      *)
LEMMA PHPToCome ==
  ASSUME NEW p, (Begin("start", p, StartPlan(p)) /\ SetStarted(p)) \/ RestartProject(p)
  PROVE  /\ job'.op \in {"start", "restart"} /\ job'.project = p
         /\ Awaits({"php"})' /\ started' = started \cup {p}
<1>1. <<"php", p>>[1] = "php"
  OBVIOUS
<1>2. CASE Begin("start", p, StartPlan(p)) /\ SetStarted(p)
  <2>1. /\ job'.op = "start" /\ job'.project = p /\ job'.todo = StartPlan(p)
        /\ started' = started \cup {p}
    BY <1>2 DEF Begin, SetStarted
  <2>2. 2 \in DOMAIN StartPlan(p) /\ StartPlan(p)[2] = <<"php", p>>
    BY DEF StartPlan
  <2> QED
    BY <1>1, <2>1, <2>2 DEF Awaits
<1>3. CASE RestartProject(p)
  <2> DEFINE first == <<<<"php", p>>, <<"rules", p>>>>
             rest == IF OwnInstance(p) THEN <<<<"port", p>>, <<"restart", p>>, <<"apply", p>>>>
                                       ELSE <<<<"serve", p>>>>
             all == {"php", "rules", "port", "restart", "apply", "serve"} \X {p}
  <2>1. /\ job'.op = "restart" /\ job'.project = p /\ job'.todo = first \o rest
        /\ started' = started \cup {p}
    BY <1>3 DEF RestartProject, Begin, SetStarted
  <2>2. /\ first \in Seq(all) /\ rest \in Seq(all)
        /\ Len(first) = 2 /\ first[1] = <<"php", p>>
    <3>1. /\ <<"php", p>> \in all /\ <<"rules", p>> \in all /\ <<"port", p>> \in all
          /\ <<"restart", p>> \in all /\ <<"apply", p>> \in all /\ <<"serve", p>> \in all
      OBVIOUS
    <3> HIDE DEF all
    <3>2. first \in Seq(all) /\ rest \in Seq(all)
      BY <3>1, ShortPlans
    <3> QED
      BY <3>2, PlanLengths
  <2> HIDE DEF first, rest, all
  <2>3. /\ first \o rest \in Seq(all)
        /\ Len(first \o rest) = Len(first) + Len(rest) /\ Len(rest) \in Nat
        /\ \A i \in 1 .. Len(first) + Len(rest) :
             (first \o rest)[i] = IF i <= Len(first) THEN first[i] ELSE rest[i - Len(first)]
    BY <2>2, ConcatProperties, LenProperties
  <2>4. 1 \in DOMAIN job'.todo /\ job'.todo[1] = <<"php", p>>
    BY <2>1, <2>2, <2>3, LenProperties
  <2> QED
    BY <1>1, <2>1, <2>4 DEF Awaits
<1> QED
  BY <1>2, <1>3

LEMMA PHPBehindStays ==
  ASSUME TypeOK, PHPBehind, Next
  PROVE  PHPBehind'
<1>1. SUFFICES ASSUME ~phpLost', ~Up(php)', started' # {}
               PROVE  FirstStart'
  BY DEF PHPBehind
<1>2. started = {} \/ FirstStart
  BY <1>1, PHPStays DEF PHPBehind
<1>3. job \in Jobs /\ (job = Idle => job.op = "none")
  BY DEF TypeOK, Idle
<1>4. CASE Return
  <2>1. started # {}
    BY <1>1, <1>4 DEF Return, StartFailed, ledgers
  <2>2. FirstStart /\ ~Awaits({"php"})
    BY <1>2, <1>4, <2>1 DEF Return, Awaits
  <2>3. started' = started \ {job.project}
    BY <1>4, <2>2 DEF Return, FirstStart, StartFailed
  <2> QED
    BY <1>1, <2>2, <2>3 DEF FirstStart
<1>5. CASE Step /\ ~Return
  <2>1. PICK task, p : /\ Doing(task, p) /\ Moves
                       /\ started' = started \/ started' = {}
                       /\ task = "php" => EnsurePHP(p)
    BY <1>5, StepsAdvance
  <2>2. started' = started /\ FirstStart /\ Awaits({"php"})
    BY <1>1, <1>2, <2>1 DEF FirstStart, Doing
  <2>3. job'.op = job.op /\ job'.project = job.project /\ job.op # "share"
    BY <2>1, <2>2 DEF Moves, FirstStart
  <2>4. CASE job'.todo = <<>> /\ job'.err = TRUE
    BY <2>2, <2>3, <2>4 DEF FirstStart
  <2>5. CASE job'.todo = Tail(job.todo) /\ task # "php"
    <3>1. Awaits({"php"})'
      BY <2>1, <2>2, <2>5, AwaitsNext
    <3> QED
      BY <2>2, <2>3, <3>1 DEF FirstStart
  <2>6. CASE task = "php"
    <3>1. PICK call \in {Fault(php)} \cup StartOf(php, NoConf, TRUE) :
            php' = call.process /\ Then(call)
      BY <2>1, <2>6 DEF EnsurePHP
    <3>2. \A c \in StartOf(php, NoConf, TRUE) : c.result = "ok" => Up(c.process)
      BY OwnCalls
    <3>3. Fault(php).result # "ok" /\ ~Up(call.process)
      BY <1>1, <3>1, OwnCalls DEF Up
    <3>4. call.result # "ok"
      BY <3>1, <3>2, <3>3
    <3>5. job'.todo = <<>> /\ job'.err = TRUE
      BY <1>3, <3>1, <3>4 DEF Then, GiveUp, Jobs
    <3> QED
      BY <2>4, <3>5
  <2> QED
    BY <2>1, <2>3, <2>4, <2>5, <2>6 DEF Moves
<1>6. CASE Operation
  <2>1. job = Idle /\ started = {}
    BY <1>2, <1>3, <1>6, OperationsBegin DEF FirstStart
  <2>2. PICK p : (Begin("start", p, StartPlan(p)) /\ SetStarted(p)) \/ RestartProject(p)
    BY <1>1, <1>6, <2>1, OperationsBegin
  <2> QED
    BY <2>1, <2>2, PHPToCome DEF FirstStart
<1>7. CASE Environment
  <2>1. started' = started /\ job'.op = job.op
    BY <1>3, <1>7 DEF Environment, Crash, NotCalm, HandEdit, PortTaken, PortReleased, ledgers, Jobs
  <2>2. job'.todo = job.todo /\ job'.project = job.project /\ job'.err = job.err
    BY <1>3, <1>7 DEF Environment, Crash, NotCalm, HandEdit, PortTaken, PortReleased, Jobs
  <2> QED
    BY <1>1, <1>2, <2>1, <2>2 DEF FirstStart, Awaits
<1> QED
  BY <1>4, <1>5, <1>6, <1>7 DEF Next

(* A start or restart that does its steps and returns without an error,    *)
(* nothing having crashed meanwhile nor been edited by hand before, has the*)
(* project answered, by its own instance where it is pinned to the other   *)
(* webserver, with PHP behind it (startProjectLocked, RestartProject).  A  *)
(* start that returns at once, its project being shown as running, has it  *)
(* answered unless a failure is still to be made up for, and PHP behind it *)
(* unless PHP crashed or a failed reset stopped it, with no start since.   *)
THEOREM StartedAnswers == Spec => []StartedIsServed
<1> DEFINE Inv == ServesInv /\ AlreadyServed /\ PHPBehind
<1>1. Init => Inv
  <2>1. Init => AlreadyServed /\ PHPBehind
    BY DEF Init, Idle, AlreadyServed, PHPBehind
  <2> QED
    BY <2>1, ServesInvInitially
<1>2. Inv /\ [Next]_vars => Inv'
  <2>1. ASSUME Inv, Next
        PROVE  Inv'
    <3>1. TypeOK
      BY <2>1 DEF ServesInv, LedgersInv
    <3> QED
      BY <2>1, <3>1, ServesInvStep, AlreadyStays, PHPBehindStays
  <2>2. ASSUME Inv, UNCHANGED vars
        PROVE  Inv'
    <3>1. AlreadyServed'
      BY <2>2 DEF vars, AlreadyServed, Served, Smooth, OwnInstance, Up
    <3>2. PHPBehind'
      BY <2>2 DEF vars, PHPBehind, FirstStart, Awaits, Up
    <3> QED
      BY <2>2, <3>1, <3>2, ServesInvStep
  <2> QED
    BY <2>1, <2>2
<1>3. Inv => StartedIsServed
  <2>1. SUFFICES ASSUME Inv, job.todo = <<>>, ~job.err, job.calm, ~edited
                 PROVE  /\ job.op \in {"start", "restart"} => Served(job.project) /\ Up(php)
                        /\ job.op = "already" =>
                             (stale \/ Served(job.project)) /\ (phpLost \/ Up(php))
    BY DEF StartedIsServed
  <2>2. \A tasks : ~Awaits(tasks)
    BY <2>1 DEF Awaits
  <2>3. ASSUME job.op \in {"start", "restart"}
        PROVE  Served(job.project) /\ Up(php)
    <3>1. /\ job.project \in registered \cap started
          /\ Up(php) /\ Up(front) /\ InLine
          /\ OwnInstance(job.project) => Up(own[job.project])
      BY <2>1, <2>2, <2>3 DEF ServesInv, StartServes, Smooth
    <3>2. job.project \in Projects
      BY <2>1, <3>1 DEF ServesInv, LedgersInv, TypeOK
    <3>3. front.conf.routes[job.project] =
            IF OwnInstance(job.project) THEN port[job.project] ELSE Direct
      BY <3>1, <3>2 DEF InLine, ServedRoutes
    <3>4. OwnInstance(job.project) => own[job.project].conf.port = port[job.project]
      BY <2>1, <3>1, <3>2 DEF ServesInv, OwnFits
    <3> QED
      BY <3>1, <3>3, <3>4 DEF Served
  <2>4. ASSUME job.op = "already"
        PROVE  (stale \/ Served(job.project)) /\ (phpLost \/ Up(php))
    BY <2>1, <2>4 DEF AlreadyServed, PHPBehind, FirstStart, Smooth
  <2> QED
    BY <2>3, <2>4
<1> QED
  BY <1>1, <1>2, <1>3, PTL DEF Spec
================================================================================
