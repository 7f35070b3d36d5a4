---------------------- MODULE SupervisorOwnershipProofs ----------------------
(***************************************************************************)
(* The supervisor never loses a process, never serves one ID with two, and *)
(* notices every exit: OwnershipInv is inductive.  Steps fall into three   *)
(* kinds - those that only move a caller, those that only change what the  *)
(* processes do, and those that write a record - with a lemma for each.    *)
(***************************************************************************)
EXTENDS SupervisorProofs

LEMMA InitOwnership == Init => OwnershipInv
<1> SUFFICES ASSUME Init PROVE OwnershipInv
  OBVIOUS
<1>1. RecordsOK BY DEF Init, RecordsOK, NotManaged
<1>2. FreshOK BY DEF Init, FreshOK, Alive
<1>3. OwnRunOK
  BY DEF Init, OwnRunOK, OwnRun, StartPhase, StartLabels, StopPhase, PreAdopt
<1>4. DistinctOK BY DEF Init, DistinctOK, StartPhase, StartLabels, StopPhase, PreAdopt
<1>5. StoppingOK BY DEF Init, StoppingOK, NotManaged
<1>6. ExitsOK BY DEF Init, ExitsOK, NotManaged
<1>7. NoUntrackedProcess BY DEF Init, NoUntrackedProcess, Alive
<1> QED BY <1>1, <1>2, <1>3, <1>4, <1>5, <1>6, <1>7 DEF OwnershipInv

(* The other callers stand where they stood.                               *)
Others(c) == \A d \in Callers \ {c} :
  pc'[d] = pc[d] /\ mine'[d] = mine[d] /\ seen'[d] = seen[d] /\ target'[d] = target[d]

(* Caller c goes on within Start or Stop, with the run it has.             *)
Advance(c, from, to) ==
  /\ pc[c] = from /\ pc'[c] = to
  /\ mine'[c] = mine[c] /\ seen'[c] = seen[c] /\ target'[c] = target[c]

(* Caller c is outside both phases, and did not leave a live process.      *)
Outside(c) ==
  /\ pc'[c] \notin StartPhase \cup StopPhase
  /\ pc[c] \notin StopPhase \cup {"adopt", "giveUp"}
  /\ pc[c] = "discard" => ~Alive(mine[c])
  /\ mine'[c] \in {0, mine[c]}

(* Steps of a caller that touch neither the records nor the processes.     *)
LEMMA CallerMoves ==
  ASSUME TypeInv, OwnershipInv, NEW c \in Callers, Others(c),
         UNCHANGED <<procs, gen, closing, proc, home, watching>>,
         \/ Outside(c)
         \/ Advance(c, "portWait", "check") \/ Advance(c, "portWait", "fail")
         \/ Advance(c, "check", "spawn") \/ Advance(c, "spawn", "fail")
         \/ Advance(c, "adopt", "discard") /\ ~Current(c)
         \/ Advance(c, "adopt", "discard") /\ closing
         \/ Advance(c, "bindWait", "giveUp") \/ Advance(c, "bindWait", "confirm")
         \/ Advance(c, "giveUp", "fail") /\ ~Alive(mine[c])
         \/ Advance(c, "terminate", "release") /\ ~Alive(mine[c])
         \/ Advance(c, "release", "released") \/ Advance(c, "release", "unreleased")
  PROVE  OwnershipInv'
<1> USE RunsAreNaturals
<1> USE DEF StartPhase, StartLabels, StopPhase, PreAdopt, Others, Outside, Advance
<1>1. /\ \A g : Alive(g)' <=> Alive(g)
      /\ gen \in Nat /\ mine[c] \in Runs \cup {0}
  BY DEF Alive, TypeInv, TypeOK
<1>2. RecordsOK'
  BY DEF OwnershipInv, RecordsOK
<1>3. FreshOK'
  BY <1>1 DEF OwnershipInv, FreshOK
<1>4. ASSUME NEW d \in Callers PROVE OwnRun(d)'
  <2>1. OwnRun(d) BY DEF OwnershipInv, OwnRunOK
  <2>2. CASE d # c
    BY <1>1, <2>1, <2>2 DEF OwnRun, Current, Known
  <2>3. CASE d = c
    BY <1>1, <2>1, <2>3 DEF OwnRun, Current, Known
  <2> QED BY <2>2, <2>3
<1>5. DistinctOK'
  BY DEF OwnershipInv, DistinctOK
<1>6. \A g : StoppedBy(g) => StoppedBy(g)'
  BY DEF StoppedBy
<1>7. StoppingOK'
  BY <1>1, <1>6 DEF OwnershipInv, StoppingOK
<1>8. ExitsOK'
  BY <1>6 DEF OwnershipInv, ExitsOK
<1>9. NoUntrackedProcess'
  BY <1>1 DEF OwnershipInv, NoUntrackedProcess, Held, Attended
<1> QED
  BY <1>2, <1>3, <1>4, <1>5, <1>7, <1>8, <1>9 DEF OwnershipInv, OwnRunOK

(* Steps in which processes only exit, listen or release their sockets.    *)
LEMMA ProcessesMove ==
  ASSUME TypeInv, OwnershipInv,
         UNCHANGED <<procs, gen, closing, pc, mine, seen, target, home, watching>>,
         \A g \in Runs : Alive(g)' => Alive(g)
  PROVE  OwnershipInv'
<1>1. RecordsOK' /\ ExitsOK' /\ DistinctOK'
  BY DEF OwnershipInv, RecordsOK, ExitsOK, StoppedBy, DistinctOK
<1>2. FreshOK'
  BY DEF OwnershipInv, FreshOK
<1>3. ASSUME NEW c \in Callers PROVE OwnRun(c)'
  <2>1. OwnRun(c) BY DEF OwnershipInv, OwnRunOK
  <2>2. pc[c] \in StartPhase \cup StopPhase => mine[c] \in Runs
    BY <2>1 DEF OwnRun, TypeInv, TargetOK
  <2> QED
    BY <2>1, <2>2 DEF OwnRun, Current, Known, StartPhase, StartLabels, StopPhase
<1>4. StoppingOK'
  <2>1. ASSUME NEW id \in Ids, procs[id].state = "stopping" PROVE procs[id].run \in Runs
    BY <2>1, RunsAreNaturals DEF OwnershipInv, RecordsOK, TypeInv, TypeOK, Managed
  <2> QED
    BY <2>1 DEF OwnershipInv, StoppingOK, StoppedBy
<1>5. NoUntrackedProcess'
  BY DEF OwnershipInv, NoUntrackedProcess, Held, Attended
<1> QED
  BY <1>1, <1>2, <1>3, <1>4, <1>5 DEF OwnershipInv, OwnRunOK

(* A step writes the record of one ID, to these fields.                    *)
Wrote(id, r, n, s, h, e) ==
  /\ procs'[id].run = r /\ procs'[id].gen = n /\ procs'[id].state = s
  /\ procs'[id].handle = h /\ procs'[id].err = e
  /\ \A other \in Ids \ {id} : procs'[other] = procs[other]

(* Types of what a caller inside Start or Stop looks at.                   *)
LEMMA CallerTypes ==
  ASSUME TypeInv, NEW c \in Callers, pc[c] \notin {"idle", "close", "snapshot", "next"}
  PROVE  /\ target[c] \in Ids /\ procs[target[c]] \in Managed
         /\ Known(c) = procs[target[c]]
         /\ procs[target[c]].run \in Runs \cup {0}
         /\ procs[target[c]].gen \in Nat
         /\ gen \in Nat /\ mine[c] \in Runs \cup {0}
         /\ pc[c] \in StartPhase => mine[c] \in Runs
BY DEF TypeInv, TypeOK, TargetOK, Managed, Known

LEMMA AdoptKeeps ==
  ASSUME TypeInv, OwnershipInv, NEW c \in Callers, Adopt(c)
  PROVE  OwnershipInv'
<1> USE RunsAreNaturals
<1> DEFINE id == target[c]
           m == procs[id]
<1>1. /\ id \in Ids /\ m \in Managed /\ Known(c) = m /\ m = procs[id] /\ m.run \in Runs \cup {0}
      /\ mine[c] \in Runs /\ gen \in Nat /\ pc[c] = "adopt"
  BY CallerTypes DEF Adopt, StartPhase, StartLabels
<1>2. Wrote(id, m.run, m.gen, m.state, TRUE, m.err)
  BY <1>1, HandleWrite DEF Adopt, Wrote, TypeInv, TypeOK
<1>3. /\ m.run = mine[c] /\ m.gen = mine[c]
      /\ watching' = watching \cup {mine[c]}
      /\ pc'[c] = "bindWait" /\ \A d \in Callers \ {c} : pc'[d] = pc[d]
      /\ UNCHANGED <<gen, target, mine, seen, proc, home>>
  BY <1>1 DEF Adopt, Current, Goto, callVars, osVars, TypeInv, TypeOK
<1>4. m.state = "starting" /\ home[mine[c]] = id /\ mine[c] <= gen
  BY <1>1, <1>3 DEF OwnershipInv, OwnRunOK, OwnRun, Current, PreAdopt, StartPhase, StartLabels, FreshOK
<1>5. \A g : Alive(g)' <=> Alive(g)
  BY <1>3 DEF Alive
<1> HIDE DEF m, id
<1>6. RecordsOK'
  BY <1>1, <1>2, <1>3, <1>4 DEF OwnershipInv, RecordsOK, Wrote
<1>7. FreshOK'
  BY <1>1, <1>3, <1>4, <1>5 DEF OwnershipInv, FreshOK
<1>8. ASSUME NEW d \in Callers PROVE OwnRun(d)'
  <2>1. OwnRun(d) BY DEF OwnershipInv, OwnRunOK
  <2>2. CASE d = c
    BY <1>1, <1>2, <1>3, <1>4, <1>5, <2>1, <2>2
       DEF OwnRun, PreAdopt, StartPhase, StartLabels, StopPhase, Current, Known, Wrote, id
  <2>3. CASE d # c /\ pc[d] \in StartPhase
    <3>1. mine[d] # mine[c]
      BY <1>1, <2>3 DEF OwnershipInv, DistinctOK, StartPhase, StartLabels
    <3>2. target[d] \in Ids
      BY <2>3 DEF TypeInv, TargetOK, StartPhase, StartLabels
    <3> QED
      BY <1>2, <1>3, <1>5, <2>1, <2>3, <3>1, <3>2
         DEF OwnRun, PreAdopt, StartPhase, StartLabels, StopPhase, Current, Known, Wrote
  <2>4. CASE d # c /\ pc[d] \notin StartPhase
    BY <1>3, <1>5, <2>1, <2>4 DEF OwnRun, PreAdopt, StartPhase, StartLabels, StopPhase
  <2> QED BY <2>2, <2>3, <2>4
<1>9. DistinctOK'
  BY <1>1, <1>3 DEF OwnershipInv, DistinctOK, PreAdopt, StartPhase, StartLabels, StopPhase
<1>10. \A g : StoppedBy(g) => StoppedBy(g)'
  BY <1>1, <1>3 DEF StoppedBy, StopPhase
<1>11. StoppingOK'
  BY <1>1, <1>2, <1>3, <1>4, <1>5, <1>10 DEF OwnershipInv, StoppingOK, Wrote
<1>12. ExitsOK'
  BY <1>1, <1>2, <1>3, <1>10 DEF OwnershipInv, ExitsOK, Wrote
<1>13. ASSUME NEW g \in Runs, Alive(g)' PROVE (Held(g) \/ Attended(g))'
  <2>1. Alive(g) /\ home[g] \in Ids /\ (Held(g) \/ Attended(g))
    BY <1>5, <1>13 DEF OwnershipInv, FreshOK, NoUntrackedProcess
  <2>2. CASE g = mine[c]
    BY <1>2, <1>3, <1>4, <2>2 DEF Held, Wrote, id
  <2>3. CASE g # mine[c] /\ Held(g)
    BY <1>1, <1>2, <1>3, <2>1, <2>3 DEF Held, Wrote
  <2>4. CASE g # mine[c] /\ Attended(g)
    BY <1>3, <2>4 DEF Attended
  <2> QED BY <2>1, <2>2, <2>3, <2>4
<1> QED
  BY <1>6, <1>7, <1>8, <1>9, <1>11, <1>12, <1>13 DEF OwnershipInv, OwnRunOK, NoUntrackedProcess

LEMMA SpawnKeeps ==
  ASSUME TypeInv, OwnershipInv, NEW c \in Callers, Spawn(c)
  PROVE  OwnershipInv'
<1> USE RunsAreNaturals
<1>1. /\ target[c] \in Ids /\ mine[c] \in Runs /\ gen \in Nat /\ pc[c] = "spawn"
      /\ Known(c) = procs[target[c]]
  BY CallerTypes DEF Spawn, StartPhase, StartLabels
<1>2. /\ pc'[c] = "adopt" /\ \A d \in Callers \ {c} : pc'[d] = pc[d]
      /\ UNCHANGED <<procs, gen, closing, target, mine, seen, home, watching>>
      /\ \A g \in Runs \ {mine[c]} : Alive(g)' <=> Alive(g)
  BY <1>1 DEF Spawn, Goto, supVars, callVars, Alive, TypeInv, TypeOK
<1>3. /\ home[mine[c]] = target[c] /\ mine[c] <= gen
      /\ procs[target[c]].run = mine[c] => ~procs[target[c]].handle
  BY <1>1 DEF OwnershipInv, OwnRunOK, OwnRun, PreAdopt, StartPhase, StartLabels, FreshOK
<1>4. RecordsOK' /\ FreshOK'
  BY <1>1, <1>2, <1>3 DEF OwnershipInv, RecordsOK, FreshOK
<1>5. ASSUME NEW d \in Callers PROVE OwnRun(d)'
  <2>1. OwnRun(d) BY DEF OwnershipInv, OwnRunOK
  <2>2. CASE d = c
    BY <1>1, <1>2, <2>1, <2>2
       DEF OwnRun, PreAdopt, StartPhase, StartLabels, StopPhase, Current, Known
  <2>3. CASE d # c
    <3>1. pc[d] \in StartPhase \cup StopPhase => mine[d] \in Runs /\ mine[d] # mine[c]
      BY <1>1, <2>1, <2>3
         DEF OwnershipInv, DistinctOK, OwnRun, PreAdopt, StartPhase, StartLabels, TypeInv, TargetOK
    <3> QED
      BY <1>2, <2>1, <2>3, <3>1
         DEF OwnRun, PreAdopt, StartPhase, StartLabels, StopPhase, Current, Known
  <2> QED BY <2>2, <2>3
<1>6. DistinctOK'
  BY <1>1, <1>2 DEF OwnershipInv, DistinctOK, PreAdopt, StartPhase, StartLabels, StopPhase
<1>7. \A g : StoppedBy(g) => StoppedBy(g)'
  BY <1>1, <1>2 DEF StoppedBy, StopPhase
<1>8. StoppingOK'
  <2>1. ASSUME NEW id \in Ids, procs[id].state = "stopping"
        PROVE  procs[id].run \in Runs \ {mine[c]}
    <3>1. procs[id] \in Managed BY DEF TypeInv, TypeOK
    <3> QED
      BY <1>3, <2>1, <3>1 DEF OwnershipInv, RecordsOK, Managed
  <2> QED
    BY <1>1, <1>2, <1>7, <2>1 DEF OwnershipInv, StoppingOK
<1>9. ExitsOK'
  BY <1>2, <1>7 DEF OwnershipInv, ExitsOK
<1>10. NoUntrackedProcess'
  BY <1>1, <1>2 DEF OwnershipInv, NoUntrackedProcess, Held, Attended
<1> QED
  BY <1>4, <1>5, <1>6, <1>8, <1>9, <1>10 DEF OwnershipInv, OwnRunOK

(* No caller and no record knows a generation that was not given out.      *)
LEMMA FreshGenerations ==
  ASSUME TypeInv, OwnershipInv
  PROVE  /\ \A d \in Callers : mine[d] \in Nat /\ mine[d] <= gen
         /\ \A id \in Ids : /\ procs[id].run \in Runs \cup {0} /\ procs[id].run \in Nat
                           /\ procs[id].run <= gen
                           /\ procs[id].gen \in Nat /\ procs[id].gen <= gen
<1>1. ASSUME NEW d \in Callers PROVE mine[d] \in Nat
  <2>1. mine[d] \in Runs \cup {0} BY DEF TypeInv, TypeOK
  <2>2. Runs \cup {0} \subseteq Nat BY RunsAreNaturals
  <2> QED BY <2>1, <2>2
<1>2. ASSUME NEW id \in Ids
      PROVE  /\ procs[id].run \in Runs \cup {0} /\ procs[id].run \in Nat
             /\ procs[id].gen \in Nat
  <2>1. procs[id] \in Managed BY DEF TypeInv, TypeOK
  <2>2. procs[id].run \in Runs \cup {0} /\ procs[id].gen \in Nat BY <2>1 DEF Managed
  <2> QED BY <2>2, RunsAreNaturals
<1>3. /\ \A d \in Callers : mine[d] <= gen
      /\ \A id \in Ids : procs[id].run <= gen /\ procs[id].gen <= gen
  BY DEF OwnershipInv, FreshOK, RecordsOK
<1> QED BY <1>1, <1>2, <1>3

LEMMA StartNewKeeps ==
  ASSUME TypeInv, OwnershipInv, NEW c \in Callers, StartNew(c)
  PROVE  OwnershipInv'
<1> USE RunsAreNaturals
<1> DEFINE id == target[c]
           m == procs[id]
<1>1. /\ id \in Ids /\ m \in Managed /\ m.run \in Runs \cup {0} /\ m = procs[id]
      /\ gen \in Nat /\ gen + 1 \in Runs /\ pc[c] = "start"
      /\ m.state \notin {"running", "starting"}
  BY CallerTypes DEF StartNew
<1>2. Wrote(id, gen + 1, gen + 1, "starting", FALSE, "none")
  BY ZenonT(60), <1>1, StartingWrite DEF StartNew, Wrote, TypeInv, TypeOK
<1>3. /\ mine'[c] = gen + 1 /\ \A d \in Callers \ {c} : mine'[d] = mine[d]
      /\ pc'[c] = "portWait" /\ \A d \in Callers \ {c} : pc'[d] = pc[d]
      /\ home'[gen + 1] = id /\ \A g \in Runs \ {gen + 1} : home'[g] = home[g]
      /\ gen' = gen + 1
      /\ UNCHANGED <<target, seen, proc, watching>>
  BY <1>1 DEF StartNew, Goto, TypeInv, TypeOK
<1>4. \A g : Alive(g)' <=> Alive(g)
  BY <1>3 DEF Alive
<1>5. \A d \in Callers : mine[d] \in Nat /\ mine[d] <= gen
  BY FreshGenerations
<1>5a. \A other \in Ids : /\ procs[other].run \in Runs \cup {0} /\ procs[other].run \in Nat
                          /\ procs[other].run <= gen
                          /\ procs[other].gen \in Nat /\ procs[other].gen <= gen
  BY FreshGenerations
<1> HIDE DEF m, id
<1>6. RecordsOK'
  <2> SUFFICES ASSUME NEW other \in Ids
               PROVE  LET n == procs'[other] IN
                      /\ n.run <= gen' /\ n.gen <= gen'
                      /\ n.run # 0 => home'[n.run] = other
                      /\ n.handle => /\ n.run # 0 /\ n.gen = n.run
                                     /\ n.state \in {"starting", "running", "stopping"}
                      /\ n.state \in {"stopping", "running"} => n.handle
                      /\ n.err = "start" => n.state = "failed"
    BY DEF RecordsOK
  <2>1. CASE other = id
    BY <1>1, <1>2, <1>3, <2>1 DEF Wrote
  <2>2. CASE other # id
    <3>1. procs'[other] = procs[other] /\ procs[other].run # gen + 1
      BY <1>1, <1>2, <1>5a, <2>2 DEF Wrote
    <3>2. ASSUME procs[other].run # 0 PROVE home'[procs[other].run] = other
      <4>1. home[procs[other].run] = other
        BY <3>2 DEF OwnershipInv, RecordsOK
      <4>2. procs[other].run \in Runs \ {gen + 1}
        BY <1>5a, <3>1, <3>2
      <4> QED BY <1>3, <4>1, <4>2
    <3>3. procs[other].run <= gen + 1 /\ procs[other].gen <= gen + 1
      <4>1. /\ procs[other].run \in Nat /\ procs[other].run <= gen
            /\ procs[other].gen \in Nat /\ procs[other].gen <= gen
        BY <1>5a
      <4> QED BY <1>1, <4>1
    <3> QED
      BY <1>3, <3>1, <3>2, <3>3 DEF OwnershipInv, RecordsOK
  <2> QED BY <2>1, <2>2
<1>7. FreshOK'
  <2>1. ASSUME NEW g \in Runs, g > gen + 1 PROVE ~Alive(g) /\ g \notin watching
    <3>1. g > gen BY <1>1, <2>1
    <3> QED BY <3>1 DEF OwnershipInv, FreshOK
  <2>2. ~Alive(gen + 1) /\ gen + 1 \notin watching
    BY <1>1 DEF OwnershipInv, FreshOK
  <2>3. ASSUME NEW g \in Runs, Alive(g) \/ g \in watching PROVE home'[g] \in Ids
    <3>1. home[g] \in Ids
      BY <2>3 DEF OwnershipInv, FreshOK
    <3>2. CASE g = gen + 1
      BY <2>2, <2>3, <3>2
    <3>3. CASE g # gen + 1
      BY <1>3, <3>1, <3>3
    <3> QED BY <3>2, <3>3
  <2>4. ASSUME NEW d \in Callers PROVE mine'[d] <= gen + 1
    <3>1. mine'[d] = gen + 1 \/ (mine[d] \in Nat /\ mine[d] <= gen /\ mine'[d] = mine[d])
      BY <1>3, <1>5
    <3> QED BY <1>1, <3>1
  <2> QED
    BY <1>3, <1>4, <2>1, <2>3, <2>4 DEF FreshOK
<1>8. ASSUME NEW d \in Callers PROVE OwnRun(d)'
  <2>1. OwnRun(d) BY DEF OwnershipInv, OwnRunOK
  <2>2. CASE d = c
    <3>1. ~Alive(gen + 1) /\ gen + 1 \notin watching
      BY <1>1 DEF OwnershipInv, FreshOK
    <3> QED
      BY <1>1, <1>2, <1>3, <1>4, <2>2, <3>1
         DEF OwnRun, PreAdopt, StartPhase, StartLabels, StopPhase, Current, Known, Wrote, id
  <2>3. CASE d # c /\ pc[d] \in StartPhase \cup StopPhase
    <3>1. mine[d] # gen + 1 /\ mine[d] \in Runs
      BY <1>1, <1>5, <2>1, <2>3 DEF OwnRun, TypeInv, TargetOK
    <3>2. target[d] \in Ids
      BY <2>3 DEF TypeInv, TargetOK, StartPhase, StartLabels, StopPhase
    <3>3. /\ pc'[d] = pc[d] /\ mine'[d] = mine[d] /\ seen'[d] = seen[d]
          /\ target'[d] = target[d] /\ home'[mine[d]] = home[mine[d]]
      BY <1>3, <2>3, <3>1
    <3>4. target[d] # id => procs'[target[d]] = procs[target[d]]
      BY <1>2, <3>2 DEF Wrote
    <3>5. target[d] = id => procs'[target[d]].run # mine[d]
      BY <1>2, <3>1 DEF Wrote
    <3> QED
      BY <1>3, <1>4, <2>1, <2>3, <3>1, <3>3, <3>4, <3>5
         DEF OwnRun, PreAdopt, StartPhase, StartLabels, StopPhase, Current, Known
  <2>4. CASE d # c /\ pc[d] \notin StartPhase \cup StopPhase
    BY <1>3, <1>4, <2>1, <2>4 DEF OwnRun, PreAdopt, StartPhase, StartLabels, StopPhase
  <2> QED BY <2>2, <2>3, <2>4
<1>9. DistinctOK'
  <2>1. \A d \in Callers \ {c} : mine'[d] # mine'[c]
    BY <1>1, <1>3, <1>5
  <2> QED
    BY <1>1, <1>3, <2>1 DEF OwnershipInv, DistinctOK, PreAdopt, StartPhase, StartLabels, StopPhase
<1>10. \A g : StoppedBy(g) => StoppedBy(g)'
  BY <1>1, <1>3 DEF StoppedBy, StopPhase
<1>11. \A d \in Callers : pc[d] = "terminate" => pc'[d] = "terminate" /\ mine'[d] = mine[d]
  BY <1>1, <1>3
<1>12. StoppingOK'
  BY <1>2, <1>4, <1>10, <1>11 DEF OwnershipInv, StoppingOK, Wrote
<1>13. ExitsOK'
  BY <1>2, <1>3, <1>10 DEF OwnershipInv, ExitsOK, Wrote
<1>14. ASSUME NEW g \in Runs, Alive(g)' PROVE (Held(g) \/ Attended(g))'
  <2>1. /\ Alive(g) /\ home[g] \in Ids /\ g # gen + 1 /\ home'[g] = home[g]
        /\ Held(g) \/ Attended(g)
    <3>1. Alive(g) BY <1>4, <1>14
    <3>2. ~Alive(gen + 1)
      BY <1>1 DEF OwnershipInv, FreshOK
    <3> QED
    BY <1>3, <3>1, <3>2 DEF OwnershipInv, FreshOK, NoUntrackedProcess
  <2>2. CASE Attended(g)
    BY <1>1, <1>3, <2>2 DEF Attended
  <2>3. CASE Held(g) /\ home[g] # id
    BY <1>2, <2>1, <2>3 DEF Held, Wrote
  <2>4. CASE Held(g) /\ home[g] = id
    <3>1. m.state = "stopping" /\ m.run = g
      BY <1>1, <2>1, <2>4 DEF Held, OwnershipInv, RecordsOK
    <3> QED
      BY <1>1, <1>11, <2>1, <3>1 DEF OwnershipInv, StoppingOK, Attended
  <2> QED BY <2>1, <2>2, <2>3, <2>4
<1> QED
  BY <1>6, <1>7, <1>8, <1>9, <1>12, <1>13, <1>14 DEF OwnershipInv, OwnRunOK, NoUntrackedProcess

LEMMA FailKeeps ==
  ASSUME TypeInv, OwnershipInv, NEW c \in Callers, Fail(c)
  PROVE  OwnershipInv'
<1> DEFINE id == target[c]
           m == procs[id]
<1>1. /\ id \in Ids /\ m \in Managed /\ Known(c) = m /\ m = procs[id] /\ m.run \in Runs \cup {0}
      /\ mine[c] \in Runs /\ gen \in Nat /\ 0 <= gen /\ pc[c] = "fail"
  BY CallerTypes DEF Fail, StartPhase, StartLabels
<1>2. /\ pc'[c] = "idle" /\ mine'[c] = 0 /\ Others(c)
      /\ UNCHANGED <<gen, closing, proc, home, watching>>
  BY <1>1 DEF Fail, Return, Goto, DropLocals, Others, osVars, TypeInv, TypeOK
<1>3. CASE m.gen # mine[c]
  <2>1. procs' = procs BY <1>1, <1>3 DEF Fail
  <2>2. Outside(c)
    BY <1>1, <1>2 DEF Outside, StartPhase, StartLabels, StopPhase
  <2> QED BY <1>2, <2>1, <2>2, CallerMoves
<1>4. CASE m.gen = mine[c]
  <2>1. Wrote(id, m.run, m.gen, "failed", FALSE, "start")
    <3>1. "start" \in Errors BY DEF Errors
    <3> QED BY ZenonT(60), <1>1, <1>4, <3>1, FailedWrite DEF Fail, Wrote, TypeInv, TypeOK
  <2>2. ~Alive(mine[c])
    BY <1>1 DEF OwnershipInv, OwnRunOK, OwnRun
  <2>3. \A g : Alive(g)' <=> Alive(g)
    BY <1>2 DEF Alive
  <2> HIDE DEF m, id
  <2>4. RecordsOK'
    BY <1>1, <1>2, <2>1 DEF OwnershipInv, RecordsOK, Wrote
  <2>5. FreshOK'
    BY <1>1, <1>2, <2>3 DEF OwnershipInv, FreshOK, Others
  <2>6. ASSUME NEW d \in Callers PROVE OwnRun(d)'
    <3>1. OwnRun(d) BY DEF OwnershipInv, OwnRunOK
    <3>2. CASE d = c
      BY <1>2, <3>2 DEF OwnRun, PreAdopt, StartPhase, StartLabels, StopPhase
    <3>3. CASE d # c /\ pc[d] \in StartPhase
      <4>1. mine[d] # mine[c] /\ target[d] \in Ids
        BY <1>1, <3>3
           DEF OwnershipInv, DistinctOK, TypeInv, TargetOK, StartPhase, StartLabels
      <4> QED
        BY <1>2, <1>4, <2>1, <2>3, <3>1, <3>3, <4>1
           DEF OwnRun, Others, PreAdopt, StartPhase, StartLabels, StopPhase, Current, Known, Wrote
    <3>4. CASE d # c /\ pc[d] \notin StartPhase
      BY <1>2, <2>3, <3>1, <3>4 DEF OwnRun, Others, PreAdopt, StartPhase, StartLabels, StopPhase
    <3> QED BY <3>2, <3>3, <3>4
  <2>7. DistinctOK'
    BY <1>2 DEF OwnershipInv, DistinctOK, Others, PreAdopt, StartPhase, StartLabels, StopPhase
  <2>8. \A g : StoppedBy(g) => StoppedBy(g)'
    BY <1>1, <1>2 DEF StoppedBy, Others, StopPhase
  <2>9. \A d \in Callers : pc[d] = "terminate" => pc'[d] = "terminate" /\ mine'[d] = mine[d]
    BY <1>1, <1>2 DEF Others
  <2>10. StoppingOK'
    BY <2>1, <2>3, <2>8, <2>9 DEF OwnershipInv, StoppingOK, Wrote
  <2>11. ExitsOK'
    BY <1>2, <2>1, <2>8 DEF OwnershipInv, ExitsOK, Wrote
  <2>12. ASSUME NEW g \in Runs, Alive(g)' PROVE (Held(g) \/ Attended(g))'
    <3>1. Alive(g) /\ home[g] \in Ids /\ (Held(g) \/ Attended(g))
      BY <2>3, <2>12 DEF OwnershipInv, FreshOK, NoUntrackedProcess
    <3>2. CASE Attended(g)
      BY <1>1, <1>2, <3>2 DEF Attended, Others
    <3>3. CASE Held(g)
      <4>1. home[g] # id
        BY <1>1, <1>4, <2>2, <3>1, <3>3 DEF Held, OwnershipInv, RecordsOK
      <4> QED BY <1>2, <2>1, <3>1, <3>3, <4>1 DEF Held, Wrote
    <3> QED BY <3>1, <3>2, <3>3
  <2> QED
    BY <2>4, <2>5, <2>6, <2>7, <2>10, <2>11, <2>12 DEF OwnershipInv, OwnRunOK, NoUntrackedProcess
<1> QED BY <1>3, <1>4

LEMMA ConfirmKeeps ==
  ASSUME TypeInv, OwnershipInv, NEW c \in Callers, Confirm(c)
  PROVE  OwnershipInv'
<1> DEFINE id == target[c]
           m == procs[id]
<1>1. /\ id \in Ids /\ m \in Managed /\ Known(c) = m /\ m = procs[id] /\ m.run \in Runs \cup {0}
      /\ mine[c] \in Runs /\ gen \in Nat /\ 0 <= gen /\ pc[c] = "confirm"
      /\ m.state \notin {"failed", "stopped"} /\ Current(c)
  BY CallerTypes DEF Confirm, StartPhase, StartLabels
<1>2. /\ pc'[c] = "idle" /\ mine'[c] = 0 /\ Others(c)
      /\ UNCHANGED <<gen, closing, proc, home, watching>>
  BY <1>1 DEF Confirm, Return, Goto, DropLocals, Others, osVars, TypeInv, TypeOK
<1>3. m.run = mine[c] /\ m.gen = mine[c] /\ m.handle
  BY <1>1 DEF Current, OwnershipInv, OwnRunOK, OwnRun
<1>4. Wrote(id, m.run, m.gen, "running", TRUE, "none")
  <2>1. m.handle = TRUE BY <1>1, <1>3 DEF Managed
  <2> QED BY <1>1, <2>1, RunningWrite DEF Confirm, Wrote, TypeInv, TypeOK
<1>5. m.run \in watching \/ StoppedBy(m.run)
  BY <1>1, <1>3 DEF OwnershipInv, RecordsOK, ExitsOK, StoppingOK
<1>6. \A g : Alive(g)' <=> Alive(g)
  BY <1>2 DEF Alive
<1> HIDE DEF m, id
<1>7. RecordsOK'
  BY <1>1, <1>2, <1>3, <1>4, RunsAreNaturals DEF OwnershipInv, RecordsOK, Wrote
<1>8. FreshOK'
  BY <1>1, <1>2, <1>6 DEF OwnershipInv, FreshOK, Others
<1>9. ASSUME NEW d \in Callers PROVE OwnRun(d)'
  <2>1. OwnRun(d) BY DEF OwnershipInv, OwnRunOK
  <2>2. CASE d = c
    BY <1>2, <2>2 DEF OwnRun, PreAdopt, StartPhase, StartLabels, StopPhase
  <2>3. CASE d # c /\ pc[d] \in StartPhase
    <3>1. mine[d] # mine[c] /\ target[d] \in Ids
      BY <1>1, <2>3
         DEF OwnershipInv, DistinctOK, TypeInv, TargetOK, StartPhase, StartLabels
    <3> QED
      BY <1>2, <1>3, <1>4, <1>6, <2>1, <2>3, <3>1
         DEF OwnRun, Others, PreAdopt, StartPhase, StartLabels, StopPhase, Current, Known, Wrote
  <2>4. CASE d # c /\ pc[d] \notin StartPhase
    BY <1>2, <1>6, <2>1, <2>4 DEF OwnRun, Others, PreAdopt, StartPhase, StartLabels, StopPhase
  <2> QED BY <2>2, <2>3, <2>4
<1>10. DistinctOK'
  BY <1>2 DEF OwnershipInv, DistinctOK, Others, PreAdopt, StartPhase, StartLabels, StopPhase
<1>11. \A g : StoppedBy(g) => StoppedBy(g)'
  BY <1>1, <1>2 DEF StoppedBy, Others, StopPhase
<1>12. \A d \in Callers : pc[d] = "terminate" => pc'[d] = "terminate" /\ mine'[d] = mine[d]
  BY <1>1, <1>2 DEF Others
<1>13. StoppingOK'
  BY <1>3, <1>4, <1>6, <1>11, <1>12 DEF OwnershipInv, StoppingOK, Wrote
<1>14. ExitsOK'
  BY <1>2, <1>3, <1>4, <1>5, <1>11 DEF OwnershipInv, ExitsOK, Wrote
<1>15. ASSUME NEW g \in Runs, Alive(g)' PROVE (Held(g) \/ Attended(g))'
  <2>1. Alive(g) /\ home[g] \in Ids /\ (Held(g) \/ Attended(g))
    BY <1>6, <1>15 DEF OwnershipInv, FreshOK, NoUntrackedProcess
  <2>2. CASE Attended(g)
    BY <1>1, <1>2, <2>2 DEF Attended, Others
  <2>3. CASE Held(g)
    BY <1>1, <1>2, <1>3, <1>4, <2>1, <2>3 DEF Held, Wrote
  <2> QED BY <2>1, <2>2, <2>3
<1> QED
  BY <1>7, <1>8, <1>9, <1>10, <1>13, <1>14, <1>15 DEF OwnershipInv, OwnRunOK, NoUntrackedProcess

(* A Stop that ends leaves its caller with no run, outside both phases.    *)
LEMMA AfterStopPlaces ==
  ASSUME TypeInv, NEW c \in Callers, NEW r, AfterStop(c, r)
  PROVE  /\ pc'[c] \in {"idle", "start", "next"} /\ mine'[c] = 0
         /\ Others(c)
BY DEF AfterStop, Return, Goto, DropLocals, Others, waiting, TypeInv, TypeOK

LEMMA CallOffKeeps ==
  ASSUME TypeInv, OwnershipInv, NEW c \in Callers, CallOff(c)
  PROVE  OwnershipInv'
<1> DEFINE id == target[c]
           m == procs[id]
<1>1. /\ id \in Ids /\ m \in Managed /\ Known(c) = m /\ m = procs[id]
      /\ gen \in Nat /\ pc[c] = "stop"
      /\ m.state = "starting" /\ ~m.handle
  BY CallerTypes DEF CallOff
<1>2. AfterStop(c, "ok") /\ gen' = gen + 1 /\ UNCHANGED <<closing, proc, home, watching>>
  BY DEF CallOff, osVars
<1>3. /\ pc'[c] \in {"idle", "start", "next"} /\ mine'[c] = 0
      /\ Others(c)
  BY <1>2, AfterStopPlaces
<1>4. Wrote(id, m.run, gen + 1, "stopped", m.handle, m.err)
  <2>1. gen + 1 \in Nat BY <1>1
  <2> QED BY <1>1, <2>1, NeverStartedWrite DEF CallOff, Wrote, TypeInv, TypeOK
<1>5. \A g : Alive(g)' <=> Alive(g)
  BY <1>2 DEF Alive
<1>6. \A other \in Ids : /\ procs[other].run <= gen + 1 /\ procs[other].gen <= gen + 1
                         /\ procs[other].gen # gen + 1
  <2> SUFFICES ASSUME NEW other \in Ids
               PROVE  /\ procs[other].run <= gen + 1 /\ procs[other].gen <= gen + 1
                      /\ procs[other].gen # gen + 1
    OBVIOUS
  <2>1. /\ procs[other].run \in Nat /\ procs[other].run <= gen
        /\ procs[other].gen \in Nat /\ procs[other].gen <= gen
    BY FreshGenerations
  <2> QED BY <1>1, <2>1
<1>7. \A d \in Callers : mine[d] <= gen + 1 /\ mine[d] # gen + 1 /\ 0 <= gen + 1
  <2> SUFFICES ASSUME NEW d \in Callers
               PROVE  mine[d] <= gen + 1 /\ mine[d] # gen + 1 /\ 0 <= gen + 1
    OBVIOUS
  <2>1. mine[d] \in Nat /\ mine[d] <= gen
    BY FreshGenerations
  <2> QED BY <1>1, <2>1
<1> HIDE DEF m, id
<1>8. RecordsOK'
  <2>1. gen + 1 <= gen + 1 BY <1>1
  <2> QED
    BY <1>1, <1>2, <1>4, <1>6, <2>1 DEF OwnershipInv, RecordsOK, Wrote
<1>9. FreshOK'
  <2>1. ASSUME NEW g \in Runs, g > gen + 1 PROVE ~Alive(g) /\ g \notin watching
    <3>1. g > gen BY <1>1, <2>1, RunsAreNaturals
    <3> QED BY <3>1 DEF OwnershipInv, FreshOK
  <2>2. \A d \in Callers : mine'[d] <= gen + 1
    BY <1>3, <1>7 DEF Others
  <2> QED
    BY <1>2, <1>5, <2>1, <2>2 DEF OwnershipInv, FreshOK
<1>10. ASSUME NEW d \in Callers PROVE OwnRun(d)'
  <2>1. OwnRun(d) BY DEF OwnershipInv, OwnRunOK
  <2>2. CASE d = c
    BY <1>3, <2>2 DEF OwnRun, PreAdopt, StartPhase, StartLabels, StopPhase
  <2>3. CASE d # c /\ pc[d] \in StartPhase
    <3>1. mine[d] # gen + 1 /\ target[d] \in Ids
      BY <1>7, <2>3 DEF TypeInv, TargetOK, StartPhase, StartLabels
    <3> QED
      BY <1>1, <1>2, <1>3, <1>4, <1>5, <2>1, <2>3, <3>1
         DEF OwnRun, Others, PreAdopt, StartPhase, StartLabels, StopPhase, Current, Known, Wrote
  <2>4. CASE d # c /\ pc[d] \notin StartPhase
    BY <1>2, <1>3, <1>5, <2>1, <2>4
       DEF OwnRun, Others, PreAdopt, StartPhase, StartLabels, StopPhase
  <2> QED BY <2>2, <2>3, <2>4
<1>11. DistinctOK'
  BY <1>3 DEF OwnershipInv, DistinctOK, Others, PreAdopt, StartPhase, StartLabels, StopPhase
<1>12. \A g : StoppedBy(g) => StoppedBy(g)'
  BY <1>1, <1>3 DEF StoppedBy, Others, StopPhase
<1>13. \A d \in Callers : pc[d] = "terminate" => pc'[d] = "terminate" /\ mine'[d] = mine[d]
  BY <1>1, <1>3 DEF Others
<1>14. StoppingOK'
  BY <1>4, <1>5, <1>12, <1>13 DEF OwnershipInv, StoppingOK, Wrote
<1>15. ExitsOK'
  BY <1>1, <1>2, <1>4, <1>12 DEF OwnershipInv, ExitsOK, Wrote
<1>16. ASSUME NEW g \in Runs, Alive(g)' PROVE (Held(g) \/ Attended(g))'
  <2>1. Alive(g) /\ home[g] \in Ids /\ (Held(g) \/ Attended(g))
    BY <1>5, <1>16 DEF OwnershipInv, FreshOK, NoUntrackedProcess
  <2>2. CASE Attended(g)
    BY <1>1, <1>3, <2>2 DEF Attended, Others
  <2>3. CASE Held(g)
    BY <1>1, <1>2, <1>4, <2>1, <2>3 DEF Held, Wrote
  <2> QED BY <2>1, <2>2, <2>3
<1> QED
  BY <1>8, <1>9, <1>10, <1>11, <1>14, <1>15, <1>16 DEF OwnershipInv, OwnRunOK, NoUntrackedProcess

LEMMA BeginStopKeeps ==
  ASSUME TypeInv, OwnershipInv, NEW c \in Callers, BeginStop(c)
  PROVE  OwnershipInv'
<1> DEFINE id == target[c]
           m == procs[id]
<1>1. /\ id \in Ids /\ m \in Managed /\ Known(c) = m /\ m = procs[id] /\ m.run \in Runs \cup {0}
      /\ pc[c] = "stop" /\ m.handle /\ m.state \notin {"stopped", "stopping"}
  BY CallerTypes DEF BeginStop
<1>1a. PICK r : r = m.run OBVIOUS
<1>2. /\ r \in Runs /\ m.run = r /\ m.gen = r /\ home[r] = id
      /\ m.state \in {"starting", "running"} /\ m.err # "start" /\ r <= gen
  BY <1>1, <1>1a DEF OwnershipInv, RecordsOK
<1>3. /\ pc'[c] = "terminate" /\ mine'[c] = r /\ seen'[c] = r
      /\ \A d \in Callers \ {c} : pc'[d] = pc[d] /\ mine'[d] = mine[d] /\ seen'[d] = seen[d]
      /\ UNCHANGED <<gen, closing, target, proc, home, watching>>
  BY <1>1, <1>2 DEF BeginStop, Goto, osVars, TypeInv, TypeOK
<1>4. Wrote(id, r, r, "stopping", TRUE, m.err)
  <2>1. m.handle = TRUE BY <1>1 DEF Managed
  <2> QED BY <1>1, <1>2, <2>1, StoppingWrite DEF BeginStop, Wrote, TypeInv, TypeOK
<1>5. \A g : Alive(g)' <=> Alive(g)
  BY <1>3 DEF Alive
<1> HIDE DEF m, id
<1>6. RecordsOK'
  BY <1>1, <1>2, <1>3, <1>4 DEF OwnershipInv, RecordsOK, Wrote
<1>7. FreshOK'
  BY <1>2, <1>3, <1>5 DEF OwnershipInv, FreshOK
<1>8. \A d \in Callers : pc[d] \in PreAdopt => mine[d] # r
  <2> SUFFICES ASSUME NEW d \in Callers, pc[d] \in PreAdopt, mine[d] = r PROVE FALSE
    OBVIOUS
  <2>1. target[d] = id
    BY <1>2 DEF OwnershipInv, OwnRunOK, OwnRun, PreAdopt, StartPhase, StartLabels
  <2> QED
    BY <1>1, <1>2, <2>1 DEF OwnershipInv, OwnRunOK, OwnRun, Known
<1>9. ASSUME NEW d \in Callers PROVE OwnRun(d)'
  <2>1. OwnRun(d) BY DEF OwnershipInv, OwnRunOK
  <2>2. CASE d = c
    BY <1>2, <1>3, <2>2, id = target[c] DEF OwnRun, PreAdopt, StartPhase, StartLabels, StopPhase, id
  <2>3. CASE d # c /\ pc[d] \in StartPhase
    <3>1. target[d] \in Ids
      BY <2>3 DEF TypeInv, TargetOK, StartPhase, StartLabels
    <3> QED
      BY <1>1, <1>3, <1>4, <1>5, <1>8, <2>1, <2>3, <3>1
         DEF OwnRun, PreAdopt, StartPhase, StartLabels, StopPhase, Current, Known, Wrote
  <2>4. CASE d # c /\ pc[d] \notin StartPhase
    BY <1>3, <1>5, <2>1, <2>4 DEF OwnRun, PreAdopt, StartPhase, StartLabels, StopPhase
  <2> QED BY <2>2, <2>3, <2>4
<1>10. DistinctOK'
  BY <1>1, <1>3, <1>8 DEF OwnershipInv, DistinctOK, PreAdopt, StartPhase, StartLabels, StopPhase
<1>11. /\ \A g : StoppedBy(g) => StoppedBy(g)'
       /\ StoppedBy(r)'
  BY <1>1, <1>3 DEF StoppedBy, StopPhase
<1>12. \A d \in Callers : pc[d] = "terminate" => pc'[d] = "terminate" /\ mine'[d] = mine[d]
  BY <1>1, <1>3
<1>13. StoppingOK'
  BY <1>3, <1>4, <1>5, <1>11, <1>12 DEF OwnershipInv, StoppingOK, Wrote
<1>14. ExitsOK'
  BY <1>3, <1>4, <1>11 DEF OwnershipInv, ExitsOK, Wrote
<1>15. ASSUME NEW g \in Runs, Alive(g)' PROVE (Held(g) \/ Attended(g))'
  <2>1. Alive(g) /\ home[g] \in Ids /\ (Held(g) \/ Attended(g))
    BY <1>5, <1>15 DEF OwnershipInv, FreshOK, NoUntrackedProcess
  <2>2. CASE Attended(g)
    BY <1>1, <1>3, <2>2 DEF Attended
  <2>3. CASE Held(g)
    BY <1>1, <1>2, <1>3, <1>4, <2>1, <2>3 DEF Held, Wrote
  <2> QED BY <2>1, <2>2, <2>3
<1> QED
  BY <1>6, <1>7, <1>9, <1>10, <1>13, <1>14, <1>15 DEF OwnershipInv, OwnRunOK, NoUntrackedProcess

LEMMA EndStopKeeps ==
  ASSUME TypeInv, OwnershipInv, NEW c \in Callers, EndStop(c)
  PROVE  OwnershipInv'
<1> DEFINE id == target[c]
           m == procs[id]
<1>1. /\ id \in Ids /\ m \in Managed /\ Known(c) = m /\ m = procs[id]
      /\ gen \in Nat /\ 0 <= gen /\ pc[c] \in {"released", "unreleased"}
  BY CallerTypes DEF EndStop
<1>2. /\ mine[c] \in Runs /\ seen[c] = mine[c] /\ home[mine[c]] = id /\ ~Alive(mine[c])
  BY <1>1 DEF OwnershipInv, OwnRunOK, OwnRun, StopPhase
<1>3. /\ pc'[c] \in {"idle", "start", "next"} /\ mine'[c] = 0 /\ Others(c)
      /\ UNCHANGED <<gen, closing, proc, home, watching>>
  BY AfterStopPlaces DEF EndStop, osVars
<1>4. \/ /\ m.run = mine[c] /\ m.gen = mine[c]
         /\ Wrote(id, m.run, m.gen, "stopped", FALSE, "none")
      \/ /\ ~(m.run = mine[c] /\ m.gen = mine[c])
         /\ procs' = procs
  BY <1>1, <1>2, StoppedWrite DEF EndStop, Wrote, TypeInv, TypeOK
<1>5. \A g : Alive(g)' <=> Alive(g)
  BY <1>3 DEF Alive
<1> HIDE DEF m, id
<1>6. ASSUME NEW other \in Ids
      PROVE  \/ procs'[other] = procs[other] /\ (procs[other].handle => procs[other].run # mine[c])
             \/ /\ other = id /\ procs'[other].run = mine[c] /\ procs'[other].gen = mine[c]
                /\ procs[other].run = mine[c] /\ procs[other].gen = mine[c]
                /\ procs'[other].state = "stopped" /\ procs'[other].handle = FALSE
                /\ procs'[other].err = "none"
  <2>1. procs[other].handle /\ procs[other].run = mine[c] =>
          other = id /\ procs[other].gen = mine[c]
    BY <1>1, <1>2 DEF OwnershipInv, RecordsOK
  <2> QED BY <1>1, <1>4, <2>1 DEF Wrote
<1>7. RecordsOK'
  <2> SUFFICES ASSUME NEW other \in Ids
               PROVE  LET n == procs'[other] IN
                      /\ n.run <= gen /\ n.gen <= gen
                      /\ n.run # 0 => home[n.run] = other
                      /\ n.handle => /\ n.run # 0 /\ n.gen = n.run
                                     /\ n.state \in {"starting", "running", "stopping"}
                      /\ n.state \in {"stopping", "running"} => n.handle
                      /\ n.err = "start" => n.state = "failed"
    BY <1>3 DEF RecordsOK
  <2>1. CASE procs'[other] = procs[other]
    BY <2>1 DEF OwnershipInv, RecordsOK
  <2>2. CASE procs'[other] # procs[other]
    <3>1. /\ other = id /\ procs'[other].run = mine[c] /\ procs'[other].gen = mine[c]
          /\ procs'[other].state = "stopped" /\ procs'[other].handle = FALSE
          /\ procs'[other].err = "none" /\ procs[other].run = mine[c]
      BY <1>6, <2>2
    <3>2. mine[c] <= gen BY DEF OwnershipInv, FreshOK
    <3> QED BY <1>2, <3>1, <3>2
  <2> QED BY <2>1, <2>2
<1>8. FreshOK'
  BY <1>1, <1>3, <1>5 DEF OwnershipInv, FreshOK, Others
<1>9. ASSUME NEW d \in Callers PROVE OwnRun(d)'
  <2>1. OwnRun(d) BY DEF OwnershipInv, OwnRunOK
  <2>2. CASE d = c
    BY <1>3, <2>2 DEF OwnRun, PreAdopt, StartPhase, StartLabels, StopPhase
  <2>3. CASE d # c /\ pc[d] \in StartPhase
    <3>1. target[d] \in Ids /\ (pc[d] \in PreAdopt => mine[d] # mine[c])
      BY <1>1, <2>3
         DEF OwnershipInv, DistinctOK, TypeInv, TargetOK, StartPhase, StartLabels, StopPhase
    <3>2. \/ procs'[target[d]] = procs[target[d]]
          \/ /\ procs'[target[d]].run = mine[c] /\ procs'[target[d]].gen = mine[c]
             /\ procs'[target[d]].state = "stopped" /\ procs'[target[d]].handle = FALSE
      BY <1>6, <3>1
    <3> QED
      BY <1>3, <1>5, <2>1, <2>3, <3>1, <3>2
         DEF OwnRun, Others, PreAdopt, StartPhase, StartLabels, StopPhase, Current, Known
  <2>4. CASE d # c /\ pc[d] \notin StartPhase
    BY <1>3, <1>5, <2>1, <2>4 DEF OwnRun, Others, PreAdopt, StartPhase, StartLabels, StopPhase
  <2> QED BY <2>2, <2>3, <2>4
<1>10. DistinctOK'
  BY <1>3 DEF OwnershipInv, DistinctOK, Others, PreAdopt, StartPhase, StartLabels, StopPhase
<1>11. \A g : StoppedBy(g) /\ g # mine[c] => StoppedBy(g)'
  BY <1>3 DEF StoppedBy, Others, StopPhase
<1>12. \A d \in Callers : pc[d] = "terminate" => pc'[d] = "terminate" /\ mine'[d] = mine[d]
  BY <1>1, <1>3 DEF Others
<1>13. ASSUME NEW other \in Ids, procs'[other].state = "stopping"
       PROVE  /\ procs'[other] = procs[other] /\ procs[other].state = "stopping"
              /\ procs[other].run # mine[c]
  BY <1>6, <1>13 DEF OwnershipInv, RecordsOK
<1>14. StoppingOK'
  BY <1>5, <1>11, <1>12, <1>13 DEF OwnershipInv, StoppingOK
<1>15. ExitsOK'
  BY <1>3, <1>6, <1>11 DEF OwnershipInv, ExitsOK
<1>16. ASSUME NEW g \in Runs, Alive(g)' PROVE (Held(g) \/ Attended(g))'
  <2>1. Alive(g) /\ home[g] \in Ids /\ g # mine[c] /\ (Held(g) \/ Attended(g))
    BY <1>2, <1>5, <1>16 DEF OwnershipInv, FreshOK, NoUntrackedProcess
  <2>2. CASE Attended(g)
    BY <1>1, <1>3, <2>2 DEF Attended, Others
  <2>3. CASE Held(g)
    BY <1>3, <1>6, <2>1, <2>3 DEF Held
  <2> QED BY <2>1, <2>2, <2>3
<1> QED
  BY <1>7, <1>8, <1>9, <1>10, <1>14, <1>15, <1>16 DEF OwnershipInv, OwnRunOK, NoUntrackedProcess

LEMMA WatchKeeps ==
  ASSUME TypeInv, OwnershipInv, NEW h \in Runs, Watch(h)
  PROVE  OwnershipInv'
<1> DEFINE id == home[h]
           m == procs[id]
<1>1. /\ id \in Ids /\ m = procs[id] /\ h \in watching /\ ~Alive(h)
  BY DEF Watch, OwnershipInv, FreshOK
<1>2. /\ watching' = watching \ {h}
      /\ UNCHANGED <<gen, closing, pc, mine, seen, target, proc, home>>
  BY DEF Watch, callVars, osVars
<1>3. m \in Managed BY <1>1 DEF TypeInv, TypeOK
<1>4. \/ /\ m.gen = h
         /\ \/ Wrote(id, m.run, m.gen, m.state, FALSE, m.err) /\ m.state = "failed"
            \/ Wrote(id, m.run, m.gen, "failed", FALSE, "exit")
      \/ /\ m.gen # h \/ m.state \in {"stopping", "stopped"}
         /\ procs' = procs
  <2>1. FALSE \in BOOLEAN /\ "exit" \in Errors BY DEF Errors
  <2>2. CASE m.gen # h \/ m.state \in {"stopping", "stopped"}
    BY <1>1, <2>2 DEF Watch
  <2>3. CASE m.gen = h /\ m.state = "failed" /\ m.err # "none"
    <3>1. procs' = [procs EXCEPT ![id] = WithHandle(@, FALSE)]
      BY <1>1, <2>3 DEF Watch
    <3>2. /\ WithHandle(m, FALSE).run = m.run /\ WithHandle(m, FALSE).gen = m.gen
          /\ WithHandle(m, FALSE).state = m.state /\ WithHandle(m, FALSE).handle = FALSE
          /\ WithHandle(m, FALSE).err = m.err
      BY <1>3, <2>1, HandleWrite
    <3>3. procs'[id] = WithHandle(m, FALSE) /\ \A other \in Ids \ {id} : procs'[other] = procs[other]
      BY <1>1, <3>1 DEF TypeInv, TypeOK
    <3> QED BY <2>3, <3>2, <3>3 DEF Wrote
  <2>4. CASE /\ m.gen = h /\ m.state \notin {"stopping", "stopped"}
             /\ ~(m.state = "failed" /\ m.err # "none")
    <3>1. procs' = [procs EXCEPT ![id] = Failed(@, "exit")]
      BY <1>1, <2>4 DEF Watch
    <3> QED BY ZenonT(60), <1>1, <1>3, <2>1, <2>4, <3>1, FailedWrite DEF Wrote, TypeInv, TypeOK
  <2> QED BY <2>2, <2>3, <2>4
<1>5. \A g : Alive(g)' <=> Alive(g)
  BY <1>2 DEF Alive
<1> HIDE DEF m, id
<1>6. ASSUME NEW other \in Ids
      PROVE  \/ /\ procs'[other] = procs[other]
                /\ procs[other].handle => procs[other].run # h \/ procs[other].state = "stopping"
             \/ /\ procs'[other].run = procs[other].run /\ procs[other].gen = h
                /\ procs'[other].gen = procs[other].gen /\ procs'[other].state = "failed"
                /\ procs'[other].handle = FALSE
                /\ procs[other].handle => procs[other].run = h
  <2>1. procs[other].handle => procs[other].gen = procs[other].run /\ procs[other].state # "stopped"
    BY DEF OwnershipInv, RecordsOK
  <2>2. procs[other].handle /\ procs[other].run = h => other = id
    <3>1. h # 0 BY RunsAreNaturals
    <3> QED BY <1>1, <3>1 DEF OwnershipInv, RecordsOK, id
  <2> QED BY <1>1, <1>4, <2>1, <2>2 DEF Wrote
<1>7. RecordsOK'
  <2>1. RecordsOK
    BY DEF OwnershipInv
  <2>2. ASSUME NEW other \in Ids, procs'[other] = procs[other]
        PROVE  RecordsOK!(other)'
    BY <1>2, <2>1, <2>2 DEF RecordsOK
  <2>3. ASSUME NEW other \in Ids,
               /\ procs'[other].run = procs[other].run /\ procs'[other].gen = procs[other].gen
               /\ procs'[other].state = "failed" /\ procs'[other].handle = FALSE
        PROVE  RecordsOK!(other)'
    BY <1>2, <2>1, <2>3 DEF RecordsOK
  <2> QED
    BY <1>6, <2>2, <2>3 DEF RecordsOK
<1>8. FreshOK'
  BY <1>2, <1>5 DEF OwnershipInv, FreshOK
<1>9. ASSUME NEW d \in Callers PROVE OwnRun(d)'
  <2>1. OwnRun(d) BY DEF OwnershipInv, OwnRunOK
  <2>2. CASE pc[d] \in StartPhase
    <3>1. target[d] \in Ids
      BY <2>2 DEF TypeInv, TargetOK, StartPhase, StartLabels
    <3> QED
      BY <1>1, <1>2, <1>5, <1>6, <2>1, <2>2, <3>1
         DEF OwnRun, PreAdopt, StartPhase, StartLabels, StopPhase, Current, Known
  <2>3. CASE pc[d] \notin StartPhase
    BY <1>2, <1>5, <2>1, <2>3 DEF OwnRun, PreAdopt, StartPhase, StartLabels, StopPhase
  <2> QED BY <2>2, <2>3
<1>10. DistinctOK'
  BY <1>2 DEF OwnershipInv, DistinctOK
<1>11. \A g : StoppedBy(g) => StoppedBy(g)'
  BY <1>2 DEF StoppedBy
<1>12. ASSUME NEW other \in Ids, procs'[other].state = "stopping"
       PROVE  procs'[other] = procs[other]
  BY <1>6, <1>12
<1>13. StoppingOK'
  BY <1>2, <1>5, <1>11, <1>12 DEF OwnershipInv, StoppingOK
<1>14. ExitsOK'
  BY <1>2, <1>6, <1>11 DEF OwnershipInv, ExitsOK
<1>15. ASSUME NEW g \in Runs, Alive(g)' PROVE (Held(g) \/ Attended(g))'
  <2>1. Alive(g) /\ home[g] \in Ids /\ g # h /\ (Held(g) \/ Attended(g))
    BY <1>1, <1>5, <1>15 DEF OwnershipInv, FreshOK, NoUntrackedProcess
  <2>2. CASE Attended(g)
    BY <1>2, <2>2 DEF Attended
  <2>3. CASE Held(g)
    BY <1>2, <1>6, <2>1, <2>3 DEF Held
  <2> QED BY <2>1, <2>2, <2>3
<1> QED
  BY <1>7, <1>8, <1>9, <1>10, <1>13, <1>14, <1>15 DEF OwnershipInv, OwnRunOK, NoUntrackedProcess

LEMMA ReturnPlaces ==
  ASSUME TypeInv, NEW c \in Callers, NEW r, Return(c, r)
  PROVE  pc'[c] = "idle" /\ mine'[c] = 0 /\ Others(c)
BY DEF Return, Goto, DropLocals, Others, TypeInv, TypeOK

LEMMA StartStepKeeps ==
  ASSUME TypeInv, OwnershipInv, NEW c \in Callers, StartStep(c)
  PROVE  OwnershipInv'
<1> DEFINE Still == UNCHANGED <<procs, gen, closing, proc, home, watching>>
           Path(from, to) == Advance(c, from, to) /\ Others(c) /\ Still
<1>1. ASSUME NEW r, Return(c, r), Still,
             pc[c] \in {"start", "check", "discard", "confirm"},
             pc[c] = "discard" => ~Alive(mine[c])
      PROVE  OwnershipInv'
  <2>1. pc'[c] = "idle" /\ mine'[c] = 0 /\ Others(c)
    BY <1>1, ReturnPlaces
  <2>2. Outside(c)
    BY <1>1, <2>1 DEF Outside, StartPhase, StartLabels, StopPhase
  <2> QED BY <1>1, <2>1, <2>2, CallerMoves
<1>2. CASE \/ StartRefused(c) \/ StartAlready(c) \/ CalledOff(c) \/ ConfirmTooLate(c)
  <2>1. (\E r : Return(c, r)) /\ Still /\ pc[c] \in {"start", "check", "confirm"}
    BY <1>2 DEF StartRefused, StartAlready, CalledOff, ConfirmTooLate, supVars, osVars
  <2> HIDE DEF Still
  <2> QED BY <1>1, <2>1
<1>3. CASE Discarded(c)
  <2>1. Return(c, ret[c]) /\ Still /\ pc[c] = "discard" /\ ~Alive(mine[c])
    BY <1>3 DEF Discarded, supVars, osVars
  <2> HIDE DEF Still
  <2> QED BY <1>1, <2>1
<1>4. CASE PortWaitDone(c)
  <2>1. Path("portWait", "check") \/ Path("portWait", "fail")
    BY <1>4 DEF PortWaitDone, Goto, Advance, Others, supVars, callVars, osVars, TypeInv, TypeOK
  <2> QED BY <2>1, CallerMoves
<1>5. CASE NotCalledOff(c)
  <2>1. Path("check", "spawn")
    BY <1>5 DEF NotCalledOff, Goto, Advance, Others, supVars, callVars, osVars, TypeInv, TypeOK
  <2> QED BY <2>1, CallerMoves
<1>6. CASE SpawnFails(c)
  <2>1. Path("spawn", "fail")
    BY <1>6 DEF SpawnFails, Goto, Advance, Others, supVars, callVars, osVars, TypeInv, TypeOK
  <2> QED BY <2>1, CallerMoves
<1>7. CASE AdoptCalledOff(c)
  <2>1. Path("adopt", "discard") /\ (closing \/ ~Current(c))
    BY <1>7 DEF AdoptCalledOff, Goto, Advance, Others, supVars, callVars, osVars, TypeInv, TypeOK
  <2> QED BY <2>1, CallerMoves
<1>8. CASE BindWaitDone(c)
  <2>1. Path("bindWait", "giveUp") \/ Path("bindWait", "confirm")
    BY <1>8 DEF BindWaitDone, Goto, Advance, Others, supVars, callVars, osVars, TypeInv, TypeOK
  <2> QED BY <2>1, CallerMoves
<1>9. CASE GaveUp(c)
  <2>1. Path("giveUp", "fail") /\ ~Alive(mine[c])
    BY <1>9 DEF GaveUp, Goto, Advance, Others, supVars, callVars, osVars, TypeInv, TypeOK
  <2> QED BY <2>1, CallerMoves
<1> QED
  BY <1>2, <1>3, <1>4, <1>5, <1>6, <1>7, <1>8, <1>9,
     StartNewKeeps, SpawnKeeps, AdoptKeeps, FailKeeps, ConfirmKeeps DEF StartStep

(* Shutdown's first step: from here on, every start is refused.            *)
LEMMA CloseKeeps ==
  ASSUME TypeInv, OwnershipInv, NEW c \in Callers, Close(c)
  PROVE  OwnershipInv'
<1>1. /\ pc[c] = "close" /\ pc'[c] = "snapshot" /\ \A d \in Callers \ {c} : pc'[d] = pc[d]
      /\ UNCHANGED <<procs, gen, proc, home, watching, mine, seen, target>>
  BY DEF Close, Goto, callVars, osVars, TypeInv, TypeOK
<1>2. \A g : Alive(g)' <=> Alive(g)
  BY <1>1 DEF Alive
<1>3. RecordsOK' /\ FreshOK'
  BY <1>1, <1>2 DEF OwnershipInv, RecordsOK, FreshOK
<1>4. ASSUME NEW d \in Callers PROVE OwnRun(d)'
  <2>1. OwnRun(d) BY DEF OwnershipInv, OwnRunOK
  <2> QED
    BY <1>1, <1>2, <2>1 DEF OwnRun, Current, Known, PreAdopt, StartPhase, StartLabels, StopPhase
<1>5. DistinctOK'
  BY <1>1 DEF OwnershipInv, DistinctOK, PreAdopt, StartPhase, StartLabels, StopPhase
<1>6. \A g : StoppedBy(g) => StoppedBy(g)'
  BY <1>1 DEF StoppedBy, StopPhase
<1>7. StoppingOK' /\ ExitsOK'
  BY <1>1, <1>2, <1>6 DEF OwnershipInv, StoppingOK, ExitsOK
<1>8. NoUntrackedProcess'
  BY <1>1, <1>2 DEF OwnershipInv, NoUntrackedProcess, Held, Attended
<1> QED BY <1>3, <1>4, <1>5, <1>7, <1>8 DEF OwnershipInv, OwnRunOK

LEMMA StopStepKeeps ==
  ASSUME TypeInv, OwnershipInv, NEW c \in Callers, StopStep(c)
  PROVE  OwnershipInv'
<1> DEFINE Still == UNCHANGED <<procs, gen, closing, proc, home, watching>>
           Path(from, to) == Advance(c, from, to) /\ Others(c) /\ Still
<1>1. CASE NothingToStop(c)
  <2>1. AfterStop(c, "ok") /\ Still /\ pc[c] = "stop"
    BY <1>1 DEF NothingToStop, supVars, osVars
  <2>2. pc'[c] \in {"idle", "start", "next"} /\ mine'[c] = 0 /\ Others(c)
    BY <2>1, AfterStopPlaces
  <2>3. Outside(c)
    BY <2>1, <2>2 DEF Outside, StartPhase, StartLabels, StopPhase
  <2> QED BY <2>1, <2>2, <2>3, CallerMoves
<1>2. CASE StoppedAll(c)
  <2>1. Return(c, ret[c]) /\ Still /\ pc[c] = "next"
    BY <1>2 DEF StoppedAll, supVars, osVars
  <2>2. pc'[c] = "idle" /\ mine'[c] = 0 /\ Others(c)
    BY <2>1, ReturnPlaces
  <2>3. Outside(c)
    BY <2>1, <2>2 DEF Outside, StartPhase, StartLabels, StopPhase
  <2> QED BY <2>1, <2>2, <2>3, CallerMoves
<1>3. CASE Snapshot(c) \/ StopNext(c)
  <2>1. /\ pc[c] \in {"snapshot", "next"} /\ pc'[c] \in {"next", "stop"}
        /\ mine' = mine /\ Others(c) /\ Still
    BY <1>3 DEF Snapshot, StopNext, Goto, Others, supVars, osVars, TypeInv, TypeOK
  <2>2. Outside(c)
    BY <2>1 DEF Outside, StartPhase, StartLabels, StopPhase
  <2> QED BY <2>1, <2>2, CallerMoves
<1>4. CASE Terminated(c)
  <2>1. Path("terminate", "release") /\ ~Alive(mine[c])
    BY <1>4 DEF Terminated, Goto, Advance, Others, supVars, callVars, osVars, TypeInv, TypeOK
  <2> QED BY <2>1, CallerMoves
<1>5. CASE ReleaseWaitDone(c)
  <2>1. Path("release", "released") \/ Path("release", "unreleased")
    BY <1>5 DEF ReleaseWaitDone, Goto, Advance, Others, supVars, callVars, osVars, TypeInv, TypeOK
  <2> QED BY <2>1, CallerMoves
<1>6. CASE Kill(c)
  BY <1>6, ProcessesMove DEF Kill, Alive, supVars, callVars, TypeInv, TypeOK
<1>7. CASE Close(c)
  BY <1>7, CloseKeeps
<1> QED
  BY <1>1, <1>2, <1>3, <1>4, <1>5, <1>6, <1>7, CallOffKeeps, BeginStopKeeps, EndStopKeeps
     DEF StopStep

LEMMA OtherStepKeeps ==
  ASSUME TypeInv, OwnershipInv,
         \/ \E c \in Callers : Calls(c)
         \/ \E g \in Runs : Watch(g)
         \/ Environment
         \/ UNCHANGED vars
  PROVE  OwnershipInv'
<1>1. ASSUME NEW c \in Callers, Calls(c) PROVE OwnershipInv'
  <2>1. /\ pc[c] = "idle" /\ pc'[c] \in {"start", "stop", "snapshot", "close"}
        /\ mine' = mine /\ Others(c)
        /\ UNCHANGED <<procs, gen, closing, proc, home, watching>>
    BY <1>1 DEF Calls, CallStart, CallStop, CallStopAll, Goto, Others, supVars, osVars,
                TypeInv, TypeOK
  <2>2. Outside(c)
    BY <2>1 DEF Outside, StartPhase, StartLabels, StopPhase
  <2> QED BY <2>1, <2>2, CallerMoves
<1>2. ASSUME NEW g \in Runs, ProcessListens(g) \/ ProcessExits(g) \/ SocketReleased(g)
      PROVE  OwnershipInv'
  BY <1>2, ProcessesMove
     DEF ProcessListens, ProcessExits, SocketReleased, Alive, supVars, callVars, TypeInv, TypeOK
<1>3. ASSUME NEW id \in Ids, OtherProgram(id) PROVE OwnershipInv'
  BY <1>3, ProcessesMove DEF OtherProgram, Alive, supVars, callVars
<1>4. CASE UNCHANGED vars
  BY <1>4, ProcessesMove DEF vars, Alive
<1> QED BY <1>1, <1>2, <1>3, <1>4, WatchKeeps DEF Environment

LEMMA OwnershipInductive == TypeInv /\ OwnershipInv /\ [Next]_vars => OwnershipInv'
BY StartStepKeeps, StopStepKeeps, OtherStepKeeps DEF Next, Step

LEMMA OwnershipHolds == Spec => [](TypeInv /\ OwnershipInv)
<1>1. TypeInv /\ [Next]_vars => TypeInv'
  BY StartStepTypeInv, StopStepTypeInv, OtherStepTypeInv DEF Next, Step
<1> QED BY <1>1, InitTypeInv, InitOwnership, OwnershipInductive, PTL DEF Spec

(* No process is ever lost: whatever order the starts, stops, replacements *)
(* and crashes of any number of goroutines come in, the next Stop of its   *)
(* ID reaches each process, or a goroutine is dealing with it.             *)
THEOREM ProcessesTracked == Spec => []NoUntrackedProcess
<1>1. OwnershipInv => NoUntrackedProcess
  BY DEF OwnershipInv
<1> QED BY <1>1, OwnershipHolds, PTL

(* Of two processes alive for one ID, one is being terminated.             *)
THEOREM OneProcess == Spec => []OneProcessPerService
<1>1. ASSUME TypeInv, OwnershipInv PROVE OneProcessPerService
  <2> SUFFICES ASSUME NEW g \in Runs, NEW h \in Runs, Alive(g), Alive(h),
                      home[g] = home[h], g # h
               PROVE  Condemned(g) \/ Condemned(h)
    BY DEF OneProcessPerService
  <2>1. /\ Held(g) \/ Attended(g)
        /\ Held(h) \/ Attended(h)
    BY <1>1 DEF OwnershipInv, NoUntrackedProcess
  <2>2. ~(Held(g) /\ Held(h))
    BY DEF Held
  <2>3. ASSUME NEW p \in Runs, Attended(p), ~Condemned(p)
        PROVE  procs[home[p]].run = p /\ ~Held(p)
    <3>1. PICK c \in Callers : mine[c] = p /\ pc[c] = "adopt" /\ Current(c)
      BY <2>3 DEF Attended, Condemned
    <3>2. home[p] = target[c]
      BY <1>1, <3>1 DEF OwnershipInv, OwnRunOK, OwnRun, StartPhase, StartLabels
    <3> QED
      BY <1>1, <3>1, <3>2 DEF OwnershipInv, OwnRunOK, OwnRun, PreAdopt, Current, Known, Held
  <2> QED BY <2>1, <2>2, <2>3 DEF Held
<1> QED BY <1>1, OwnershipHolds, PTL

(* A service shown as running whose process is gone does not stay so: its  *)
(* watcher, or a Stop, has yet to act.                                     *)
THEOREM CrashesNoticed == Spec => []CrashNoticed
<1>1. OwnershipInv => CrashNoticed
  BY DEF OwnershipInv, RecordsOK, ExitsOK, StoppedBy, StopPhase, CrashNoticed
<1> QED BY <1>1, OwnershipHolds, PTL

(* Only a watcher writes that a process exited.                            *)
LEMMA OnlyWatchersReportExits ==
  ASSUME TypeInv, OwnershipInv, NEW id \in Ids, procs[id].err = "start",
         \/ \E c \in Callers : Calls(c) \/ Step(c)
         \/ Environment
         \/ UNCHANGED vars
  PROVE  procs'[id].err # "exit"
<1>1. procs[id] \in Managed /\ gen + 1 \in Nat
  BY DEF TypeInv, TypeOK
<1>2. CASE procs' = procs
  BY <1>2
<1>3. ASSUME NEW c \in Callers,
             \/ StartNew(c) \/ Adopt(c) \/ Fail(c) \/ Confirm(c)
             \/ CallOff(c) \/ BeginStop(c) \/ EndStop(c)
      PROVE  procs'[id].err # "exit"
  <2>1. PICK t \in Ids : t = target[c] /\ Known(c) = procs[t]
    BY <1>3, CallerTypes DEF StartNew, Adopt, Fail, Confirm, CallOff, BeginStop, EndStop
  <2>2. \/ procs' = procs
        \/ procs' = [procs EXCEPT ![t] = Starting(gen + 1)] /\ gen + 1 \in Runs
        \/ procs' = [procs EXCEPT ![t] = WithHandle(@, TRUE)]
        \/ procs' = [procs EXCEPT ![t] = Failed(@, "start")]
        \/ procs' = [procs EXCEPT ![t] = Running(@)]
        \/ procs' = [procs EXCEPT ![t] = NeverStarted(@, gen + 1)]
        \/ procs' = [procs EXCEPT ![t] = Stopping(@)]
        \/ procs' = [procs EXCEPT ![t] = Stopped(@)]
    BY <1>3, <2>1 DEF StartNew, Adopt, Fail, Confirm, CallOff, BeginStop, EndStop
  <2>3. procs \in [Ids -> Managed] BY DEF TypeInv, TypeOK
  <2>4. CASE t = id
    <3>1. TRUE \in BOOLEAN /\ "start" \in Errors BY DEF Errors
    <3>2. WithHandle(procs[id], TRUE).err = "start"
      BY <1>1, <3>1, HandleWrite
    <3>4. Failed(procs[id], "start").err = "start"
      BY <1>1, <3>1, FailedWrite
    <3>5. Running(procs[id]).err = "none" /\ Stopped(procs[id]).err = "none"
      BY <1>1, RunningWrite, StoppedWrite
    <3>6. NeverStarted(procs[id], gen + 1).err = "start" /\ Stopping(procs[id]).err = "start"
      BY <1>1, NeverStartedWrite, StoppingWrite
    <3>3. gen + 1 \in Runs => Starting(gen + 1).err = "none"
      BY StartingWrite
    <3> QED BY <2>2, <2>3, <2>4, <3>2, <3>3, <3>4, <3>5, <3>6
  <2>5. CASE t # id
    <3>1. procs'[id] = procs[id] BY <2>2, <2>3, <2>5
    <3> QED BY <3>1
  <2> QED BY <2>4, <2>5
<1>4. CASE Environment
  <2>1. procs' = procs
    BY <1>4 DEF Environment, ProcessListens, ProcessExits, SocketReleased, OtherProgram, supVars
  <2> QED BY <2>1
<1>5. CASE UNCHANGED vars
  BY <1>5 DEF vars
<1>6. ASSUME NEW c \in Callers, Calls(c) PROVE procs'[id].err # "exit"
  <2>1. procs' = procs
    BY <1>6 DEF Calls, CallStart, CallStop, CallStopAll, supVars
  <2> QED BY <2>1
<1>7. ASSUME NEW c \in Callers, Step(c) PROVE procs'[id].err # "exit"
  <2>1. \/ procs' = procs
        \/ StartNew(c) \/ Adopt(c) \/ Fail(c) \/ Confirm(c)
        \/ CallOff(c) \/ BeginStop(c) \/ EndStop(c)
    BY <1>7 DEF Step, StartStep, StopStep, StartRefused, StartAlready, PortWaitDone, CalledOff,
         NotCalledOff, Spawn, SpawnFails, AdoptCalledOff, Discarded, BindWaitDone, GaveUp,
         ConfirmTooLate, NothingToStop, Kill, Terminated, ReleaseWaitDone, Close, Snapshot,
         StopNext, StoppedAll, supVars
  <2> QED BY <1>3, <2>1
<1> QED BY <1>4, <1>5, <1>6, <1>7

(* What went wrong at start is what stays shown: no watcher ever replaces  *)
(* it with the exit that followed.                                         *)
THEOREM StartErrorsKept == Spec => StartErrorKept
<1>1. ASSUME TypeInv, OwnershipInv, [Next]_vars, NEW id \in Ids, procs[id].err = "start"
      PROVE  procs'[id].err # "exit"
  <2>1. CASE \E g \in Runs : Watch(g)
    <3>1. PICK g \in Runs : Watch(g) BY <2>1
    <3> DEFINE h == home[g]
    <3>2. procs[id].state = "failed" BY <1>1 DEF OwnershipInv, RecordsOK
    <3>3. /\ procs \in [Ids -> Managed] /\ procs[id] \in Managed
      BY <1>1 DEF TypeInv, TypeOK
    <3>4. \/ procs' = procs
          \/ procs' = [procs EXCEPT ![h] = WithHandle(@, FALSE)]
          \/ h # id /\ procs' = [procs EXCEPT ![h] = Failed(@, "exit")]
      BY <1>1, <3>1, <3>2 DEF Watch
    <3>5. FALSE \in BOOLEAN OBVIOUS
    <3>6. WithHandle(procs[id], FALSE).err = "start"
      BY <1>1, <3>3, <3>5, HandleWrite
    <3> HIDE DEF h
    <3> QED BY <1>1, <3>3, <3>4, <3>6
  <2> QED BY <1>1, <2>1, OnlyWatchersReportExits DEF Next
<1>2. ASSUME TypeInv, OwnershipInv, [Next]_vars
      PROVE  [\A id \in Ids : procs[id].err = "start" /\ procs'[id].run = procs[id].run
                => procs'[id].err # "exit"]_vars
  BY <1>1, <1>2
<1> QED BY <1>2, OwnershipHolds, PTL DEF Spec, StartErrorKept

(***************************************************************************)
(* Shutdown: what is left of it to do, at every point of it                *)
(***************************************************************************)
(* Where a caller has a process of its own to deal with.                   *)
Dealing == {"adopt", "discard", "giveUp", "terminate"}

(* What a step of one caller, or of anything else, leaves once the         *)
(* supervisor is closing: no process is born but to be discarded, and      *)
(* nobody lets go of one that lives.                                       *)
Quits(c) ==
  /\ Others(c)
  /\ \A d \in Callers \ {c} : op'[d] = op[d] /\ todo'[d] = todo[d]
  /\ closing =>
       /\ closing' /\ home' = home
       /\ \A g \in Runs : Alive(g)' => Alive(g) \/ (mine'[c] = g /\ pc'[c] = "adopt")
       /\ pc[c] \in Dealing =>
            \/ \A g \in Runs : g = mine[c] => ~Alive(g)'
            \/ pc'[c] \in Dealing \ {"adopt"} /\ mine'[c] = mine[c]

LEMMA ReturnLeaves ==
  ASSUME TypeInv, NEW c \in Callers, NEW r, Return(c, r)
  PROVE  /\ pc'[c] = "idle" /\ op'[c] = "none" /\ todo' = todo /\ Others(c)
         /\ \A d \in Callers \ {c} : op'[d] = op[d]
         /\ down' = (down \/ op[c] = "shutdown")
BY DEF Return, Goto, DropLocals, Others, TypeInv, TypeOK

LEMMA AfterStopLeaves ==
  ASSUME TypeInv, NEW c \in Callers, NEW r, AfterStop(c, r)
  PROVE  /\ todo' = todo /\ Others(c)
         /\ \A d \in Callers \ {c} : op'[d] = op[d]
         /\ op[c] # "shutdown" => (down' <=> down) /\ op'[c] # "shutdown"
         /\ op[c] # "shutdown" => pc'[c] \in {"idle", "start", "next"}
         /\ op[c] = "shutdown" => /\ pc'[c] = "next" /\ op'[c] = "shutdown" /\ down' = down
                                  /\ target'[c] = target[c]
<1>1. op[c] # "shutdown" => (down' <=> down) /\ op'[c] # "shutdown"
  <2>1. CASE Return(c, r)
    BY <2>1 DEF Return, TypeInv, TypeOK
  <2>2. CASE down' = down /\ op' = op
    BY <2>2
  <2> QED BY <2>1, <2>2 DEF AfterStop, waiting
<1> QED
  BY <1>1, AfterStopPlaces DEF AfterStop, Return, Goto, DropLocals, Others, waiting, TypeInv, TypeOK

LEMMA StartStepQuits ==
  ASSUME TypeInv, NEW c \in Callers, StartStep(c)
  PROVE  Quits(c)
<1>1. CASE \/ StartRefused(c) \/ StartAlready(c) \/ CalledOff(c) \/ ConfirmTooLate(c)
           \/ Fail(c) \/ Confirm(c) \/ Discarded(c)
  <2>1. PICK r : Return(c, r)
    BY <1>1 DEF StartRefused, StartAlready, CalledOff, ConfirmTooLate, Fail, Confirm, Discarded
  <2>2. /\ UNCHANGED <<closing, proc, home>>
        /\ pc[c] \in {"start", "check", "confirm", "fail", "discard"}
        /\ pc[c] = "discard" => ~Alive(mine[c])
    BY <1>1 DEF StartRefused, StartAlready, CalledOff, ConfirmTooLate, Fail, Confirm, Discarded,
                supVars, osVars
  <2>3. \A g \in Runs : Alive(g)' <=> Alive(g)
    BY <2>2 DEF Alive
  <2>4. pc[c] = "discard" => \A g \in Runs : g = mine[c] => ~Alive(g)'
    BY <2>2 DEF Alive
  <2> QED BY <2>1, <2>2, <2>3, <2>4, ReturnLeaves DEF Quits, Dealing
<1>2. CASE Spawn(c)
  <2>1. pc[c] = "spawn" /\ mine[c] \in Runs
    BY <1>2 DEF Spawn, TypeInv, TargetOK, StartPhase, StartLabels
  <2>2. /\ pc'[c] = "adopt" /\ Others(c)
        /\ UNCHANGED <<closing, home, mine, op, todo>>
        /\ \A g \in Runs \ {mine[c]} : Alive(g)' <=> Alive(g)
    BY <1>2, <2>1 DEF Spawn, Goto, Others, Alive, supVars, callVars, TypeInv, TypeOK
  <2> QED BY <2>1, <2>2 DEF Quits, Dealing
<1>3. CASE \/ PortWaitDone(c) \/ NotCalledOff(c) \/ SpawnFails(c) \/ AdoptCalledOff(c)
           \/ BindWaitDone(c) \/ GaveUp(c)
  <2>1. /\ pc[c] \in {"portWait", "check", "spawn", "adopt", "bindWait", "giveUp"}
        /\ UNCHANGED <<closing, home, proc, mine, seen, target, op, todo>>
        /\ \A d \in Callers \ {c} : pc'[d] = pc[d]
    BY <1>3 DEF PortWaitDone, NotCalledOff, SpawnFails, AdoptCalledOff, BindWaitDone, GaveUp,
                Goto, supVars, callVars, osVars, TypeInv, TypeOK
  <2>2. /\ pc[c] = "adopt" => pc'[c] = "discard"
        /\ pc[c] = "giveUp" => ~Alive(mine[c])
    BY <1>3 DEF PortWaitDone, NotCalledOff, SpawnFails, AdoptCalledOff, BindWaitDone, GaveUp,
                Goto, TypeInv, TypeOK
  <2>3. \A g : Alive(g)' <=> Alive(g)
    BY <2>1 DEF Alive
  <2>4. pc[c] = "giveUp" => \A g \in Runs : g = mine[c] => ~Alive(g)'
    BY <2>1, <2>2 DEF Alive
  <2> QED BY <2>1, <2>2, <2>3, <2>4 DEF Quits, Dealing, Others
<1>4. CASE StartNew(c) \/ Adopt(c)
  <2>1. ~closing /\ Others(c) /\ UNCHANGED <<op, todo>>
    BY <1>4 DEF StartNew, Adopt, Goto, Others, callVars, TypeInv, TypeOK
  <2> QED BY <2>1 DEF Quits
<1> QED
  BY <1>1, <1>2, <1>3, <1>4 DEF StartStep

LEMMA StopStepQuits ==
  ASSUME TypeInv, OwnershipInv, NEW c \in Callers, StopStep(c)
  PROVE  Quits(c)
<1>1. CASE CallOff(c) \/ NothingToStop(c) \/ EndStop(c)
  <2>1. PICK r : AfterStop(c, r)
    BY <1>1 DEF CallOff, NothingToStop, EndStop
  <2>2. /\ UNCHANGED <<closing, proc, home>>
        /\ pc[c] \in {"stop", "released", "unreleased"}
    BY <1>1 DEF CallOff, NothingToStop, EndStop, supVars, osVars
  <2>3. \A g : Alive(g)' <=> Alive(g)
    BY <2>2 DEF Alive
  <2> QED BY <2>1, <2>2, <2>3, AfterStopLeaves DEF Quits, Dealing
<1>2. CASE StoppedAll(c)
  <2>1. /\ Return(c, ret[c]) /\ UNCHANGED <<closing, proc, home>> /\ pc[c] = "next"
    BY <1>2 DEF StoppedAll, supVars, osVars
  <2>2. \A g : Alive(g)' <=> Alive(g)
    BY <2>1 DEF Alive
  <2> QED BY <2>1, <2>2, ReturnLeaves DEF Quits, Dealing
<1>3. CASE Kill(c)
  <2>1. /\ pc[c] \in Dealing \ {"adopt"} /\ mine[c] \in Runs
    <3>1. pc[c] \in {"discard", "giveUp", "terminate"}
      BY <1>3 DEF Kill
    <3>2. OwnRun(c) BY DEF OwnershipInv, OwnRunOK
    <3> QED
      BY <3>1, <3>2 DEF Dealing, TypeInv, TargetOK, OwnRun, StartPhase, StartLabels, StopPhase
  <2>2. /\ UNCHANGED <<closing, pc, mine, seen, target, op, todo, home>>
        /\ \A g \in Runs : Alive(g)' => Alive(g)
    BY <1>3, <2>1 DEF Kill, Alive, supVars, callVars, TypeInv, TypeOK
  <2> QED BY <2>1, <2>2 DEF Quits, Others
<1>4. CASE BeginStop(c) \/ Close(c) \/ Snapshot(c) \/ StopNext(c)
  <2>1. /\ pc[c] \in {"stop", "close", "snapshot", "next"}
        /\ UNCHANGED <<proc, home>>
        /\ closing => closing'
        /\ Others(c)
        /\ \A d \in Callers \ {c} : op'[d] = op[d] /\ todo'[d] = todo[d]
    <3>1. CASE BeginStop(c)
      BY <3>1 DEF BeginStop, Goto, Others, osVars, TypeInv, TypeOK
    <3>2. CASE Close(c)
      BY <3>2 DEF Close, Goto, Others, callVars, osVars, TypeInv, TypeOK
    <3>3. CASE Snapshot(c) \/ StopNext(c)
      BY <3>3 DEF Snapshot, StopNext, Goto, Others, supVars, osVars, TypeInv, TypeOK
    <3> QED BY <1>4, <3>1, <3>2, <3>3
  <2>2. \A g : Alive(g)' <=> Alive(g)
    BY <2>1 DEF Alive
  <2> QED BY <2>1, <2>2 DEF Quits, Dealing
<1>5. CASE Terminated(c) \/ ReleaseWaitDone(c)
  <2>1. /\ pc[c] \in {"terminate", "release"}
        /\ pc[c] = "terminate" => ~Alive(mine[c])
        /\ UNCHANGED <<closing, home, proc, mine, seen, target, op, todo>>
        /\ \A d \in Callers \ {c} : pc'[d] = pc[d]
    BY <1>5 DEF Terminated, ReleaseWaitDone, Goto, supVars, callVars, osVars, TypeInv, TypeOK
  <2>2. \A g : Alive(g)' <=> Alive(g)
    BY <2>1 DEF Alive
  <2>3. pc[c] = "terminate" => \A g \in Runs : g = mine[c] => ~Alive(g)'
    BY <2>1 DEF Alive
  <2> QED BY <2>1, <2>2, <2>3 DEF Quits, Dealing, Others
<1> QED BY <1>1, <1>2, <1>3, <1>4, <1>5 DEF StopStep

(* Once closing, a process that is left to be stopped was so before.       *)
LEMMA QuitsUncondemned ==
  ASSUME closing, NEW c \in Callers, Quits(c)
  PROVE  Uncondemned' \subseteq Uncondemned
<1> SUFFICES ASSUME NEW g \in Runs, Alive(g)', ~Condemned(g)'
             PROVE  Alive(g) /\ ~Condemned(g)
  BY DEF Uncondemned
<1>1. closing' BY DEF Quits
<1>2. ~(mine'[c] = g /\ pc'[c] = "adopt")
  BY <1>1 DEF Condemned
<1>3. Alive(g) BY <1>2 DEF Quits
<1>4. ASSUME NEW d \in Callers, mine[d] = g, pc[d] \in Dealing PROVE FALSE
  <2>1. CASE d = c
    <3>1. pc'[c] \in Dealing \ {"adopt"} /\ mine'[c] = mine[c]
      BY <1>4, <2>1 DEF Quits
    <3> QED BY <1>4, <2>1, <3>1 DEF Condemned, Dealing
  <2>2. CASE d # c
    <3>1. pc'[d] \in Dealing /\ mine'[d] = g
      BY <1>4, <2>2 DEF Quits, Others
    <3> QED BY <1>1, <3>1 DEF Condemned, Dealing
  <2> QED BY <2>1, <2>2
<1> QED BY <1>3, <1>4 DEF Condemned, Dealing

(* Once closing, what is not being terminated is held by its record.       *)
LEMMA UncondemnedHeld ==
  ASSUME OwnershipInv, closing, NEW g \in Uncondemned
  PROVE  /\ g \in Runs /\ Alive(g) /\ home[g] \in Ids
         /\ procs[home[g]].run = g /\ procs[home[g]].handle
         /\ ~\E c \in Callers : mine[c] = g /\ pc[c] \in Dealing
<1>1. g \in Runs /\ Alive(g) /\ ~Condemned(g)
  BY DEF Uncondemned
<1>2. ~\E c \in Callers : mine[c] = g /\ pc[c] \in Dealing
  BY <1>1 DEF Condemned, Dealing
<1>3. ~Attended(g)
  BY <1>2 DEF Attended, Dealing
<1> QED
  BY <1>1, <1>2, <1>3 DEF OwnershipInv, NoUntrackedProcess, FreshOK, Held

(* What ShutdownOK says of one caller.                                     *)
ShuttingDown(c) ==
  /\ pc[c] = "close" => op[c] = "shutdown"
  /\ op[c] = "shutdown" => pc[c] \in StopLabels
  /\ op[c] = "shutdown" /\ pc[c] # "close" =>
       /\ closing
       /\ pc[c] # "snapshot" => \A g \in Uncondemned :
            home[g] \in todo[c] \/ (pc[c] = "stop" /\ home[g] = target[c])

LEMMA ShutdownCallers ==
  ShutdownOK <=> (down => closing /\ Uncondemned = {}) /\ \A c \in Callers : ShuttingDown(c)
BY DEF ShutdownOK, ShuttingDown

(* A caller's step does not disturb the other callers' shutdowns, nor one  *)
(* that has returned.                                                      *)
LEMMA OthersShutdown ==
  ASSUME ShutdownOK, NEW c \in Callers, Quits(c)
  PROVE  /\ \A d \in Callers \ {c} : ShuttingDown(d)'
         /\ down => closing' /\ Uncondemned' = {}
<1>1. closing => closing' /\ home' = home /\ Uncondemned' \subseteq Uncondemned
  BY QuitsUncondemned DEF Quits
<1>2. ASSUME NEW d \in Callers \ {c} PROVE ShuttingDown(d)'
  <2>1. /\ pc'[d] = pc[d] /\ target'[d] = target[d] /\ op'[d] = op[d] /\ todo'[d] = todo[d]
    BY <1>2 DEF Quits, Others
  <2>2. ShuttingDown(d)
    BY ShutdownCallers
  <2> QED BY <1>1, <2>1, <2>2 DEF ShuttingDown
<1>3. down => closing' /\ Uncondemned' = {}
  BY <1>1 DEF ShutdownOK
<1> QED BY <1>2, <1>3

LEMMA StartStepShutdown ==
  ASSUME TypeInv, ShutdownOK, NEW c \in Callers, StartStep(c)
  PROVE  ShutdownOK'
<1>1. pc[c] \in StartLabels
  BY DEF StartStep, StartRefused, StartAlready, StartNew, PortWaitDone, CalledOff, NotCalledOff,
         Spawn, SpawnFails, Adopt, AdoptCalledOff, Discarded, BindWaitDone, GaveUp, Fail,
         Confirm, ConfirmTooLate, StartLabels
<1>2. op[c] # "shutdown"
  BY <1>1 DEF ShutdownOK, StartLabels, StopLabels
<1>3. pc'[c] # "close" /\ op'[c] # "shutdown" /\ (down' <=> down)
  <2>1. CASE \/ StartRefused(c) \/ StartAlready(c) \/ CalledOff(c) \/ ConfirmTooLate(c)
             \/ Fail(c) \/ Confirm(c) \/ Discarded(c)
    <3>1. PICK r : Return(c, r)
      BY <2>1 DEF StartRefused, StartAlready, CalledOff, ConfirmTooLate, Fail, Confirm, Discarded
    <3>2. pc'[c] = "idle" /\ op'[c] = "none" /\ down' = (down \/ op[c] = "shutdown")
      BY <3>1, ReturnLeaves
    <3> QED BY <1>2, <3>2
  <2>2. CASE \/ PortWaitDone(c) \/ NotCalledOff(c) \/ SpawnFails(c) \/ AdoptCalledOff(c)
             \/ BindWaitDone(c) \/ GaveUp(c) \/ StartNew(c) \/ Spawn(c) \/ Adopt(c)
    <3>1. /\ op' = op /\ down' = down
          /\ pc'[c] \in {"check", "fail", "spawn", "discard", "giveUp", "confirm", "portWait",
                         "adopt", "bindWait"}
      BY <2>2 DEF PortWaitDone, NotCalledOff, SpawnFails, AdoptCalledOff, BindWaitDone, GaveUp,
                  StartNew, Spawn, Adopt, Goto, callVars, TypeInv, TypeOK
    <3> QED BY <1>2, <3>1
  <2> QED BY <2>1, <2>2 DEF StartStep
<1>4. ShuttingDown(c)'
  BY <1>3 DEF ShuttingDown
<1> QED
  BY <1>3, <1>4, StartStepQuits, OthersShutdown DEF ShutdownOK, ShuttingDown

(* A Stop made by Shutdown, step by step.                                  *)
LEMMA ShutdownStops ==
  ASSUME TypeInv, OwnershipInv, ShutdownOK, NEW c \in Callers, StopStep(c), op[c] = "shutdown"
  PROVE  ShuttingDown(c)' /\ (down' => down \/ (closing' /\ Uncondemned' = {}))
<1>1. Quits(c) /\ ShuttingDown(c)
  BY StopStepQuits, ShutdownCallers
<1>2. closing => closing' /\ home' = home /\ Uncondemned' \subseteq Uncondemned
  BY <1>1, QuitsUncondemned DEF Quits
<1>3. CASE Close(c)
  <2>1. pc'[c] = "snapshot" /\ closing' /\ op'[c] = "shutdown" /\ down' = down
    BY <1>3 DEF Close, Goto, callVars, TypeInv, TypeOK
  <2> QED BY <2>1 DEF ShuttingDown, StopLabels
<1> SUFFICES ASSUME ~Close(c)
             PROVE  ShuttingDown(c)' /\ (down' => down \/ (closing' /\ Uncondemned' = {}))
  BY <1>3
<1>4. closing /\ pc[c] # "close"
  <2>1. pc[c] # "close"
    BY DEF StopStep, CallOff, NothingToStop, BeginStop, Kill, Terminated, ReleaseWaitDone,
           EndStop, Snapshot, StopNext, StoppedAll
  <2> QED BY <1>1, <2>1 DEF ShuttingDown
<1>5. CASE Snapshot(c)
  <2>1. /\ pc'[c] = "next" /\ op'[c] = "shutdown" /\ down' = down
        /\ todo'[c] = {id \in Ids : procs[id].state # "absent"}
    BY <1>5 DEF Snapshot, Goto, TypeInv, TypeOK
  <2>2. ASSUME NEW g \in Uncondemned PROVE home[g] \in Ids /\ procs[home[g]].state # "absent"
    BY <1>4, UncondemnedHeld DEF OwnershipInv, RecordsOK
  <2> QED BY <1>2, <1>4, <2>1, <2>2 DEF ShuttingDown, StopLabels
<1>6. CASE StopNext(c)
  <2>1. PICK id \in todo[c] : /\ todo' = [todo EXCEPT ![c] = @ \ {id}]
                              /\ target' = [target EXCEPT ![c] = id]
    BY <1>6 DEF StopNext
  <2>2. /\ pc[c] = "next" /\ pc'[c] = "stop" /\ op'[c] = "shutdown" /\ down' = down
        /\ todo'[c] = todo[c] \ {id} /\ target'[c] = id
    BY <1>6, <2>1 DEF StopNext, Goto, TypeInv, TypeOK
  <2> QED BY <1>1, <1>2, <1>4, <2>2 DEF ShuttingDown, StopLabels
<1>7. CASE StoppedAll(c)
  <2>1. Return(c, ret[c]) /\ pc[c] = "next" /\ todo[c] = {}
    BY <1>7 DEF StoppedAll
  <2>2. pc'[c] = "idle" /\ op'[c] = "none"
    BY <2>1, ReturnLeaves
  <2>3. Uncondemned = {}
    BY <1>1, <2>1 DEF ShuttingDown
  <2> QED BY <1>2, <1>4, <2>2, <2>3 DEF ShuttingDown
<1>8. CASE Kill(c) \/ Terminated(c) \/ ReleaseWaitDone(c)
  <2>1. /\ pc[c] \in {"discard", "giveUp", "terminate", "release"}
        /\ pc'[c] \in {pc[c], "release", "released", "unreleased"}
        /\ UNCHANGED <<op, todo, down>>
    BY <1>8 DEF Kill, Terminated, ReleaseWaitDone, Goto, callVars, TypeInv, TypeOK
  <2> QED BY <1>1, <1>2, <1>4, <2>1 DEF ShuttingDown, StopLabels
<1>9. CASE EndStop(c)
  <2>1. pc[c] \in {"released", "unreleased"} /\ \E r : AfterStop(c, r)
    BY <1>9 DEF EndStop
  <2>2. pc'[c] = "next" /\ op'[c] = "shutdown" /\ down' = down /\ todo' = todo
    BY <2>1, AfterStopLeaves
  <2> QED BY <1>1, <1>2, <1>4, <2>1, <2>2 DEF ShuttingDown, StopLabels
<1>10. CASE CallOff(c) \/ NothingToStop(c)
  <2>1. pc[c] = "stop" /\ AfterStop(c, "ok")
    BY <1>10 DEF CallOff, NothingToStop
  <2>2. pc'[c] = "next" /\ op'[c] = "shutdown" /\ down' = down /\ todo' = todo
    BY <2>1, AfterStopLeaves
  <2>3. ASSUME NEW g \in Uncondemned, home[g] = target[c] PROVE FALSE
    <3>1. /\ g \in Runs /\ Alive(g) /\ home[g] \in Ids
          /\ procs[home[g]].run = g /\ procs[home[g]].handle
          /\ ~\E d \in Callers : mine[d] = g /\ pc[d] \in Dealing
      BY <1>4, UncondemnedHeld
    <3>2. procs[target[c]].handle /\ procs[target[c]].state \in {"stopped", "stopping"}
      BY <1>10, <2>3, <3>1 DEF CallOff, NothingToStop, Known
    <3>3. procs[home[g]].state = "stopping"
      BY <2>3, <3>1, <3>2 DEF OwnershipInv, RecordsOK
    <3>4. \E d \in Callers : pc[d] = "terminate" /\ mine[d] = g
      BY <3>1, <3>3 DEF OwnershipInv, StoppingOK
    <3> QED BY <3>1, <3>4 DEF Dealing
  <2> QED BY <1>1, <1>2, <1>4, <2>1, <2>2, <2>3 DEF ShuttingDown, StopLabels
<1>11. CASE BeginStop(c)
  <2>1. /\ pc[c] = "stop" /\ pc'[c] = "terminate" /\ UNCHANGED <<op, todo, down>>
        /\ mine'[c] = procs[target[c]].run
    BY <1>11 DEF BeginStop, Goto, Known, TypeInv, TypeOK
  <2>2. ASSUME NEW g \in Uncondemned', home[g] = target[c] PROVE FALSE
    <3>1. g \in Uncondemned
      BY <1>2, <1>4
    <3>2. procs[target[c]].run = g
      BY <1>4, <2>2, <3>1, UncondemnedHeld
    <3>3. Condemned(g)'
      BY <2>1, <3>2 DEF Condemned
    <3> QED BY <3>3 DEF Uncondemned
  <2> QED BY <1>1, <1>2, <1>4, <2>1, <2>2 DEF ShuttingDown, StopLabels
<1> QED BY <1>5, <1>6, <1>7, <1>8, <1>9, <1>10, <1>11 DEF StopStep

LEMMA StopStepShutdown ==
  ASSUME TypeInv, OwnershipInv, ShutdownOK, NEW c \in Callers, StopStep(c)
  PROVE  ShutdownOK'
<1>1. Quits(c)
  BY StopStepQuits
<1>2. CASE op[c] = "shutdown"
  BY <1>1, <1>2, ShutdownStops, OthersShutdown DEF ShutdownOK, ShuttingDown
<1>3. CASE op[c] # "shutdown"
  <2>1. ~Close(c)
    BY <1>3 DEF Close, ShutdownOK
  <2>2. pc'[c] # "close" /\ op'[c] # "shutdown" /\ (down' <=> down)
    <3>1. CASE CallOff(c) \/ NothingToStop(c) \/ EndStop(c)
      <4>1. PICK r : AfterStop(c, r)
        BY <3>1 DEF CallOff, NothingToStop, EndStop
      <4> QED BY <1>3, <4>1, AfterStopLeaves
    <3>2. CASE StoppedAll(c)
      <4>1. Return(c, ret[c])
        BY <3>2 DEF StoppedAll
      <4>2. pc'[c] = "idle" /\ op'[c] = "none" /\ down' = (down \/ op[c] = "shutdown")
        BY <4>1, ReturnLeaves
      <4> QED BY <1>3, <4>2
    <3>3. CASE BeginStop(c) \/ Terminated(c) \/ ReleaseWaitDone(c) \/ Snapshot(c) \/ StopNext(c)
      <4>1. /\ op' = op /\ down' = down
            /\ pc'[c] \in {"terminate", "release", "released", "unreleased", "next", "stop"}
        BY <3>3 DEF BeginStop, Terminated, ReleaseWaitDone, Snapshot, StopNext, Goto, callVars,
                    TypeInv, TypeOK
      <4> QED BY <1>3, <4>1
    <3>4. CASE Kill(c)
      <4>1. pc[c] # "close" /\ UNCHANGED <<pc, op, down>>
        BY <3>4 DEF Kill, callVars
      <4> QED BY <1>3, <4>1
    <3> QED BY <2>1, <3>1, <3>2, <3>3, <3>4 DEF StopStep
  <2>3. ShuttingDown(c)'
    BY <2>2 DEF ShuttingDown
  <2> QED
    BY <1>1, <2>2, <2>3, OthersShutdown DEF ShutdownOK, ShuttingDown
<1> QED BY <1>2, <1>3

LEMMA OtherStepShutdown ==
  ASSUME TypeInv, OwnershipInv, ShutdownOK,
         \/ \E c \in Callers : Calls(c)
         \/ \E g \in Runs : Watch(g)
         \/ Environment
         \/ UNCHANGED vars
  PROVE  ShutdownOK'
<1>1. ASSUME NEW c \in Callers, Calls(c) PROVE ShutdownOK'
  <2>1. pc[c] = "idle" /\ op[c] # "shutdown"
    <3>1. pc[c] = "idle"
      BY <1>1 DEF Calls, CallStart, CallStop, CallStopAll
    <3> QED BY <3>1 DEF ShutdownOK, StopLabels
  <2>2. /\ UNCHANGED <<closing, proc, home, mine, seen, todo, down>>
        /\ Others(c) /\ \A d \in Callers \ {c} : op'[d] = op[d]
    BY <1>1 DEF Calls, CallStart, CallStop, CallStopAll, Goto, Others, supVars, osVars,
                TypeInv, TypeOK
  <2>3. \A g : Alive(g)' <=> Alive(g)
    BY <2>2 DEF Alive
  <2>4. Quits(c)
    BY <2>1, <2>2, <2>3 DEF Quits, Dealing
  <2>5. \/ pc'[c] # "close" /\ op'[c] # "shutdown"
        \/ pc'[c] = "close" /\ op'[c] = "shutdown"
    BY <1>1 DEF Calls, CallStart, CallStop, CallStopAll, Goto, TypeInv, TypeOK
  <2>6. ShuttingDown(c)'
    BY <2>5 DEF ShuttingDown, StopLabels
  <2> QED
    BY <2>2, <2>4, <2>6, OthersShutdown DEF ShutdownOK, ShuttingDown
<1>2. ASSUME UNCHANGED <<closing, pc, op, target, mine, todo, home, down>>,
             \A g \in Runs : Alive(g)' => Alive(g)
      PROVE  ShutdownOK'
  <2>1. ASSUME closing PROVE Uncondemned' \subseteq Uncondemned
    BY <1>2, <2>1 DEF Uncondemned, Condemned
  <2> QED BY <1>2, <2>1 DEF ShutdownOK
<1>3. ASSUME NEW g \in Runs, Watch(g) PROVE ShutdownOK'
  <2>1. UNCHANGED <<closing, pc, op, target, mine, todo, home, down, proc>>
    BY <1>3 DEF Watch, callVars, osVars
  <2> QED BY <1>2, <2>1 DEF Alive
<1>4. ASSUME NEW g \in Runs, ProcessListens(g) \/ ProcessExits(g) \/ SocketReleased(g)
      PROVE  ShutdownOK'
  BY <1>2, <1>4
     DEF ProcessListens, ProcessExits, SocketReleased, Alive, supVars, callVars, TypeInv, TypeOK
<1>5. ASSUME NEW id \in Ids, OtherProgram(id) PROVE ShutdownOK'
  BY <1>2, <1>5 DEF OtherProgram, Alive, supVars, callVars
<1>6. CASE UNCHANGED vars
  BY <1>2, <1>6 DEF vars, Alive
<1> QED BY <1>1, <1>3, <1>4, <1>5, <1>6 DEF Environment

(* The strengthened invariant holds: once the supervisor is closing, what  *)
(* lives and is not being terminated is what Shutdown has yet to come to.  *)
THEOREM ShutdownInvariant == Spec => []ShutdownInv
<1>1. Init => ShutdownOK
  BY DEF Init, ShutdownOK
<1>2. TypeInv /\ [Next]_vars => TypeInv'
  BY StartStepTypeInv, StopStepTypeInv, OtherStepTypeInv DEF Next, Step
<1>3. TypeInv /\ OwnershipInv /\ ShutdownOK /\ [Next]_vars => ShutdownOK'
  BY StartStepShutdown, StopStepShutdown, OtherStepShutdown DEF Next, Step
<1> QED
  BY <1>1, <1>2, <1>3, InitTypeInv, InitOwnership, OwnershipInductive, PTL DEF Spec, ShutdownInv

(* "Nothing starts once Wharf is quitting", and nothing it started is left *)
(* behind: when a Shutdown has returned, every process that is still alive *)
(* is being terminated.                                                    *)
THEOREM NothingSurvives == Spec => []NothingSurvivesShutdown
<1>1. ShutdownInv => NothingSurvivesShutdown
  BY DEF ShutdownInv, ShutdownOK, Uncondemned, NothingSurvivesShutdown
<1> QED BY <1>1, ShutdownInvariant, PTL
===============================================================================
