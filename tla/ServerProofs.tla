----------------------------- MODULE ServerProofs -----------------------------
(***************************************************************************)
(* Theorems about the server's connections and their queues, for any       *)
(* number of connections and requests and any room in a queue.             *)
(***************************************************************************)
EXTENDS Server, SequenceTheorems, FiniteSetTheorems, TLAPS

-----------------------------------------------------------------------------
(* The inductive invariant.                                                *)

PlanSteps == {"act", "check", "looked up", "snapshot", "broadcast", "look", "answer"}

(* Steps after which a plan ends, or is replaced by another.               *)
Final == {"act", "check", "looked up", "answer"}
PlanOK(p) ==
  p \in Seq(PlanSteps) /\ \A i \in 1 .. Len(p) : p[i] \in Final => i = Len(p)

(* The parts of the types the rest relies on.                              *)
JobTypes ==
  /\ conn \in Seq(Conns \cup {NoConn}) /\ kind \in Seq(Kinds \cup {"crash"})
  /\ Len(kind) = Len(conn) /\ Len(conn) <= MaxJobs
  /\ wire \in [Conns -> Seq(Nat)]
  /\ DOMAIN plan = Jobs /\ \A j \in Jobs : PlanOK(plan[j])
  /\ DOMAIN serves = Conns /\ DOMAIN peer = Conns /\ outClosed \in [Conns -> BOOLEAN]
  /\ authorised \in [Conns -> BOOLEAN]
  /\ \A j \in Known : kind[j] = "crash" => conn[j] = NoConn

(* Requests come in the order in which they were sent, and one that has    *)
(* not been read, or not been sent, has nothing to do.                     *)
WireOf(c) ==
  /\ \A i \in 1 .. Len(wire[c]) : wire[c][i] \in On(c) /\ plan[wire[c][i]] = <<>>
  /\ \A i, k \in 1 .. Len(wire[c]) : i < k => wire[c][i] < wire[c][k]
WiresInOrder == \A c \in Conns : WireOf(c)
FreshIdle == \A j \in Jobs \ Known : plan[j] = <<>>

(* A request handled in order is the last its connection has read, and     *)
(* keeps the connection's goroutine.                                       *)
InFront(j) == InOrder(j) \/ ~authorised[conn[j]]
FrontOf(c) ==
  \A j \in On(c) :
    plan[j] # <<>> /\ InFront(j) =>
      /\ serves[c] = "busy"
      /\ \A k \in On(c) : plan[k] # <<>> /\ InFront(k) => k = j
      /\ \A i \in 1 .. Len(wire[c]) : j < wire[c][i]
OneInFront == \A c \in Conns : FrontOf(c)

(* A queue is closed at the connection's end, and stays so.                *)
ClosedOf(c) ==
  /\ outClosed[c] => serves[c] \in {"flush", "over"} /\ \A j \in On(c) : plan[j] = <<>>
  /\ peer[c] = "away" => serves[c] = "none"
ClosedAtEnd == \A c \in Conns : ClosedOf(c)

(* One job at most looks for an update, while the flag says so.            *)
LookupFlagged ==
  /\ \A j \in Jobs : LookingUp(j) => checking = TRUE
  /\ \A j, k \in Jobs : LookingUp(j) /\ LookingUp(k) => j = k
  /\ checking = FALSE \/ (checking = TRUE /\ \E j \in Jobs : LookingUp(j))

ServerInv == JobTypes /\ WiresInOrder /\ FreshIdle /\ OneInFront /\ ClosedAtEnd

-----------------------------------------------------------------------------
(* Plans.                                                                  *)
LEMMA WrittenOut ==
  /\ PlanOK(<<>>) /\ PlanOK(Reply) /\ PlanOK(Refuse) /\ PlanOK(<<"act">>) /\ PlanOK(<<"check">>)
  /\ PlanOK(Publish) /\ PlanOK(<<"looked up">>)
<1>1. ASSUME NEW step \in PlanSteps PROVE PlanOK(<<step>>)
  <2>1. <<step>> \in Seq(PlanSteps) /\ Len(<<step>>) = 1
    OBVIOUS
  <2> QED
    BY <2>1 DEF PlanOK
<1>2. ASSUME NEW step \in PlanSteps \ Final, NEW last \in PlanSteps
      PROVE  PlanOK(<<step, last>>)
  <2>1. <<step, last>> \in Seq(PlanSteps) /\ Len(<<step, last>>) = 2 /\ <<step, last>>[1] = step
    OBVIOUS
  <2> QED
    BY <2>1 DEF PlanOK
<1>3. PlanOK(<<>>)
  BY EmptySeq DEF PlanOK
<1>4. /\ {"act", "check", "looked up", "snapshot", "broadcast", "look", "answer"} = PlanSteps
      /\ "snapshot" \notin Final /\ "look" \notin Final
  BY DEF PlanSteps, Final
<1> QED
  BY <1>1, <1>2, <1>3, <1>4 DEF Reply, Refuse, Publish

LEMMA Published ==
  ASSUME NEW p, PlanOK(p)
  PROVE  /\ PlanOK(Publish \o p) /\ Publish \o p # <<>>
         /\ \A i \in DOMAIN (Publish \o p) : (Publish \o p)[i] = "looked up" =>
              i - 2 \in DOMAIN p /\ p[i - 2] = "looked up"
         /\ \A i \in DOMAIN p : i + 2 \in DOMAIN (Publish \o p) /\ (Publish \o p)[i + 2] = p[i]
<1>1. /\ Publish \in Seq(PlanSteps) /\ Len(Publish) = 2
      /\ Publish[1] = "snapshot" /\ Publish[2] = "broadcast"
  <2>1. "snapshot" \in PlanSteps /\ "broadcast" \in PlanSteps
    BY DEF PlanSteps
  <2> QED
    BY <2>1 DEF Publish
<1>2. p \in Seq(PlanSteps) /\ Len(p) \in Nat /\ DOMAIN p = 1 .. Len(p)
  BY DEF PlanOK
<1>3. /\ Publish \o p \in Seq(PlanSteps) /\ Len(Publish \o p) = 2 + Len(p)
      /\ \A i \in 1 .. 2 + Len(p) :
           (Publish \o p)[i] = IF i <= 2 THEN Publish[i] ELSE p[i - 2]
  <2>1. /\ Publish \o p \in Seq(PlanSteps) /\ Len(Publish \o p) = Len(Publish) + Len(p)
        /\ \A i \in 1 .. Len(Publish) + Len(p) :
             (Publish \o p)[i] = IF i <= Len(Publish) THEN Publish[i] ELSE p[i - Len(Publish)]
    BY <1>1, <1>2, ConcatProperties
  <2> QED
    BY <1>1, <2>1
<1>4. DOMAIN (Publish \o p) = 1 .. 2 + Len(p)
  BY <1>3, LenProperties
<1>5. ASSUME NEW i \in 1 .. 2 + Len(p)
      PROVE  \/ i <= 2 /\ (Publish \o p)[i] \in {"snapshot", "broadcast"}
             \/ i - 2 \in 1 .. Len(p) /\ (Publish \o p)[i] = p[i - 2]
  BY <1>1, <1>2, <1>3
<1>6. PlanOK(Publish \o p)
  <2>1. ASSUME NEW i \in 1 .. 2 + Len(p), (Publish \o p)[i] \in Final PROVE i = 2 + Len(p)
    <3>1. i - 2 \in 1 .. Len(p) /\ p[i - 2] \in Final
      BY <1>5, <2>1 DEF Final
    <3>2. i - 2 = Len(p)
      BY <3>1 DEF PlanOK
    <3> QED
      BY <1>2, <3>2
  <2> QED
    BY <1>3, <2>1 DEF PlanOK
<1>7. ASSUME NEW i \in 1 .. Len(p)
      PROVE  i + 2 \in 1 .. 2 + Len(p) /\ (Publish \o p)[i + 2] = p[i]
  <2>1. i + 2 \in 1 .. 2 + Len(p) /\ ~(i + 2 <= 2) /\ (i + 2) - 2 = i
    BY <1>2
  <2> QED
    BY <1>3, <2>1
<1>8. Publish \o p # <<>>
  BY <1>2, <1>3, EmptySeq
<1> QED
  BY <1>2, <1>4, <1>5, <1>6, <1>7, <1>8

LEMMA PlansOK ==
  /\ PlanOK(<<>>) /\ PlanOK(Reply) /\ PlanOK(Refuse) /\ PlanOK(<<"act">>) /\ PlanOK(<<"check">>)
  /\ PlanOK(Publish) /\ PlanOK(Publish \o Reply) /\ PlanOK(Publish \o Refuse)
  /\ PlanOK(Publish \o <<"looked up">>)
BY WrittenOut, Published

LEMMA PlanOfOK == \A k : PlanOK(PlanOf(k))
BY PlansOK DEF PlanOf

LEMMA TailOK ==
  ASSUME NEW p, PlanOK(p), p # <<>>
  PROVE  /\ PlanOK(Tail(p)) /\ (Head(p) \in Final => Tail(p) = <<>> /\ DOMAIN p = {1})
         /\ Head(p) = p[1]
         /\ \A i \in DOMAIN Tail(p) : Tail(p)[i] = p[i + 1] /\ i + 1 \in DOMAIN p
         /\ \A i \in DOMAIN p : i = 1 \/ (i - 1 \in DOMAIN Tail(p) /\ Tail(p)[i - 1] = p[i])
<1>0. p \in Seq(PlanSteps) /\ \A i \in 1 .. Len(p) : p[i] \in Final => i = Len(p)
  BY DEF PlanOK
<1>1. /\ Len(p) \in Nat \ {0} /\ Tail(p) \in Seq(PlanSteps) /\ Len(Tail(p)) = Len(p) - 1
      /\ \A i \in 1 .. Len(p) - 1 : Tail(p)[i] = p[i + 1]
      /\ DOMAIN p = 1 .. Len(p) /\ DOMAIN Tail(p) = 1 .. Len(p) - 1 /\ Head(p) = p[1]
  <2>1. /\ Tail(p) \in Seq(PlanSteps) /\ Len(Tail(p)) = Len(p) - 1
        /\ \A i \in 1 .. Len(Tail(p)) : Tail(p)[i] = p[i + 1]
    BY <1>0, HeadTailProperties
  <2>2. Len(p) \in Nat \ {0} /\ DOMAIN p = 1 .. Len(p) /\ DOMAIN Tail(p) = 1 .. Len(Tail(p))
    BY <1>0, <2>1, LenProperties, EmptySeq
  <2>3. Head(p) = p[1]
    BY <1>0
  <2> QED
    BY <2>1, <2>2, <2>3
<1>2. ASSUME NEW i \in 1 .. Len(p) - 1 PROVE i + 1 \in 1 .. Len(p) /\ Tail(p)[i] = p[i + 1]
  BY <1>1
<1>3. PlanOK(Tail(p))
  <2>1. ASSUME NEW i \in 1 .. Len(p) - 1, Tail(p)[i] \in Final PROVE i = Len(p) - 1
    <3>1. i + 1 = Len(p)
      BY <1>0, <1>2, <2>1
    <3>2. Len(p) \in Nat
      BY <1>1
    <3> QED
      BY <3>1, <3>2
  <2> QED
    BY <1>1, <2>1 DEF PlanOK
<1>4. ASSUME Head(p) \in Final PROVE Tail(p) = <<>> /\ DOMAIN p = {1}
  <2>1. 1 \in 1 .. Len(p) /\ p[1] \in Final
    BY <1>1, <1>4
  <2>2. Len(p) = 1
    BY <1>0, <2>1
  <2>3. Len(Tail(p)) = Len(p) - 1
    BY <1>1
  <2>4. Len(Tail(p)) = 0
    BY <2>2, <2>3
  <2>5. DOMAIN p = {1}
    BY <1>1, <2>2
  <2>6. Tail(p) = <<>>
    BY <1>1, <2>4, EmptySeq
  <2> QED
    BY <2>5, <2>6
<1>5. ASSUME NEW i \in 1 .. Len(p), i # 1
      PROVE  i - 1 \in 1 .. Len(p) - 1 /\ Tail(p)[i - 1] = p[i]
  <2>1. i - 1 \in 1 .. Len(p) - 1 /\ (i - 1) + 1 = i
    BY <1>1, <1>5
  <2> QED
    BY <1>1, <2>1
<1> QED
  BY <1>1, <1>2, <1>3, <1>4, <1>5

-----------------------------------------------------------------------------
LEMMA InitInv == Init => ServerInv
<1> SUFFICES ASSUME Init PROVE ServerInv
  OBVIOUS
<1>1. JobTypes
  <2>1. conn = <<>> /\ kind = <<>> /\ wire = [c \in Conns |-> <<>>] /\ plan = [j \in Jobs |-> <<>>]
    BY DEF Init
  <2>2. Len(conn) = 0 /\ Len(kind) = 0 /\ conn \in Seq(Conns \cup {NoConn})
        /\ kind \in Seq(Kinds \cup {"crash"}) /\ wire \in [Conns -> Seq(Nat)]
    BY <2>1
  <2>3. DOMAIN plan = Jobs /\ \A j \in Jobs : PlanOK(plan[j])
    BY <2>1, PlansOK
  <2>4. DOMAIN serves = Conns /\ DOMAIN peer = Conns /\ outClosed \in [Conns -> BOOLEAN]
    BY DEF Init
  <2>5. authorised \in [Conns -> BOOLEAN]
    BY DEF Init
  <2> QED
    BY <2>1, <2>2, <2>3, <2>4, <2>5, BoundsAssumption DEF JobTypes, Known
<1>2. Known = {}
  BY DEF Init, Known
<1>3. WiresInOrder /\ FreshIdle /\ OneInFront
  BY <1>2 DEF Init, WiresInOrder, WireOf, FreshIdle, OneInFront, FrontOf, On
<1>4. ClosedAtEnd
  BY WindowsAssumption DEF Init, ClosedAtEnd, ClosedOf
<1> QED
  BY <1>1, <1>3, <1>4 DEF ServerInv

-----------------------------------------------------------------------------
(* A handler's step changes its own plan, and at most lets the connection  *)
(* read on when it has answered.                                           *)
HandlerStep(j, p) ==
  /\ j \in Known /\ plan[j] # <<>> /\ PlanOK(p)
  /\ plan' = [plan EXCEPT ![j] = p]
  /\ UNCHANGED <<conn, kind, wire, authorised, outClosed, peer>>
  /\ \/ serves' = serves
     \/ /\ p = <<>> /\ (kind[j] \in Background => ~authorised[conn[j]])
        /\ \E next \in {"scan", "refused"} : serves' = [serves EXCEPT ![conn[j]] = next]

LEMMA HandleIsAStep ==
  ASSUME JobTypes, FreshIdle, NEW j \in Jobs, Handle(j)
  PROVE  \E p : HandlerStep(j, p)
<1>1. j \in Known /\ plan[j] # <<>> /\ PlanOK(plan[j])
  BY DEF JobTypes, FreshIdle, Handle, Act, Snapshot, Broadcast, Answer, Check, LookedUp, IsNext
<1>2. CASE Act(j) \/ Check(j) \/ LookedUp(j)
  <2>1. \E p : PlanOK(p) /\ plan' = [plan EXCEPT ![j] = p]
    BY <1>2, PlansOK DEF Act, Check, LookedUp, Then
  <2>2. UNCHANGED <<conn, kind, wire, authorised, outClosed, peer, serves>>
    BY <1>2 DEF Act, Check, LookedUp, otherVars, serverVars
  <2> QED
    BY <1>1, <2>1, <2>2 DEF HandlerStep
<1>3. CASE Snapshot(j) \/ Broadcast(j)
  <2>1. plan' = [plan EXCEPT ![j] = Tail(plan[j])]
    BY <1>3 DEF Snapshot, Broadcast, GoOn, Then
  <2>2. UNCHANGED <<conn, kind, wire, authorised, outClosed, peer, serves>>
    BY <1>3 DEF Snapshot, Broadcast, otherVars, serverVars, connVars, clientVars
  <2> QED
    BY <1>1, <2>1, <2>2, TailOK DEF HandlerStep
<1>4. CASE Answer(j)
  <2>1. plan' = [plan EXCEPT ![j] = <<>>]
    BY <1>1, <1>4, TailOK DEF Answer, GoOn, Then, IsNext, Final
  <2>2. UNCHANGED <<conn, kind, wire, authorised, outClosed, peer>>
    BY <1>4 DEF Answer, clientVars
  <2>3. \/ serves' = serves
        \/ /\ kind[j] \in Background => ~authorised[conn[j]]
           /\ \E next \in {"scan", "refused"} : serves' = [serves EXCEPT ![conn[j]] = next]
    BY <1>4 DEF Answer
  <2> QED
    BY <1>1, <2>1, <2>2, <2>3, PlansOK DEF HandlerStep
<1> QED
  BY <1>2, <1>3, <1>4 DEF Handle

LEMMA HandlerKeeps ==
  ASSUME ServerInv, NEW j \in Jobs, NEW p, HandlerStep(j, p)
  PROVE  ServerInv'
<1>1. /\ DOMAIN plan = Jobs /\ plan'[j] = p /\ \A k \in Jobs \ {j} : plan'[k] = plan[k]
      /\ \A k \in Jobs : plan'[k] # <<>> => plan[k] # <<>>
  BY DEF ServerInv, JobTypes, HandlerStep
<1>2. Known' = Known /\ \A c \in Conns : On(c)' = On(c) /\ On(c) \subseteq Jobs
  <2>1. conn' = conn
    BY DEF HandlerStep
  <2>2. Known \subseteq Jobs
    <3>1. DOMAIN conn = 1 .. Len(conn) /\ Len(conn) \in Nat /\ Len(conn) <= MaxJobs
      BY LenProperties DEF ServerInv, JobTypes
    <3> QED
      BY <3>1, BoundsAssumption DEF Known, Jobs
  <2> QED
    BY <2>1, <2>2 DEF Known, On
<1>3. \A k : InFront(k)' <=> InFront(k)
  BY DEF HandlerStep, InFront, InOrder
<1>4. JobTypes'
  <2>1. DOMAIN plan' = Jobs /\ \A k \in Jobs : PlanOK(plan'[k])
    BY DEF ServerInv, JobTypes, HandlerStep
  <2>2. DOMAIN serves' = Conns
    BY DEF ServerInv, JobTypes, HandlerStep
  <2>3. UNCHANGED <<conn, kind, wire, authorised, outClosed, peer>>
    BY DEF HandlerStep
  <2> QED
    BY <1>2, <2>1, <2>2, <2>3 DEF ServerInv, JobTypes
<1>5. WiresInOrder'
  <2>1. wire' = wire
    BY DEF HandlerStep
  <2>2. \A c \in Conns : \A i \in 1 .. Len(wire[c]) : wire[c][i] \in On(c) /\ wire[c][i] # j
    BY DEF ServerInv, WiresInOrder, WireOf, HandlerStep
  <2> QED
    BY <1>1, <1>2, <2>1, <2>2 DEF ServerInv, WiresInOrder, WireOf
<1>6. FreshIdle'
  BY <1>1, <1>2 DEF ServerInv, FreshIdle, HandlerStep
<1>7. ASSUME NEW c \in Conns PROVE FrontOf(c)'
  <2> SUFFICES ASSUME NEW k \in On(c), plan'[k] # <<>>, InFront(k)
               PROVE  /\ serves'[c] = "busy"
                      /\ \A l \in On(c) : plan'[l] # <<>> /\ InFront(l) => l = k
                      /\ \A i \in 1 .. Len(wire[c]) : k < wire[c][i]
    BY <1>2, <1>3 DEF FrontOf, HandlerStep
  <2>1. plan[k] # <<>>
    BY <1>1, <1>2
  <2>2. /\ serves[c] = "busy"
        /\ \A l \in On(c) : plan[l] # <<>> /\ InFront(l) => l = k
        /\ \A i \in 1 .. Len(wire[c]) : k < wire[c][i]
    BY <2>1 DEF ServerInv, OneInFront, FrontOf
  <2>3. serves'[c] = serves[c]
    <3>1. CASE conn[j] = c
      <4>1. j \in On(c)
        BY <3>1 DEF HandlerStep, On
      <4>2. CASE serves' # serves
        <5>1. p = <<>> /\ InFront(j)
          BY <3>1, <4>2, WindowsAssumption DEF ServerInv, JobTypes, HandlerStep, InFront, InOrder
        <5> QED
          BY <1>1, <2>2, <4>1, <5>1 DEF HandlerStep
      <4> QED
        BY <4>2
    <3>2. CASE conn[j] # c
      BY <3>2 DEF ServerInv, JobTypes, HandlerStep
    <3> QED
      BY <3>1, <3>2
  <2> QED
    BY <1>1, <1>2, <2>2, <2>3
<1>8. ASSUME NEW c \in Conns PROVE ClosedOf(c)'
  <2>1. ClosedOf(c)
    BY DEF ServerInv, ClosedAtEnd
  <2>2. outClosed' = outClosed /\ peer' = peer
    BY DEF HandlerStep
  <2>3. CASE serves'[c] = serves[c]
    BY <1>1, <1>2, <2>1, <2>2, <2>3 DEF ClosedOf
  <2>4. CASE serves'[c] # serves[c]
    <3>1. conn[j] = c /\ j \in On(c)
      BY <2>4 DEF ServerInv, JobTypes, HandlerStep, On
    <3>2. InFront(j)
      BY <2>4, <3>1, WindowsAssumption DEF ServerInv, JobTypes, HandlerStep, InFront, InOrder
    <3>3. ~outClosed[c] /\ serves[c] = "busy"
      BY <2>1, <3>1, <3>2 DEF ServerInv, OneInFront, FrontOf, ClosedOf, HandlerStep
    <3> QED
      BY <2>1, <2>2, <3>3 DEF ClosedOf
  <2> QED
    BY <2>3, <2>4
<1> QED
  BY <1>4, <1>5, <1>6, <1>7, <1>8 DEF ServerInv, OneInFront, ClosedAtEnd

-----------------------------------------------------------------------------
(* A step of a connection that is not busy leaves the jobs alone; its      *)
(* queue is closed only when none of them is at work.                      *)
ConnectionStep(c) ==
  /\ UNCHANGED <<conn, kind, plan, authorised>>
  /\ wire' = wire \/ wire' = [wire EXCEPT ![c] = <<>>]
  /\ \/ serves' = serves
     \/ serves[c] # "busy" /\ \E next : serves' = [serves EXCEPT ![c] = next]
  /\ \/ outClosed' = outClosed
     \/ outClosed' = [outClosed EXCEPT ![c] = TRUE] /\ \A j \in On(c) : plan[j] = <<>>
  /\ DOMAIN peer' = DOMAIN peer
  /\ \A d \in Conns \ {c} : peer'[d] = "away" => peer[d] = "away"
  /\ outClosed'[c] => serves'[c] \in {"flush", "over"}
  /\ peer'[c] = "away" => serves'[c] = "none"

LEMMA ConnectionKeeps ==
  ASSUME ServerInv, NEW c \in Conns, ConnectionStep(c)
  PROVE  ServerInv'
<1>1. Known' = Known /\ \A d \in Conns : On(d)' = On(d)
  BY DEF ConnectionStep, Known, On
<1>2. \A k : InFront(k)' <=> InFront(k)
  BY DEF ConnectionStep, InFront, InOrder
<1>3. wire \in [Conns -> Seq(Nat)] /\ DOMAIN serves = Conns /\ outClosed \in [Conns -> BOOLEAN]
  BY DEF ServerInv, JobTypes
<1>4. \A d \in Conns : wire'[d] = wire[d] \/ wire'[d] = <<>>
  BY <1>3 DEF ConnectionStep
<1>5. JobTypes'
  <2>1. wire' \in [Conns -> Seq(Nat)] /\ DOMAIN serves' = Conns /\ DOMAIN peer' = Conns
    <3>1. <<>> \in Seq(Nat)
      BY EmptySeq
    <3>2. wire' \in [Conns -> Seq(Nat)]
      BY <1>3, <3>1 DEF ConnectionStep
    <3> QED
      BY <1>3, <3>2 DEF ServerInv, JobTypes, ConnectionStep
  <2>2. outClosed' \in [Conns -> BOOLEAN]
    BY <1>3 DEF ConnectionStep
  <2>3. UNCHANGED <<conn, kind, plan, authorised>>
    BY DEF ConnectionStep
  <2> QED
    BY <1>1, <2>1, <2>2, <2>3 DEF ServerInv, JobTypes
<1>6. WiresInOrder'
  <2>1. SUFFICES ASSUME NEW d \in Conns PROVE WireOf(d)'
    BY DEF WiresInOrder
  <2>2. WireOf(d) /\ plan' = plan
    BY DEF ServerInv, WiresInOrder, ConnectionStep
  <2>3. CASE wire'[d] = wire[d]
    BY <1>1, <2>2, <2>3 DEF WireOf
  <2>4. CASE wire'[d] = <<>>
    BY <2>4 DEF WireOf
  <2> QED
    BY <1>4, <2>3, <2>4
<1>7. FreshIdle'
  BY <1>1 DEF ServerInv, FreshIdle, ConnectionStep
<1>8. ASSUME NEW d \in Conns PROVE FrontOf(d)'
  <2>1. SUFFICES ASSUME NEW j \in On(d), plan[j] # <<>>, InFront(j)
                 PROVE  /\ serves'[d] = "busy"
                        /\ \A k \in On(d) : plan[k] # <<>> /\ InFront(k) => k = j
                        /\ \A i \in 1 .. Len(wire'[d]) : j < wire'[d][i]
    BY <1>1, <1>2 DEF FrontOf, ConnectionStep
  <2>2. /\ serves[d] = "busy"
        /\ \A k \in On(d) : plan[k] # <<>> /\ InFront(k) => k = j
        /\ \A i \in 1 .. Len(wire[d]) : j < wire[d][i]
    BY <2>1 DEF ServerInv, OneInFront, FrontOf
  <2>3. serves'[d] = "busy"
    BY <1>3, <2>2 DEF ConnectionStep
  <2>4. \A i \in 1 .. Len(wire'[d]) : j < wire'[d][i]
    BY <1>4, <2>2
  <2> QED
    BY <2>2, <2>3, <2>4
<1>9. ASSUME NEW d \in Conns PROVE ClosedOf(d)'
  <2>1. ClosedOf(d) /\ plan' = plan
    BY DEF ServerInv, ClosedAtEnd, ConnectionStep
  <2>2. CASE d = c
    <3>1. outClosed'[c] => \A j \in On(c) : plan[j] = <<>>
      BY <2>1, <2>2 DEF ConnectionStep, ClosedOf
    <3> QED
      BY <1>1, <2>1, <2>2, <3>1 DEF ConnectionStep, ClosedOf
  <2>3. CASE d # c
    <3>1. /\ serves'[d] = serves[d] /\ outClosed'[d] = outClosed[d]
          /\ peer'[d] = "away" => peer[d] = "away"
      BY <1>3, <2>3 DEF ConnectionStep
    <3> QED
      BY <1>1, <2>1, <3>1 DEF ClosedOf
  <2> QED
    BY <2>2, <2>3
<1> QED
  BY <1>5, <1>6, <1>7, <1>8, <1>9 DEF ServerInv, OneInFront, ClosedAtEnd

LEMMA ConnectionsStep ==
  ASSUME ServerInv, NEW c \in Conns,
         \/ Accept(c) \/ Leave(c) \/ Register(c) \/ CloseOut(c) \/ End(c)
         \/ Write(c) \/ WriterEnds(c)
  PROVE  ConnectionStep(c)
<1>1. /\ ClosedOf(c) /\ wire \in [Conns -> Seq(Nat)] /\ DOMAIN serves = Conns
      /\ DOMAIN peer = Conns /\ outClosed \in [Conns -> BOOLEAN]
  BY DEF ServerInv, ClosedAtEnd, JobTypes
<1>2. CASE Accept(c)
  <2>1. peer' = [peer EXCEPT ![c] = "here"] /\ serves' = [serves EXCEPT ![c] = "accepted"]
        /\ serves[c] = "none" /\ UNCHANGED <<conn, kind, plan, authorised, wire, outClosed>>
    BY <1>1, <1>2 DEF Accept, ClosedOf, jobVars
  <2>2. ~outClosed[c]
    BY <1>1, <2>1 DEF ClosedOf
  <2>3. peer'[c] # "away" /\ \A d \in Conns \ {c} : peer'[d] = "away" => peer[d] = "away"
    BY <1>1, <2>1
  <2> QED
    BY <2>1, <2>2, <2>3 DEF ConnectionStep
<1>3. CASE Leave(c)
  <2>1. peer' = [peer EXCEPT ![c] = "left"] /\ peer[c] = "here"
        /\ UNCHANGED <<conn, kind, plan, authorised, wire, serves, outClosed>>
    BY <1>3 DEF Leave, jobVars, connVars
  <2>2. \A d \in Conns : peer'[d] = "away" => peer[d] = "away"
    BY <1>1, <2>1
  <2> QED
    BY <1>1, <2>1, <2>2 DEF ConnectionStep, ClosedOf
<1>4. CASE Register(c)
  BY <1>1, <1>4 DEF Register, ConnectionStep, ClosedOf, jobVars, clientVars
<1>5. CASE CloseOut(c)
  BY <1>1, <1>5 DEF CloseOut, Unreadable, ConnectionStep, ClosedOf, jobVars
<1>6. CASE End(c)
  BY <1>1, <1>6 DEF End, ConnectionStep, ClosedOf, jobVars, clientVars
<1>7. CASE Write(c) \/ WriterEnds(c)
  BY <1>1, <1>7 DEF Write, WriterEnds, ConnectionStep, ClosedOf, jobVars, clientVars
<1> QED
  BY <1>2, <1>3, <1>4, <1>5, <1>6, <1>7

-----------------------------------------------------------------------------
(* What changes the jobs of a connection: a request is sent, and read.     *)
LEMMA OneMore ==
  ASSUME JobTypes, Len(conn) < MaxJobs, NEW c \in Conns \cup {NoConn},
         NEW k \in Kinds \cup {"crash"}, conn' = Append(conn, c),
         kind' = Append(kind, k), k = "crash" => c = NoConn
  PROVE  /\ conn' \in Seq(Conns \cup {NoConn}) /\ kind' \in Seq(Kinds \cup {"crash"})
         /\ Len(conn') = Len(conn) + 1 /\ Len(kind') = Len(conn') /\ Len(conn') <= MaxJobs
         /\ Len(conn') \in Jobs \ Known /\ Known' = Known \cup {Len(conn')}
         /\ \A j \in Known : j < Len(conn') /\ conn'[j] = conn[j] /\ kind'[j] = kind[j]
         /\ conn'[Len(conn')] = c /\ kind'[Len(conn')] = k
         /\ \A j \in Known' : kind'[j] = "crash" => conn'[j] = NoConn
<1>1. /\ conn \in Seq(Conns \cup {NoConn}) /\ kind \in Seq(Kinds \cup {"crash"})
      /\ Len(kind) = Len(conn) /\ Len(conn) \in Nat /\ DOMAIN conn = 1 .. Len(conn)
      /\ MaxJobs \in Nat
  BY LenProperties, BoundsAssumption DEF JobTypes
<1>2. /\ conn' \in Seq(Conns \cup {NoConn}) /\ Len(conn') = Len(conn) + 1
      /\ conn'[Len(conn) + 1] = c /\ \A j \in 1 .. Len(conn) : conn'[j] = conn[j]
  BY <1>1, AppendProperties
<1>3. /\ kind' \in Seq(Kinds \cup {"crash"}) /\ Len(kind') = Len(kind) + 1
      /\ kind'[Len(kind) + 1] = k /\ \A j \in 1 .. Len(kind) : kind'[j] = kind[j]
  BY <1>1, AppendProperties
<1>4. Known = 1 .. Len(conn) /\ Known' = 1 .. Len(conn) + 1
  BY <1>1, <1>2, LenProperties DEF Known
<1>5. Len(conn) + 1 \in Jobs \ Known /\ Known' = Known \cup {Len(conn) + 1}
  BY <1>1, <1>4 DEF Jobs
<1>6. \A j \in Known : j < Len(conn) + 1 /\ conn'[j] = conn[j] /\ kind'[j] = kind[j]
  BY <1>1, <1>2, <1>3, <1>4
<1>7. conn'[Len(conn')] = c /\ kind'[Len(conn')] = k
  BY <1>1, <1>2, <1>3
<1>8. \A j \in Known' : kind'[j] = "crash" => conn'[j] = NoConn
  BY <1>2, <1>5, <1>6, <1>7 DEF JobTypes
<1>9. Len(conn') = Len(conn) + 1 /\ Len(kind') = Len(conn') /\ Len(conn') <= MaxJobs
  BY <1>1, <1>2, <1>3
<1>10. conn' \in Seq(Conns \cup {NoConn}) /\ kind' \in Seq(Kinds \cup {"crash"})
  BY <1>2, <1>3
<1>11. Len(conn') \in Jobs \ Known /\ Known' = Known \cup {Len(conn')}
  BY <1>5, <1>9
<1>12. \A j \in Known : j < Len(conn') /\ conn'[j] = conn[j] /\ kind'[j] = kind[j]
  BY <1>6, <1>9
<1> QED
  BY <1>7, <1>8, <1>9, <1>10, <1>11, <1>12

LEMMA SendKeeps ==
  ASSUME ServerInv, NEW c \in Conns, NEW k \in Kinds, Send(c, k)
  PROVE  ServerInv'
<1> DEFINE j == Len(conn')
<1>1. /\ conn' = Append(conn, c) /\ kind' = Append(kind, k)
      /\ wire' = [wire EXCEPT ![c] = Append(@, j)]
      /\ UNCHANGED <<plan, authorised, serves, outClosed, peer>>
      /\ Len(conn) < MaxJobs
  BY DEF Send, connVars
<1>2. JobTypes /\ k # "crash"
  BY DEF ServerInv, Kinds, Background
<1>3. /\ conn' \in Seq(Conns \cup {NoConn}) /\ kind' \in Seq(Kinds \cup {"crash"})
      /\ Len(kind') = Len(conn') /\ Len(conn') <= MaxJobs
      /\ j \in Jobs \ Known /\ Known' = Known \cup {j}
      /\ \A i \in Known : i < j /\ conn'[i] = conn[i] /\ kind'[i] = kind[i]
      /\ conn'[j] = c /\ kind'[j] = k
      /\ \A i \in Known' : kind'[i] = "crash" => conn'[i] = NoConn
  BY <1>1, <1>2, OneMore
<1>4. plan[j] = <<>> /\ j \in Nat
  BY <1>3 DEF ServerInv, FreshIdle, Jobs
<1>5. \A d \in Conns : On(d)' = IF d = c THEN On(d) \cup {j} ELSE On(d)
  BY <1>3 DEF On
<1>6. /\ wire \in [Conns -> Seq(Nat)]
      /\ Len(wire[c]) \in Nat /\ wire'[c] \in Seq(Nat) /\ Len(wire'[c]) = Len(wire[c]) + 1
      /\ wire'[c][Len(wire[c]) + 1] = j
      /\ \A i \in 1 .. Len(wire[c]) : wire'[c][i] = wire[c][i]
      /\ \A d \in Conns \ {c} : wire'[d] = wire[d]
  <2>1. wire \in [Conns -> Seq(Nat)] /\ wire[c] \in Seq(Nat)
    BY <1>2 DEF JobTypes
  <2>2. wire'[c] = Append(wire[c], j) /\ \A d \in Conns \ {c} : wire'[d] = wire[d]
    BY <1>1, <2>1
  <2>3. Len(wire[c]) \in Nat
    BY <2>1, LenProperties
  <2> QED
    BY <1>4, <2>1, <2>2, <2>3, AppendProperties
<1>7. JobTypes'
  <2>1. wire' \in [Conns -> Seq(Nat)]
    BY <1>1, <1>6
  <2> QED
    BY <1>1, <1>2, <1>3, <2>1 DEF JobTypes
<1>8. WiresInOrder'
  <2>1. SUFFICES ASSUME NEW d \in Conns PROVE WireOf(d)'
    BY DEF WiresInOrder
  <2>2. WireOf(d)
    BY DEF ServerInv, WiresInOrder
  <2>3. CASE d # c
    BY <1>1, <1>5, <1>6, <2>2, <2>3 DEF WireOf
  <2>4. CASE d = c
    <3>1. \A i \in 1 .. Len(wire'[c]) : i \in 1 .. Len(wire[c]) \/ i = Len(wire[c]) + 1
      BY <1>6
    <3>2. \A i \in 1 .. Len(wire[c]) : wire[c][i] \in On(c) /\ wire[c][i] < j
      BY <1>3, <2>2, <2>4 DEF WireOf, On
    <3>3. \A i \in 1 .. Len(wire'[c]) : wire'[c][i] \in On(c)' /\ plan'[wire'[c][i]] = <<>>
      BY <1>1, <1>4, <1>5, <1>6, <2>2, <2>4, <3>1 DEF WireOf
    <3>4. ASSUME NEW i \in 1 .. Len(wire'[c]), NEW l \in 1 .. Len(wire'[c]), i < l
          PROVE  wire'[c][i] < wire'[c][l]
      <4>1. i \in 1 .. Len(wire[c])
        BY <1>6, <3>4
      <4>2. CASE l \in 1 .. Len(wire[c])
        BY <1>6, <2>2, <2>4, <3>4, <4>1, <4>2 DEF WireOf
      <4>3. CASE l = Len(wire[c]) + 1
        BY <1>6, <3>2, <4>1, <4>3
      <4> QED
        BY <3>1, <4>2, <4>3
    <3> QED
      BY <2>4, <3>3, <3>4 DEF WireOf
  <2> QED
    BY <2>3, <2>4
<1>9. FreshIdle'
  BY <1>1, <1>3 DEF ServerInv, FreshIdle
<1>10. ASSUME NEW d \in Conns PROVE FrontOf(d)'
  <2>1. \A i \in Known : InFront(i)' <=> InFront(i)
    BY <1>1, <1>3 DEF InFront, InOrder
  <2>2. SUFFICES ASSUME NEW i \in On(d)', plan[i] # <<>>, InFront(i)'
                 PROVE  /\ serves[d] = "busy"
                        /\ \A l \in On(d)' : plan[l] # <<>> /\ InFront(l)' => l = i
                        /\ \A n \in 1 .. Len(wire'[d]) : i < wire'[d][n]
    BY <1>1 DEF FrontOf
  <2>3. i \in On(d) /\ i \in Known /\ InFront(i)
    BY <1>4, <1>5, <2>1, <2>2 DEF On
  <2>4. /\ serves[d] = "busy"
        /\ \A l \in On(d) : plan[l] # <<>> /\ InFront(l) => l = i
        /\ \A n \in 1 .. Len(wire[d]) : i < wire[d][n]
    BY <2>2, <2>3 DEF ServerInv, OneInFront, FrontOf
  <2>5. \A l \in On(d)' : plan[l] # <<>> /\ InFront(l)' => l = i
    BY <1>4, <1>5, <2>1, <2>4 DEF On
  <2>6. \A n \in 1 .. Len(wire'[d]) : i < wire'[d][n]
    <3>1. CASE d = c
      <4>1. ASSUME NEW n \in 1 .. Len(wire'[c])
              PROVE  n \in 1 .. Len(wire[c]) \/ n = Len(wire[c]) + 1
        BY <1>6
      <4>2. i < j
        BY <1>3, <2>3
      <4> QED
        BY <1>6, <2>4, <3>1, <4>1, <4>2
    <3>2. CASE d # c
      BY <1>6, <2>4, <3>2
    <3> QED
      BY <3>1, <3>2
  <2> QED
    BY <2>4, <2>5, <2>6
<1>11. ClosedAtEnd'
  BY <1>1, <1>4, <1>5 DEF ServerInv, ClosedAtEnd, ClosedOf
<1> QED
  BY <1>7, <1>8, <1>9, <1>10, <1>11 DEF ServerInv, OneInFront

LEMMA CrashKeeps ==
  ASSUME ServerInv, CrashSeen
  PROVE  ServerInv'
<1> DEFINE j == Len(conn')
<1>1. /\ conn' = Append(conn, NoConn) /\ kind' = Append(kind, "crash")
      /\ plan' = [plan EXCEPT ![j] = Publish] /\ Len(conn) < MaxJobs
      /\ UNCHANGED <<wire, authorised, serves, outClosed, peer>>
  BY DEF CrashSeen, Then
<1>2. JobTypes
  BY DEF ServerInv
<1>3. /\ conn' \in Seq(Conns \cup {NoConn}) /\ kind' \in Seq(Kinds \cup {"crash"})
      /\ Len(kind') = Len(conn') /\ Len(conn') <= MaxJobs
      /\ j \in Jobs \ Known /\ Known' = Known \cup {j}
      /\ \A i \in Known : i < j /\ conn'[i] = conn[i] /\ kind'[i] = kind[i]
      /\ conn'[j] = NoConn /\ kind'[j] = "crash"
      /\ \A i \in Known' : kind'[i] = "crash" => conn'[i] = NoConn
  BY <1>1, <1>2, OneMore
<1>4. \A i \in Jobs \ {j} : plan'[i] = plan[i]
  BY <1>1, <1>2 DEF JobTypes
<1>5. \A d \in Conns : On(d)' = On(d) /\ On(d) \subseteq Known
  BY <1>3, WindowsAssumption DEF On
<1>6. Known \subseteq Jobs \ {j}
  <2>1. DOMAIN conn = 1 .. Len(conn) /\ Len(conn) \in Nat /\ Len(conn) <= MaxJobs
    BY <1>2, LenProperties DEF JobTypes
  <2> QED
    BY <1>3, <2>1, BoundsAssumption DEF Known, Jobs
<1>7. JobTypes'
  <2>1. DOMAIN plan' = Jobs /\ \A i \in Jobs : PlanOK(plan'[i])
    BY <1>1, <1>2, PlansOK DEF JobTypes
  <2> QED
    BY <1>1, <1>2, <1>3, <2>1 DEF JobTypes
<1>8. \A d \in Conns : \A i \in On(d) : plan'[i] = plan[i] /\ (InFront(i)' <=> InFront(i))
  BY <1>1, <1>3, <1>4, <1>5, <1>6 DEF InFront, InOrder
<1>9. WiresInOrder'
  BY <1>1, <1>5, <1>8 DEF ServerInv, WiresInOrder, WireOf
<1>10. FreshIdle'
  BY <1>3, <1>4 DEF ServerInv, FreshIdle
<1>11. OneInFront'
  BY <1>1, <1>5, <1>8 DEF ServerInv, OneInFront, FrontOf
<1>12. ClosedAtEnd'
  BY <1>1, <1>5, <1>8 DEF ServerInv, ClosedAtEnd, ClosedOf
<1> QED
  BY <1>7, <1>9, <1>10, <1>11, <1>12 DEF ServerInv

LEMMA DispatchKeeps ==
  ASSUME ServerInv, NEW c \in Conns, Dispatch(c)
  PROVE  ServerInv'
<1> DEFINE j == Head(wire[c])
           p == IF authorised[c] THEN PlanOf(kind[j]) ELSE Refuse
<1>1. /\ serves[c] = "scan" /\ wire[c] # <<>> /\ wire' = [wire EXCEPT ![c] = Tail(@)]
      /\ authorised' = [authorised EXCEPT ![c] = @ \/ kind[j] = "auth"]
      /\ plan' = [plan EXCEPT ![j] = p]
      /\ serves' = [serves EXCEPT ![c] =
                      IF authorised[c] /\ kind[j] \in Background THEN "scan" ELSE "busy"]
      /\ UNCHANGED <<conn, kind, outClosed, peer>>
  BY DEF Dispatch
<1>2. JobTypes /\ WireOf(c) /\ FrontOf(c)
  BY DEF ServerInv, WiresInOrder, OneInFront
<1>3. /\ Len(wire[c]) \in Nat \ {0} /\ j = wire[c][1] /\ wire'[c] = Tail(wire[c])
      /\ wire'[c] \in Seq(Nat) /\ Len(wire'[c]) = Len(wire[c]) - 1
      /\ \A i \in 1 .. Len(wire[c]) - 1 : wire'[c][i] = wire[c][i + 1]
      /\ \A d \in Conns \ {c} : wire'[d] = wire[d]
  <2>1. wire \in [Conns -> Seq(Nat)] /\ wire[c] \in Seq(Nat)
    BY <1>2 DEF JobTypes
  <2>2. wire'[c] = Tail(wire[c]) /\ \A d \in Conns \ {c} : wire'[d] = wire[d]
    BY <1>1, <2>1
  <2>3. Len(wire[c]) \in Nat \ {0}
    BY <1>1, <2>1, EmptySeq
  <2>4. j = wire[c][1]
    BY <2>1, <1>1
  <2>5. /\ Tail(wire[c]) \in Seq(Nat) /\ Len(Tail(wire[c])) = Len(wire[c]) - 1
        /\ \A i \in 1 .. Len(Tail(wire[c])) : Tail(wire[c])[i] = wire[c][i + 1]
    BY <1>1, <2>1, HeadTailProperties
  <2> QED
    BY <2>2, <2>3, <2>4, <2>5
<1>4. j \in On(c) /\ plan[j] = <<>>
  <2>1. 1 \in 1 .. Len(wire[c])
    BY <1>3
  <2> QED
    BY <1>2, <1>3, <2>1 DEF WireOf
<1>5. Known' = Known /\ \A d \in Conns : On(d)' = On(d)
  BY <1>1 DEF Known, On
<1>6. Known \subseteq Jobs
  <2>1. DOMAIN conn = 1 .. Len(conn) /\ Len(conn) \in Nat /\ Len(conn) <= MaxJobs
    BY <1>2, LenProperties DEF JobTypes
  <2> QED
    BY <2>1, BoundsAssumption DEF Known, Jobs
<1>7. PlanOK(p)
  BY PlanOfOK, PlansOK
<1>8. \A i \in Jobs \ {j} : plan'[i] = plan[i]
  BY <1>1, <1>2 DEF JobTypes
<1>9. \A i \in 1 .. Len(wire'[c]) : i + 1 \in 1 .. Len(wire[c]) /\ wire'[c][i] = wire[c][i + 1]
                                    /\ j < wire'[c][i]
  <2>1. ASSUME NEW i \in 1 .. Len(wire[c]) - 1
        PROVE  i + 1 \in 1 .. Len(wire[c]) /\ 1 \in 1 .. Len(wire[c]) /\ 1 < i + 1
    BY <1>3
  <2> QED
    BY <1>2, <1>3, <2>1 DEF WireOf
<1>10. JobTypes'
  <2>1. wire' \in [Conns -> Seq(Nat)] /\ authorised' \in [Conns -> BOOLEAN]
    BY <1>1, <1>2, <1>3 DEF JobTypes
  <2>2. DOMAIN plan' = Jobs /\ \A i \in Jobs : PlanOK(plan'[i])
    BY <1>1, <1>2, <1>7 DEF JobTypes
  <2> QED
    BY <1>1, <1>2, <1>5, <2>1, <2>2 DEF JobTypes
<1>11. WiresInOrder'
  <2>1. SUFFICES ASSUME NEW d \in Conns PROVE WireOf(d)'
    BY DEF WiresInOrder
  <2>2. WireOf(d)
    BY DEF ServerInv, WiresInOrder
  <2>3. CASE d # c
    <3>1. ASSUME NEW i \in 1 .. Len(wire[d]) PROVE wire[d][i] # j /\ wire[d][i] \in Known
      BY <1>4, <2>2, <2>3 DEF WireOf, On
    <3>2. wire'[d] = wire[d] /\ On(d)' = On(d)
      BY <1>3, <1>5, <2>3
    <3>3. \A i \in 1 .. Len(wire[d]) : plan'[wire[d][i]] = plan[wire[d][i]]
      BY <1>6, <1>8, <3>1
    <3> QED
      BY <2>2, <3>2, <3>3 DEF WireOf
  <2>4. CASE d = c
    <3>1. \A i \in 1 .. Len(wire'[c]) : wire'[c][i] \in On(c) /\ plan'[wire'[c][i]] = <<>>
      <4>1. ASSUME NEW i \in 1 .. Len(wire'[c])
            PROVE  wire'[c][i] \in On(c) /\ plan[wire'[c][i]] = <<>> /\ wire'[c][i] # j
        <5>1. wire'[c][i] \in On(c) /\ plan[wire'[c][i]] = <<>> /\ j < wire'[c][i]
          BY <1>2, <1>9 DEF WireOf
        <5>2. j \in Nat /\ wire'[c][i] \in Nat
          <6>1. \A x \in On(c) : x \in Nat
            BY <1>6 DEF On, Jobs
          <6> QED
            BY <1>4, <5>1, <6>1
        <5>3. \A x, y \in Nat : x < y => y # x
          OBVIOUS
        <5> QED
          BY <5>1, <5>2, <5>3
      <4> QED
        BY <1>6, <1>8, <4>1 DEF On
    <3>2. ASSUME NEW i \in 1 .. Len(wire'[c]), NEW l \in 1 .. Len(wire'[c]), i < l
          PROVE  wire'[c][i] < wire'[c][l]
      <4>1. i + 1 < l + 1
        BY <1>3, <3>2
      <4> QED
        BY <1>2, <1>9, <4>1 DEF WireOf
    <3> QED
      BY <1>5, <2>4, <3>1, <3>2 DEF WireOf
  <2> QED
    BY <2>3, <2>4
<1>12. FreshIdle'
  BY <1>4, <1>5, <1>8 DEF ServerInv, FreshIdle, On
<1>13. ASSUME NEW d \in Conns PROVE FrontOf(d)'
  <2>1. SUFFICES ASSUME NEW i \in On(d), plan'[i] # <<>>, InFront(i)'
                 PROVE  /\ serves'[d] = "busy"
                        /\ \A l \in On(d) : plan'[l] # <<>> /\ InFront(l)' => l = i
                        /\ \A n \in 1 .. Len(wire'[d]) : i < wire'[d][n]
    BY <1>5 DEF FrontOf
  <2>2. CASE d # c
    <3>1. \A l \in On(d) : plan'[l] = plan[l] /\ (InFront(l)' <=> InFront(l))
      <4>1. \A l \in On(d) : l # j /\ l \in Jobs /\ conn[l] = d
        BY <1>4, <1>6, <2>2 DEF On
      <4>2. authorised'[d] = authorised[d]
        BY <1>1, <1>2, <2>2 DEF JobTypes
      <4> QED
        BY <1>1, <1>8, <4>1, <4>2 DEF InFront, InOrder
    <3>2. serves'[d] = serves[d] /\ wire'[d] = wire[d]
      BY <1>1, <1>2, <1>3, <2>2 DEF JobTypes
    <3> QED
      BY <2>1, <3>1, <3>2 DEF ServerInv, OneInFront, FrontOf
  <2>3. CASE d = c
    <3>1. \A l \in On(c) : InFront(l)' => InFront(l)
      BY <1>1, <1>2 DEF InFront, InOrder, On, JobTypes
    <3>2. \A l \in On(c) : plan'[l] # <<>> /\ InFront(l)' => l = j
      <4>1. \A l \in On(c) : plan[l] # <<>> => ~InFront(l)
        BY <1>1, <1>2 DEF FrontOf
      <4>2. On(c) \subseteq Jobs
        BY <1>6 DEF On
      <4> QED
        BY <1>8, <3>1, <4>1, <4>2
    <3>3. i = j /\ InFront(j)
      BY <2>1, <2>3, <3>1, <3>2
    <3>4. serves'[c] = "busy"
      <4>1. ~(authorised[c] /\ kind[j] \in Background)
        BY <1>4, <3>3 DEF InFront, InOrder, On
      <4> QED
        BY <1>1, <1>2, <4>1 DEF JobTypes
    <3> QED
      BY <1>9, <2>3, <3>2, <3>3, <3>4
  <2> QED
    BY <2>2, <2>3
<1>14. ASSUME NEW d \in Conns PROVE ClosedOf(d)'
  <2>1. ClosedOf(d)
    BY DEF ServerInv, ClosedAtEnd
  <2>2. CASE d = c
    BY <1>1, <2>1, <2>2 DEF ClosedOf
  <2>3. CASE d # c
    <3>1. serves'[d] = serves[d] /\ \A i \in On(d) : plan'[i] = plan[i]
      BY <1>1, <1>2, <1>4, <1>6, <1>8, <2>3 DEF On, JobTypes
    <3> QED
      BY <1>1, <1>5, <2>1, <3>1 DEF ClosedOf
  <2> QED
    BY <2>2, <2>3
<1> QED
  BY <1>10, <1>11, <1>12, <1>13, <1>14 DEF ServerInv, OneInFront, ClosedAtEnd

LEMMA NextInv == ServerInv /\ [Next]_vars => ServerInv'
<1> SUFFICES ASSUME ServerInv, [Next]_vars PROVE ServerInv'
  OBVIOUS
<1>1. CASE UNCHANGED <<conn, kind, plan, wire, authorised, serves, outClosed, peer>>
  <2>1. Known' = Known /\ (\A d \in Conns : On(d)' = On(d)) /\ \A j : InFront(j)' <=> InFront(j)
    BY <1>1 DEF Known, On, InFront, InOrder
  <2>2. JobTypes'
    BY <1>1, <2>1 DEF ServerInv, JobTypes
  <2>3. WiresInOrder' /\ FreshIdle'
    BY <1>1, <2>1 DEF ServerInv, WiresInOrder, WireOf, FreshIdle
  <2>4. OneInFront' /\ ClosedAtEnd'
    BY <1>1, <2>1 DEF ServerInv, OneInFront, FrontOf, ClosedAtEnd, ClosedOf
  <2> QED
    BY <2>2, <2>3, <2>4 DEF ServerInv
<1>2. CASE UNCHANGED vars
  BY <1>1, <1>2 DEF vars, jobVars, connVars, clientVars
<1>3. CASE Close
  BY <1>1, <1>3 DEF Close, jobVars, clientVars
<1>4. ASSUME NEW c \in Conns, NEW k \in Asks[c], Send(c, k) PROVE ServerInv'
  BY <1>4, AsksAssumption, SendKeeps
<1>5. ASSUME NEW c \in Conns, Dispatch(c) PROVE ServerInv'
  BY <1>5, DispatchKeeps
<1>6. ASSUME NEW c \in Conns,
             \/ Accept(c) \/ Leave(c) \/ Register(c) \/ CloseOut(c) \/ End(c)
             \/ Write(c) \/ WriterEnds(c)
      PROVE  ServerInv'
  BY <1>6, ConnectionsStep, ConnectionKeeps
<1>7. ASSUME NEW j \in Jobs, Handle(j) PROVE ServerInv'
  BY <1>7, HandleIsAStep, HandlerKeeps DEF ServerInv
<1>8. CASE CrashSeen
  BY <1>8, CrashKeeps
<1> QED
  BY <1>2, <1>3, <1>4, <1>5, <1>6, <1>7, <1>8 DEF Next, Serve

-----------------------------------------------------------------------------
(* Lookups.                                                                *)
LooksUp(p) == \E i \in DOMAIN p : p[i] = "looked up"

LEMMA NoLookups ==
  /\ ~LooksUp(<<>>) /\ ~LooksUp(Reply) /\ ~LooksUp(Refuse) /\ ~LooksUp(Publish)
  /\ \A k : ~LooksUp(PlanOf(k))
  /\ ~LooksUp(Publish \o Reply) /\ ~LooksUp(Publish \o Refuse)
  /\ LooksUp(Publish \o <<"looked up">>)
<1>1. ASSUME NEW a, a # "looked up" PROVE ~LooksUp(<<a>>)
  <2>1. DOMAIN <<a>> = {1} /\ <<a>>[1] = a
    OBVIOUS
  <2> QED
    BY <1>1, <2>1 DEF LooksUp
<1>2. ASSUME NEW a, NEW b, a # "looked up", b # "looked up" PROVE ~LooksUp(<<a, b>>)
  <2>1. DOMAIN <<a, b>> = {1, 2} /\ <<a, b>>[1] = a /\ <<a, b>>[2] = b
    OBVIOUS
  <2> QED
    BY <1>2, <2>1 DEF LooksUp
<1>3. ~LooksUp(<<>>)
  BY DEF LooksUp
<1>4. ~LooksUp(Reply) /\ ~LooksUp(Refuse) /\ ~LooksUp(Publish)
      /\ ~LooksUp(<<"act">>) /\ ~LooksUp(<<"check">>)
  BY <1>1, <1>2 DEF Reply, Refuse, Publish
<1>5. \A k : ~LooksUp(PlanOf(k))
  BY <1>4 DEF PlanOf
<1>6. ASSUME NEW p, PlanOK(p), ~LooksUp(p) PROVE ~LooksUp(Publish \o p)
  BY <1>6, Published DEF LooksUp
<1>7. LooksUp(Publish \o <<"looked up">>)
  <2>1. 1 \in DOMAIN <<"looked up">> /\ <<"looked up">>[1] = "looked up"
    OBVIOUS
  <2> QED
    BY <2>1, Published, PlansOK, WrittenOut DEF LooksUp
<1> QED
  BY <1>3, <1>4, <1>5, <1>6, <1>7, PlansOK

(* Only what is next can be the end of a plan.                             *)
LEMMA LastAlone ==
  ASSUME NEW p, PlanOK(p), p # <<>>, Head(p) \in Final
  PROVE  LooksUp(p) <=> Head(p) = "looked up"
<1>1. Head(p) = p[1] /\ DOMAIN p = {1}
  BY TailOK
<1> QED
  BY <1>1 DEF LooksUp

LEMMA TailLooksUp ==
  ASSUME NEW p, PlanOK(p), p # <<>>, Head(p) # "looked up"
  PROVE  LooksUp(Tail(p)) <=> LooksUp(p)
<1>2. Head(p) = p[1]
  BY TailOK
<1>3. \A i \in DOMAIN Tail(p) : Tail(p)[i] = p[i + 1] /\ i + 1 \in DOMAIN p
  BY TailOK
<1>4. \A i \in DOMAIN p : i = 1 \/ (i - 1 \in DOMAIN Tail(p) /\ Tail(p)[i - 1] = p[i])
  BY TailOK
<1>5. ASSUME LooksUp(Tail(p)) PROVE LooksUp(p)
  BY <1>3, <1>5 DEF LooksUp
<1>6. ASSUME LooksUp(p) PROVE LooksUp(Tail(p))
  <2>1. PICK i \in DOMAIN p : p[i] = "looked up"
    BY <1>6 DEF LooksUp
  <2>2. i # 1
    BY <1>2, <2>1
  <2> QED
    BY <1>4, <2>1, <2>2 DEF LooksUp
<1> QED
  BY <1>5, <1>6

LEMMA LookupsNext ==
  ASSUME ServerInv, LookupFlagged, [Next]_vars
  PROVE  LookupFlagged'
<1>1. /\ DOMAIN plan = Jobs /\ \A j \in Jobs : PlanOK(plan[j])
      /\ \A j \in Jobs : LookingUp(j) <=> LooksUp(plan[j])
      /\ \A j \in Jobs : LookingUp(j)' <=> LooksUp(plan'[j])
  BY DEF ServerInv, JobTypes, LookingUp, LooksUp
<1>2. ASSUME checking' = checking, \A j \in Jobs : LooksUp(plan'[j]) <=> LooksUp(plan[j])
      PROVE  LookupFlagged'
  BY <1>1, <1>2 DEF LookupFlagged
<1>3. ASSUME NEW j \in Jobs, NEW p, plan' = [plan EXCEPT ![j] = p], checking' = checking,
             LooksUp(p) <=> LooksUp(plan[j])
      PROVE  LookupFlagged'
  BY <1>1, <1>2, <1>3
<1>4. CASE UNCHANGED <<plan, checking>>
  BY <1>2, <1>4
<1>5. CASE UNCHANGED vars \/ Close
  BY <1>4, <1>5 DEF vars, jobVars, daemonVars, Close
<1>6. ASSUME NEW c \in Conns,
             \/ Accept(c) \/ Leave(c) \/ Register(c) \/ CloseOut(c) \/ End(c)
             \/ Write(c) \/ WriterEnds(c) \/ \E k \in Asks[c] : Send(c, k)
      PROVE  LookupFlagged'
  BY <1>4, <1>6 DEF Accept, Leave, Register, CloseOut, End, Write, WriterEnds, Send, jobVars,
       daemonVars
<1>7. ASSUME NEW c \in Conns, Dispatch(c) PROVE LookupFlagged'
  <2> DEFINE j == Head(wire[c])
             p == IF authorised[c] THEN PlanOf(kind[j]) ELSE Refuse
  <2>1. plan' = [plan EXCEPT ![j] = p] /\ checking' = checking
    BY <1>7 DEF Dispatch, daemonVars
  <2>2. j \in Jobs => plan[j] = <<>>
    <3>1. wire[c] \in Seq(Nat) /\ wire[c] # <<>> /\ WireOf(c)
      BY <1>7 DEF Dispatch, ServerInv, JobTypes, WiresInOrder
    <3>2. Len(wire[c]) \in Nat \ {0} /\ j = wire[c][1]
      BY <3>1, EmptySeq
    <3>3. 1 \in 1 .. Len(wire[c])
      BY <3>2
    <3> QED
      BY <3>1, <3>2, <3>3 DEF WireOf
  <2>3. ~LooksUp(p)
    BY NoLookups
  <2>4. CASE j \in Jobs
    BY <1>3, <2>1, <2>2, <2>3, <2>4, NoLookups
  <2>5. CASE j \notin Jobs
    BY <1>1, <1>2, <2>1, <2>5
  <2> QED
    BY <2>4, <2>5
<1>8. ASSUME NEW j \in Jobs, Snapshot(j) \/ Broadcast(j) \/ Answer(j) PROVE LookupFlagged'
  <2>1. /\ plan' = [plan EXCEPT ![j] = Tail(plan[j])] /\ checking' = checking
        /\ plan[j] # <<>> /\ Head(plan[j]) # "looked up"
    BY <1>8 DEF Snapshot, Broadcast, Answer, IsNext, GoOn, Then, daemonVars
  <2> QED
    BY <1>1, <1>3, <2>1, TailLooksUp
<1>9. ASSUME NEW j \in Jobs, Act(j) PROVE LookupFlagged'
  <2>1. plan[j] # <<>> /\ Head(plan[j]) = "act" /\ checking' = checking
    BY <1>9 DEF Act, IsNext
  <2>2. \E p : ~LooksUp(p) /\ plan' = [plan EXCEPT ![j] = p]
    BY <1>9, NoLookups DEF Act, Then
  <2>3. ~LooksUp(plan[j])
    BY <1>1, <2>1, LastAlone DEF Final
  <2> QED
    BY <1>3, <2>1, <2>2, <2>3
<1>10. ASSUME NEW j \in Jobs, Check(j) PROVE LookupFlagged'
  <2>1. plan[j] # <<>> /\ Head(plan[j]) = "check"
    BY <1>10 DEF Check, IsNext
  <2>2. ~LooksUp(plan[j])
    BY <1>1, <2>1, LastAlone DEF Final
  <2>3. CASE checking /\ plan' = [plan EXCEPT ![j] = Reply] /\ checking' = checking
    BY <1>3, <2>2, <2>3, NoLookups
  <2>4. CASE ~checking /\ plan' = [plan EXCEPT ![j] = Publish \o <<"looked up">>]
             /\ checking' = TRUE
    <3>1. checking = FALSE /\ \A k \in Jobs : ~LooksUp(plan[k])
      BY <1>1, <2>4 DEF LookupFlagged
    <3>2. \A k \in Jobs : LooksUp(plan'[k]) <=> k = j
      BY <1>1, <2>4, <3>1, NoLookups
    <3> QED
      BY <1>1, <2>4, <3>2 DEF LookupFlagged
  <2> QED
    BY <1>10, <2>3, <2>4 DEF Check, Then, seenVars
<1>11. ASSUME NEW j \in Jobs, LookedUp(j) PROVE LookupFlagged'
  <2>1. plan[j] # <<>> /\ Head(plan[j]) = "looked up" /\ checking' = FALSE
    BY <1>11 DEF LookedUp, IsNext
  <2>2. \E p : ~LooksUp(p) /\ plan' = [plan EXCEPT ![j] = p]
    BY <1>11, NoLookups DEF LookedUp, Then
  <2>3. LooksUp(plan[j])
    BY <1>1, <2>1, LastAlone DEF Final
  <2>4. \A k \in Jobs : ~LooksUp(plan'[k])
    BY <1>1, <2>2, <2>3 DEF LookupFlagged
  <2> QED
    BY <1>1, <2>1, <2>4 DEF LookupFlagged
<1>12. CASE CrashSeen
  <2>1. plan' = [plan EXCEPT ![Len(conn')] = Publish] /\ checking' = checking
        /\ Len(conn') \in Jobs \ Known
    <3>1. Len(conn) < MaxJobs /\ conn' = Append(conn, NoConn) /\ kind' = Append(kind, "crash")
      BY <1>12 DEF CrashSeen
    <3>2. Len(conn') \in Jobs \ Known
      BY <3>1, OneMore DEF ServerInv
    <3> QED
      BY <1>12, <3>2 DEF CrashSeen, Then
  <2>2. plan[Len(conn')] = <<>>
    BY <2>1 DEF ServerInv, FreshIdle
  <2> QED
    BY <1>3, <2>1, <2>2, NoLookups
<1> QED
  BY <1>5, <1>6, <1>7, <1>8, <1>9, <1>10, <1>11, <1>12 DEF Next, Serve, Handle

-----------------------------------------------------------------------------
(* Types.                                                                  *)
Ends == {<<>>, <<"looked up">>, Reply, Refuse}

LEMMA PlansWritten ==
  /\ {Reply, Refuse, <<"act">>, <<"check">>, <<>>, Publish} \subseteq Plans
  /\ \A p \in Ends : {p, <<"broadcast">> \o p, Publish \o p} \subseteq Plans
  /\ \A p \in Plans : \/ p \in {<<"act">>, <<"check">>} \cup Ends
                      \/ \E q \in Ends : p \in {<<"broadcast">> \o q, Publish \o q}
<1>1. \A p \in Ends : {p, <<"broadcast">> \o p, Publish \o p} \subseteq Plans
  BY DEF Plans, Ends
<1>2. Publish \o <<>> = Publish
  BY PlansOK, ConcatEmptySeq DEF PlanOK
<1>3. <<>> \in Ends
  BY DEF Ends
<1>4. Publish \in Plans /\ <<>> \in Plans
  BY <1>1, <1>2, <1>3
<1>5. {Reply, Refuse, <<"act">>, <<"check">>} \subseteq Plans
  BY DEF Plans
<1>6. \A p \in Plans : \/ p \in {<<"act">>, <<"check">>} \cup Ends
                       \/ \E q \in Ends : p \in {<<"broadcast">> \o q, Publish \o q}
  BY DEF Plans, Ends
<1> QED
  BY <1>1, <1>4, <1>5, <1>6

LEMMA TailOfOne ==
  ASSUME NEW S, NEW e \in S, NEW q \in Seq(S)
  PROVE  /\ Tail(<<e>> \o q) = q /\ <<e>> \o q \in Seq(S)
<1>1. <<e>> \in Seq(S) /\ Len(<<e>>) = 1 /\ Len(q) \in Nat
  BY LenProperties
<1>2. /\ <<e>> \o q \in Seq(S) /\ Len(<<e>> \o q) = 1 + Len(q)
      /\ \A i \in 1 .. 1 + Len(q) : (<<e>> \o q)[i] = IF i <= 1 THEN <<e>>[i] ELSE q[i - 1]
  BY <1>1, ConcatProperties
<1>3. <<e>> \o q # <<>>
  BY <1>1, <1>2, EmptySeq
<1>4. /\ Tail(<<e>> \o q) \in Seq(S) /\ Len(Tail(<<e>> \o q)) = Len(<<e>> \o q) - 1
      /\ \A i \in 1 .. Len(Tail(<<e>> \o q)) : Tail(<<e>> \o q)[i] = (<<e>> \o q)[i + 1]
  BY <1>2, <1>3, HeadTailProperties
<1>5. Len(Tail(<<e>> \o q)) = Len(q)
  BY <1>1, <1>2, <1>4
<1>6. ASSUME NEW i \in 1 .. Len(q) PROVE Tail(<<e>> \o q)[i] = q[i]
  <2>1. i + 1 \in 1 .. 1 + Len(q) /\ ~(i + 1 <= 1) /\ (i + 1) - 1 = i
    BY <1>1
  <2>2. (<<e>> \o q)[i + 1] = q[i]
    BY <1>2, <2>1
  <2> QED
    BY <1>4, <1>5, <2>2
<1>7. Tail(<<e>> \o q) = q
  BY <1>4, <1>5, <1>6, SeqEqual
<1> QED
  BY <1>2, <1>7

(* What is left of a plan when a step of it is done.                       *)
LEMMA TailPlans ==
  ASSUME NEW p \in Plans, p # <<>>
  PROVE  Tail(p) \in Plans
<1>1. PlanSteps # {} /\ "broadcast" \in PlanSteps /\ "snapshot" \in PlanSteps
      /\ "look" \in PlanSteps
  BY DEF PlanSteps
<1>2. \A e \in PlanSteps : Tail(<<e>>) = <<>>
  <2>1. ASSUME NEW e \in PlanSteps PROVE Tail(<<e>>) = <<>>
    <3>1. <<>> \in Seq(PlanSteps) /\ <<e>> \o <<>> = <<e>>
      BY EmptySeq, ConcatEmptySeq
    <3> QED
      BY <3>1, TailOfOne
  <2> QED
    BY <2>1
<1>3. Tail(Reply) = Refuse
  BY DEF Reply, Refuse
<1>4. ASSUME NEW q \in Ends
      PROVE  /\ Tail(<<"broadcast">> \o q) = q
             /\ Tail(Publish \o q) = <<"broadcast">> \o q
  <2>1. q \in Seq(PlanSteps)
    BY PlansOK, WrittenOut DEF Ends, PlanOK
  <2>2. Tail(<<"broadcast">> \o q) = q /\ <<"broadcast">> \o q \in Seq(PlanSteps)
    BY <1>1, <2>1, TailOfOne
  <2>3. Publish \o q = <<"snapshot">> \o (<<"broadcast">> \o q)
    <3>1. Publish = <<"snapshot">> \o <<"broadcast">>
      BY DEF Publish
    <3>2. <<"snapshot">> \in Seq(PlanSteps) /\ <<"broadcast">> \in Seq(PlanSteps)
      BY <1>1
    <3> QED
      BY <2>1, <3>1, <3>2, ConcatAssociative
  <2> QED
    BY <1>1, <2>2, <2>3, TailOfOne
<1>5. CASE p \in {<<"act">>, <<"check">>, <<"looked up">>, Refuse}
  <2>1. Tail(p) = <<>>
    BY <1>2, <1>5 DEF PlanSteps, Refuse
  <2> QED
    BY <2>1, PlansWritten
<1>6. CASE p = Reply
  BY <1>3, <1>6, PlansWritten
<1>7. CASE \E q \in Ends : p \in {<<"broadcast">> \o q, Publish \o q}
  BY <1>4, <1>7, PlansWritten
<1> QED
  BY <1>5, <1>6, <1>7, PlansWritten DEF Ends

(* The types of what is not in JobTypes, and of its functions.             *)
FlagTypes ==
  /\ mu \in Jobs \cup {Nobody}
  /\ untold \in BOOLEAN /\ checking \in BOOLEAN /\ closed \in BOOLEAN
  /\ listed \subseteq Conns /\ behind \subseteq Windows
  /\ serves \in [Conns -> {"none", "accepted", "scan", "busy", "refused", "flush", "over"}]
  /\ hungUp \in [Conns -> BOOLEAN] /\ gone \in [Conns -> BOOLEAN]
  /\ peer \in [Conns -> {"away", "here", "left"}]
PlanTypes == plan \in [Jobs -> Plans] /\ snap \in [Jobs -> Snapshots]
QueueTypes == out \in [Conns -> Seq(Lines)] /\ \A c \in Conns : Len(out[c]) <= QueueLen
Types == FlagTypes /\ PlanTypes /\ QueueTypes

LEMMA InitTypes == Init => Types
<1> SUFFICES ASSUME Init PROVE Types
  OBVIOUS
<1>1. FlagTypes
  BY WindowsAssumption DEF Init, FlagTypes
<1>2. PlanTypes
  BY PlansWritten DEF Init, PlanTypes, Snapshots
<1>3. QueueTypes
  BY EmptySeq, BoundsAssumption DEF Init, QueueTypes
<1> QED
  BY <1>1, <1>2, <1>3 DEF Types

LEMMA FlagsStep ==
  ASSUME FlagTypes, QueueTypes, [Next]_vars
  PROVE  FlagTypes'
<1>1. CASE UNCHANGED vars
  BY <1>1 DEF vars, daemonVars, serverVars, connVars, clientVars, FlagTypes
<1>2. ASSUME NEW c \in Conns, Accept(c) \/ Leave(c) PROVE FlagTypes'
  BY <1>2 DEF Accept, Leave, FlagTypes, daemonVars, serverVars, connVars
<1>3. ASSUME NEW c \in Conns, NEW k, Send(c, k) PROVE FlagTypes'
  BY <1>3 DEF Send, FlagTypes, daemonVars, serverVars, connVars
<1>4. ASSUME NEW c \in Conns, Register(c) \/ CloseOut(c) \/ End(c) PROVE FlagTypes'
  BY <1>4 DEF Register, CloseOut, End, FlagTypes, daemonVars, serverVars, clientVars
<1>5. ASSUME NEW c \in Conns, Dispatch(c) PROVE FlagTypes'
  <2>1. \E s \in {"scan", "busy"} : serves' = [serves EXCEPT ![c] = s]
    BY <1>5 DEF Dispatch
  <2> QED
    BY <1>5, <2>1 DEF Dispatch, FlagTypes, daemonVars, serverVars
<1>6. ASSUME NEW c \in Conns, Write(c) PROVE FlagTypes'
  <2>1. Head(out[c]) \in Lines
    BY <1>6, HeadTailProperties DEF Write, QueueTypes
  <2>2. Head(out[c]).shows \in {"none", "old", "new"}
    BY <2>1 DEF Lines, Snapshots
  <2>3. behind' \subseteq Windows
    BY <1>6, <2>2 DEF Write, Shown, FlagTypes
  <2> QED
    BY <1>6, <2>3 DEF Write, FlagTypes, daemonVars, serverVars
<1>7. ASSUME NEW c \in Conns, WriterEnds(c) PROVE FlagTypes'
  BY <1>7 DEF WriterEnds, FlagTypes, daemonVars, serverVars, clientVars
<1>8. CASE Close
  BY <1>8 DEF Close, FlagTypes, daemonVars, clientVars
<1>9. ASSUME NEW j \in Jobs, Act(j) \/ Check(j) \/ LookedUp(j) PROVE FlagTypes'
  BY <1>9 DEF Act, Check, LookedUp, Changes, seenVars, otherVars, serverVars, FlagTypes
<1>10. ASSUME NEW j \in Jobs, Snapshot(j) PROVE FlagTypes'
  BY <1>10 DEF Snapshot, daemonVars, serverVars, connVars, clientVars, FlagTypes
<1>11. ASSUME NEW j \in Jobs, Broadcast(j) PROVE FlagTypes'
  BY <1>11 DEF Broadcast, otherVars, serverVars, FlagTypes
<1>12. ASSUME NEW j \in Jobs, Answer(j) PROVE FlagTypes'
  <2>1. \/ serves' = serves
        \/ \E s \in {"refused", "scan"} : serves' = [serves EXCEPT ![conn[j]] = s]
    BY <1>12 DEF Answer
  <2> QED
    BY <1>12, <2>1 DEF Answer, daemonVars, serverVars, clientVars, FlagTypes
<1>13. CASE CrashSeen
  BY <1>13 DEF CrashSeen, Changes, serverVars, FlagTypes
<1> QED
  BY <1>1, <1>2, <1>3, <1>4, <1>5, <1>6, <1>7, <1>8, <1>9, <1>10, <1>11, <1>12, <1>13
  DEF Next, Serve, Handle

LEMMA PlansStep ==
  ASSUME PlanTypes, [Next]_vars
  PROVE  PlanTypes'
<1>1. plan \in [Jobs -> Plans] /\ snap \in [Jobs -> Snapshots]
  BY DEF PlanTypes
<1>2. \A j, p : p \in Plans /\ Then(j, p) => plan' \in [Jobs -> Plans]
  BY <1>1 DEF Then
<1>3. \A j \in Jobs : plan[j] # <<>> /\ GoOn(j) => plan' \in [Jobs -> Plans]
  BY <1>1, <1>2, TailPlans DEF GoOn
<1>4. Changes => snap' \in [Jobs -> Snapshots]
  BY <1>1 DEF Changes, Aged, Snapshots
<1>5. {Refuse, Reply} \subseteq Ends /\ <<"looked up">> \in Ends
  BY DEF Ends
<1>6. {Refuse, Reply, Publish \o Reply, Publish \o Refuse, Publish \o <<"looked up">>, Publish}
        \subseteq Plans
  BY <1>5, PlansWritten
<1>7. CASE UNCHANGED <<plan, snap>>
  BY <1>1, <1>7 DEF PlanTypes
<1>8. ASSUME NEW c \in Conns,
             \/ Accept(c) \/ Leave(c) \/ Register(c) \/ CloseOut(c) \/ End(c)
             \/ Write(c) \/ WriterEnds(c) \/ \E k \in Asks[c] : Send(c, k)
      PROVE  UNCHANGED <<plan, snap>>
  BY <1>8 DEF Accept, Leave, Register, CloseOut, End, Write, WriterEnds, Send, jobVars
<1>9. ASSUME NEW c \in Conns, Dispatch(c) PROVE PlanTypes'
  <2>1. \A k : PlanOf(k) \in Plans
    BY PlansWritten DEF PlanOf
  <2>2. \E p \in Plans : Then(Head(wire[c]), p)
    BY <1>6, <1>9, <2>1 DEF Dispatch, Then
  <2> QED
    BY <1>1, <1>2, <1>9, <2>2 DEF Dispatch, PlanTypes
<1>10. ASSUME NEW j \in Jobs, Act(j) \/ Check(j) \/ LookedUp(j) PROVE PlanTypes'
  <2>1. \E p \in Plans : Then(j, p)
    BY <1>6, <1>10 DEF Act, Check, LookedUp
  <2>2. snap' = snap \/ Changes
    BY <1>10 DEF Act, Check, LookedUp, seenVars
  <2> QED
    BY <1>1, <1>2, <1>4, <2>1, <2>2 DEF PlanTypes
<1>11. ASSUME NEW j \in Jobs, Snapshot(j) \/ Broadcast(j) \/ Answer(j) PROVE PlanTypes'
  <2>1. plan[j] # <<>> /\ GoOn(j)
    BY <1>11 DEF Snapshot, Broadcast, Answer, IsNext
  <2>2. \E s \in Snapshots : snap' = [snap EXCEPT ![j] = s]
    BY <1>11 DEF Snapshot, Broadcast, Answer, Snapshots
  <2> QED
    BY <1>1, <1>3, <2>1, <2>2 DEF PlanTypes
<1>12. CASE CrashSeen
  BY <1>2, <1>4, <1>6, <1>12 DEF CrashSeen, PlanTypes
<1>13. CASE UNCHANGED vars \/ Close
  BY <1>7, <1>13 DEF vars, Close, jobVars
<1> QED
  BY <1>7, <1>8, <1>9, <1>10, <1>11, <1>12, <1>13 DEF Next, Serve, Handle

(* The lines that wait on a queue age, come and go, and never exceed it.   *)
LEMMA AgedLines ==
  ASSUME NEW q \in Seq(Lines)
  PROVE  LET aged == [i \in DOMAIN q |-> [q[i] EXCEPT !.shows = Aged(@)]]
         IN aged \in Seq(Lines) /\ Len(aged) = Len(q)
<1> DEFINE aged == [i \in DOMAIN q |-> [q[i] EXCEPT !.shows = Aged(@)]]
<1>1. Len(q) \in Nat /\ DOMAIN q = 1 .. Len(q) /\ \A i \in 1 .. Len(q) : q[i] \in Lines
  BY LenProperties, ElementOfSeq
<1>2. \A l \in Lines : [l EXCEPT !.shows = Aged(@)] \in Lines
  BY DEF Lines, Aged, Snapshots
<1>3. aged \in [1 .. Len(q) -> Lines]
  BY <1>1, <1>2
<1>4. aged \in Seq(Lines)
  BY <1>1, <1>3, SeqDef
<1>5. Len(aged) \in Nat /\ DOMAIN aged = 1 .. Len(aged) /\ DOMAIN aged = 1 .. Len(q)
  BY <1>1, <1>4, LenProperties
<1>6. Len(aged) = Len(q)
  <2> HIDE DEF aged
  <2>1. \A m, n \in Nat : 1 .. m = 1 .. n => ~(m < n)
    <3> SUFFICES ASSUME NEW m \in Nat, NEW n \in Nat, 1 .. m = 1 .. n, m < n PROVE FALSE
      OBVIOUS
    <3>1. n \in 1 .. n
      OBVIOUS
    <3>2. n \in 1 .. m
      BY <3>1
    <3> QED
      BY <3>2
  <2>2. 1 .. Len(aged) = 1 .. Len(q) /\ 1 .. Len(q) = 1 .. Len(aged)
    BY <1>5
  <2>3. ~(Len(aged) < Len(q)) /\ ~(Len(q) < Len(aged))
    BY <1>1, <1>5, <2>1, <2>2
  <2>4. \A m, n \in Nat : ~(m < n) /\ ~(n < m) => m = n
    OBVIOUS
  <2> QED
    BY <1>1, <1>5, <2>3, <2>4
<1> QED
  BY <1>4, <1>6

LEMMA OneMoreLine ==
  ASSUME NEW q \in Seq(Lines), Len(q) < QueueLen, NEW j \in Jobs \cup {Nobody},
         NEW shows \in Snapshots
  PROVE  /\ Append(q, Line(j, shows)) \in Seq(Lines)
         /\ Len(Append(q, Line(j, shows))) <= QueueLen
<1>1. Line(j, shows) \in Lines
  BY DEF Line, Lines
<1>2. Append(q, Line(j, shows)) \in Seq(Lines) /\ Len(Append(q, Line(j, shows))) = Len(q) + 1
  BY <1>1, AppendProperties
<1>3. Len(q) \in Nat
  BY LenProperties
<1> QED
  BY <1>2, <1>3, BoundsAssumption

LEMMA QueuesStep ==
  ASSUME PlanTypes, QueueTypes, [Next]_vars
  PROVE  QueueTypes'
<1>1. /\ out \in [Conns -> Seq(Lines)] /\ snap \in [Jobs -> Snapshots]
      /\ \A c \in Conns : out[c] \in Seq(Lines) /\ Len(out[c]) \in Nat /\ Len(out[c]) <= QueueLen
  BY LenProperties DEF QueueTypes, PlanTypes
<1>2. CASE out' = out
  BY <1>1, <1>2 DEF QueueTypes
<1>3. CASE Changes
  <2> DEFINE Older(q) == [i \in DOMAIN q |-> [q[i] EXCEPT !.shows = Aged(@)]]
  <2>1. \A c \in Conns : Older(out[c]) \in Seq(Lines) /\ Len(Older(out[c])) = Len(out[c])
    BY <1>1, AgedLines
  <2>2. out' = [c \in Conns |-> Older(out[c])]
    BY <1>3 DEF Changes
  <2> HIDE DEF Older
  <2> QED
    BY <1>1, <2>1, <2>2 DEF QueueTypes
<1>4. ASSUME NEW c \in Conns,
             \/ Accept(c) \/ Leave(c) \/ Register(c) \/ Dispatch(c) \/ CloseOut(c) \/ End(c)
             \/ \E k \in Asks[c] : Send(c, k)
      PROVE  out' = out
  BY <1>4 DEF Accept, Leave, Register, Dispatch, CloseOut, End, Send, connVars
<1>5. ASSUME NEW c \in Conns, Write(c) \/ WriterEnds(c) PROVE QueueTypes'
  <2>1. \E q \in Seq(Lines) : Len(q) <= QueueLen /\ out' = [out EXCEPT ![c] = q]
    <3>1. CASE Write(c)
      <4>1. out[c] # <<>> /\ out' = [out EXCEPT ![c] = Tail(out[c])]
        BY <3>1 DEF Write
      <4>2. Tail(out[c]) \in Seq(Lines) /\ Len(Tail(out[c])) = Len(out[c]) - 1
        BY <1>1, <4>1, HeadTailProperties
      <4>3. Len(Tail(out[c])) <= QueueLen
        BY <1>1, <4>2, BoundsAssumption
      <4> QED
        BY <4>1, <4>2, <4>3
    <3>2. CASE WriterEnds(c)
      <4>1. <<>> \in Seq(Lines) /\ Len(<<>>) <= QueueLen
        BY EmptySeq, BoundsAssumption
      <4> QED
        BY <3>2, <4>1 DEF WriterEnds
    <3> QED
      BY <1>5, <3>1, <3>2
  <2> QED
    BY <1>1, <2>1 DEF QueueTypes
<1>6. ASSUME NEW j \in Jobs, Broadcast(j) PROVE QueueTypes'
  <2>1. \A c \in Conns : Pushed(c, snap[j]) \in Seq(Lines) /\ Len(Pushed(c, snap[j])) <= QueueLen
    BY <1>1, OneMoreLine DEF Pushed
  <2>2. out' = [c \in Conns |-> Pushed(c, snap[j])]
    BY <1>6 DEF Broadcast
  <2> QED
    BY <2>1, <2>2 DEF QueueTypes
<1>7. ASSUME NEW j \in Jobs, Answer(j) PROVE QueueTypes'
  <2>1. CASE conn[j] \in Conns /\ Len(out[conn[j]]) < QueueLen /\
             out' = [out EXCEPT ![conn[j]] = Append(@, Line(j, snap[j]))]
    BY <1>1, <2>1, OneMoreLine DEF QueueTypes
  <2>2. CASE conn[j] \notin Conns /\ \E q : out' = [out EXCEPT ![conn[j]] = q]
    BY <1>1, <2>2 DEF QueueTypes
  <2> QED
    BY <1>2, <1>7, <2>1, <2>2 DEF Answer
<1>8. ASSUME NEW j \in Jobs, Act(j) \/ Check(j) \/ LookedUp(j) PROVE out' = out \/ Changes
  BY <1>8 DEF Act, Check, LookedUp, seenVars
<1>9. ASSUME NEW j \in Jobs, Snapshot(j) PROVE out' = out
  BY <1>9 DEF Snapshot, connVars
<1>10. CASE CrashSeen
  BY <1>3, <1>10 DEF CrashSeen
<1>11. CASE UNCHANGED vars \/ Close
  BY <1>2, <1>11 DEF vars, connVars, Close
<1> QED
  BY <1>2, <1>3, <1>4, <1>5, <1>6, <1>7, <1>8, <1>9, <1>10, <1>11 DEF Next, Serve, Handle

LEMMA NextTypes == Types /\ [Next]_vars => Types'
BY FlagsStep, PlansStep, QueuesStep DEF Types

(* What waits to be read on a connection are requests that were sent.      *)
LEMMA TypesThere == ServerInv /\ Types => TypeOK
<1> SUFFICES ASSUME ServerInv, Types PROVE TypeOK
  OBVIOUS
<1>1. ASSUME NEW c \in Conns PROVE wire[c] \in Seq(Known)
  <2>1. wire[c] \in Seq(Nat) /\ \A i \in 1 .. Len(wire[c]) : wire[c][i] \in Known
    BY DEF ServerInv, JobTypes, WiresInOrder, WireOf, On
  <2>2. Len(wire[c]) \in Nat /\ wire[c] \in [1 .. Len(wire[c]) -> Nat]
    BY <2>1, LenProperties
  <2>3. wire[c] \in [1 .. Len(wire[c]) -> Known]
    BY <2>1, <2>2
  <2> QED
    BY <2>2, <2>3, SeqDef
<1>2. /\ conn \in Seq(Conns \cup {NoConn}) /\ kind \in Seq(Kinds \cup {"crash"})
      /\ Len(kind) = Len(conn) /\ Len(conn) <= MaxJobs
      /\ authorised \in [Conns -> BOOLEAN] /\ outClosed \in [Conns -> BOOLEAN]
  BY DEF ServerInv, JobTypes
<1> QED
  BY <1>1, <1>2 DEF Types, FlagTypes, PlanTypes, QueueTypes, TypeOK

-----------------------------------------------------------------------------
(* The theorems                                                            *)
(* Flags, plans, queues and connections stay what they are, and no queue   *)
(* ever holds more than it has room for, events and answers together       *)
(* (server.push, server.send).                                             *)
THEOREM TypeCorrect == Spec => []TypeOK
<1>1. ServerInv /\ Types /\ [Next]_vars => ServerInv' /\ Types'
  BY NextInv, NextTypes
<1> QED
  BY InitInv, InitTypes, TypesThere, <1>1, PTL DEF Spec

(* Nothing is sent on a closed queue, whatever the clients do, whenever    *)
(* connections end and whatever is still handled in the background         *)
(* (serveClient, closeOut).                                                *)
THEOREM ClosedForGood == Spec => []NoSendOnClosedQueue
<1>1. ServerInv => NoSendOnClosedQueue
  BY DEF ServerInv, ClosedAtEnd, ClosedOf, NoSendOnClosedQueue
<1> QED
  BY InitInv, NextInv, <1>1, PTL DEF Spec

(* Requests of one connection handled in order are answered in the order   *)
(* in which they were sent (dispatch).                                     *)
THEOREM InOrderAnswered == Spec => AnswersInOrder
<1> DEFINE Step == \A c \in Conns : \A j \in On(c) : Answer(j) /\ InOrder(j) =>
       \A k \in On(c) : k < j /\ InOrder(k) => plan[k] = <<>> /\ ~InWire(k, c)
<1>1. ServerInv => Step
  <2> SUFFICES ASSUME ServerInv, NEW c \in Conns, NEW j \in On(c), Answer(j), InOrder(j),
                      NEW k \in On(c), k < j, InOrder(k)
               PROVE  plan[k] = <<>> /\ ~InWire(k, c)
    OBVIOUS
  <2>1. plan[j] # <<>> /\ InFront(j) /\ InFront(k)
    BY DEF Answer, IsNext, InFront
  <2>2. /\ \A l \in On(c) : plan[l] # <<>> /\ InFront(l) => l = j
        /\ \A i \in 1 .. Len(wire[c]) : j < wire[c][i]
    BY <2>1 DEF ServerInv, OneInFront, FrontOf
  <2>3. j \in Nat /\ k \in Nat
    <3>1. DOMAIN conn = 1 .. Len(conn)
      BY LenProperties DEF ServerInv, JobTypes
    <3> QED
      BY <3>1 DEF On, Known
  <2>4. k # j
    BY <2>3
  <2>5. ~InWire(k, c)
    <3>1. wire[c] \in Seq(Nat)
      BY DEF ServerInv, JobTypes
    <3>2. DOMAIN wire[c] = 1 .. Len(wire[c]) /\ \A i \in 1 .. Len(wire[c]) : wire[c][i] \in Nat
      BY <3>1, LenProperties, ElementOfSeq
    <3>3. \A i \in 1 .. Len(wire[c]) : wire[c][i] # k
      BY <2>2, <2>3, <3>2
    <3> QED
      BY <3>2, <3>3 DEF InWire
  <2> QED
    BY <2>1, <2>2, <2>4, <2>5
<1>2. ServerInv /\ [Next]_vars => [Step]_vars
  BY <1>1
<1> QED
  BY InitInv, NextInv, <1>2, PTL DEF Spec, AnswersInOrder

(* The flag is up exactly while one lookup runs, however many clients ask  *)
(* (CheckForUpdates).                                                      *)
THEOREM LookupsAreOne == Spec => []OneLookupAtATime
<1>1. Init => LookupFlagged
  <2> SUFFICES ASSUME Init PROVE LookupFlagged
    OBVIOUS
  <2>1. checking = FALSE /\ \A j \in Jobs : plan[j] = <<>>
    BY DEF Init
  <2> QED
    BY <2>1, NoLookups DEF LookupFlagged, LookingUp, LooksUp
<1>2. ServerInv /\ LookupFlagged /\ [Next]_vars => LookupFlagged'
  BY LookupsNext
<1>3. ServerInv /\ LookupFlagged => OneLookupAtATime
  <2> SUFFICES ASSUME ServerInv, LookupFlagged PROVE OneLookupAtATime
    OBVIOUS
  <2> DEFINE L == {j \in Known : LookingUp(j)}
  <2>1. Known \subseteq Jobs
    <3>1. DOMAIN conn = 1 .. Len(conn) /\ Len(conn) \in Nat /\ Len(conn) <= MaxJobs
      BY LenProperties DEF ServerInv, JobTypes
    <3> QED
      BY <3>1, BoundsAssumption DEF Known, Jobs
  <2>2. \A j \in Jobs : LookingUp(j) => j \in Known
    BY NoLookups DEF ServerInv, FreshIdle, LookingUp, LooksUp
  <2>3. CASE checking = FALSE
    <3>1. L = {}
      BY <2>1, <2>3 DEF LookupFlagged
    <3> QED
      BY <2>3, <3>1, FS_EmptySet DEF OneLookupAtATime
  <2>4. CASE checking = TRUE
    <3>1. PICK j \in Jobs : LookingUp(j)
      BY <2>4 DEF LookupFlagged
    <3>2. L = {j}
      BY <2>1, <2>2, <3>1 DEF LookupFlagged
    <3> QED
      BY <2>4, <3>2, FS_Singleton DEF OneLookupAtATime
  <2> QED
    BY <2>3, <2>4 DEF LookupFlagged
<1> QED
  BY InitInv, NextInv, <1>1, <1>2, <1>3, PTL DEF Spec
===============================================================================
