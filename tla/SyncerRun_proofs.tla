-------------------------- MODULE SyncerRun_proofs --------------------------
(***************************************************************************)
(* Theorems about SyncerRun and its node loop, for every set of nodes and  *)
(* every number of loops, reports, edits and failures.                     *)
(*                                                                         *)
(* CountInv accounts for every goroutine of Run and shows that only the    *)
(* shim ever sends an error.  BeatInv says that what a place on the way    *)
(* from the host's node to the virtual one holds is no newer than what     *)
(* the place before it holds, over every restart of the process.           *)
(***************************************************************************)
EXTENDS SyncerRun, SequenceTheorems, FiniteSetTheorems, TLAPS

\* How often each goroutine but the other loops has ended: the shim's has when it has
\* handed over its error.
NodeLoopEnded == IF nloop = "ended" THEN 1 ELSE 0
ShimEnded == IF shim \in {"failed", "ended"} THEN 1 - sending ELSE 0

\* The goroutines that Run started are running, waiting or ended, and only the shim
\* sends an error, one in its life.
CountInv ==
  /\ phase = "run" => /\ nloop # "off"
                      /\ running + waiting <= OtherLoops
                      /\ ended + running + waiting = OtherLoops + NodeLoopEnded + ShimEnded
  /\ phase # "run" => /\ nloop = "off" /\ shim = "off"
                      /\ running = 0 /\ waiting = 0 /\ ended = 0
  /\ sending + errs <= 1
  /\ shim # "failed" => sending = 0 /\ errs = 0

\* A node in the host cluster has reported.
PresentInv == \A n \in present : reported[n] > 0

\* syncNodeToVirtual has the nodes it works on.
HandlerInv == npc = "update" => hostNode \in HostNode /\ existing \in VirtualNode

\* Reports pass from a host node over the queue and the handler to the virtual node in
\* the order they were made.
BeatInv ==
  /\ \A i \in 1..Len(nqueue) :
       /\ nqueue[i].node.beat <= reported[nqueue[i].node.name]
       /\ virtual[nqueue[i].node.name].beat <= nqueue[i].node.beat
  /\ \A i, j \in 1..Len(nqueue) :
       i <= j /\ nqueue[i].node.name = nqueue[j].node.name =>
         nqueue[i].node.beat <= nqueue[j].node.beat
  /\ \A n \in Nodes : virtual[n].beat <= reported[n]
  /\ npc = "update" =>
       /\ hostNode.beat <= reported[hostNode.name]
       /\ virtual[hostNode.name].beat <= hostNode.beat
       /\ \A i \in 1..Len(nqueue) :
            nqueue[i].node.name = hostNode.name => hostNode.beat <= nqueue[i].node.beat

IInv == TypeOK /\ CountInv /\ PresentInv /\ HandlerInv /\ BeatInv

-----------------------------------------------------------------------------
(* Queues and nodes.                                                       *)

LEMMA AppendIs ==
  ASSUME NEW S, NEW s \in Seq(S), NEW e \in S
  PROVE  /\ Append(s, e) \in Seq(S) /\ Len(Append(s, e)) = Len(s) + 1 /\ Len(s) \in Nat
         /\ \A i \in 1..Len(s) : Append(s, e)[i] = s[i]
         /\ Append(s, e)[Len(s) + 1] = e
BY AppendProperties, LenProperties

LEMMA TailIs ==
  ASSUME NEW S, NEW s \in Seq(S), s # << >>
  PROVE  /\ Head(s) = s[1] /\ Head(s) \in S /\ Tail(s) \in Seq(S)
         /\ Len(s) \in Nat /\ Len(s) > 0 /\ Len(Tail(s)) = Len(s) - 1
         /\ \A i \in 1..Len(Tail(s)) : i + 1 \in 1..Len(s) /\ Tail(s)[i] = s[i + 1]
<1>1. /\ Head(s) = s[1] /\ Head(s) \in S /\ Tail(s) \in Seq(S)
      /\ Len(Tail(s)) = Len(s) - 1
      /\ \A i \in 1..Len(Tail(s)) : Tail(s)[i] = s[i + 1]
  BY HeadTailProperties
<1>2. Len(s) \in Nat /\ Len(s) > 0
  BY EmptySeq, LenProperties
<1> QED  BY <1>1, <1>2

LEMMA Bounds ==
  /\ MaxBeats \in Nat /\ MaxEdits \in Nat /\ MaxFaults \in Nat
  /\ OtherLoops \in Nat /\ ErrCapacity \in Nat /\ MaxPods \in Nat
  /\ IsFiniteSet(Nodes)
BY NodeBounds, ProcessBounds

\* What a node of either cluster is.
LEMMA HostNodes ==
  ASSUME NEW h \in HostNode
  PROVE  h.name \in Nodes /\ h.beat \in Nat /\ h.beat > 0 /\ h.beat \in 1..MaxBeats
<1>1. h.name \in Nodes /\ h.beat \in 1..MaxBeats
  BY DEF HostNode
<1> QED  BY <1>1, Bounds

LEMMA VirtualNodes ==
  /\ NoNode.beat = 0
  /\ \A v \in VirtualNode : /\ v.beat \in Nat /\ v.beat > 0 /\ v # NoNode
                            /\ v.edits \in 0..MaxEdits
                            /\ \A e \in 0..MaxEdits : /\ [v EXCEPT !.edits = e] \in VirtualNode
                                                      /\ [v EXCEPT !.edits = e].beat = v.beat
  /\ \A v \in VirtualNode \cup {NoNode} : v.beat \in Nat
<1>1. NoNode.beat = 0
  BY DEF NoNode
<1>2. ASSUME NEW v \in VirtualNode
      PROVE  /\ v.beat \in 1..MaxBeats /\ v.edits \in 0..MaxEdits
             /\ \A e \in 0..MaxEdits : /\ [v EXCEPT !.edits = e] \in VirtualNode
                                       /\ [v EXCEPT !.edits = e].beat = v.beat
  BY DEF VirtualNode
<1>3. ASSUME NEW v \in VirtualNode PROVE v.beat \in Nat /\ v.beat > 0 /\ v # NoNode
  <2>1. v.beat \in Nat /\ v.beat > 0
    BY <1>2, Bounds
  <2> QED  BY <1>1, <2>1
<1>4. ASSUME NEW v \in VirtualNode \cup {NoNode} PROVE v.beat \in Nat
  BY <1>1, <1>3
<1> QED  BY <1>1, <1>2, <1>3, <1>4

\* What the loop writes carries the report it was handed.
LEMMA WrittenIs ==
  ASSUME podIP \in Nat, NEW h \in HostNode, NEW e \in 0..MaxEdits
  PROVE  Written(h, e) \in VirtualNode /\ Written(h, e).beat = h.beat
<1>1. rewriteNodeForShim(Kubelet) \in Nat
  BY DEF rewriteNodeForShim, Kubelet
<1>2. h.beat \in 1..MaxBeats
  BY HostNodes
<1> QED  BY <1>1, <1>2 DEF Written, VirtualNode

LEMMA NodesTyped ==
  ASSUME NodeTypeOK
  PROVE  /\ \A i \in 1..Len(nqueue) : /\ nqueue[i] \in Event /\ nqueue[i].node \in HostNode
                                      /\ nqueue[i].node.name \in Nodes /\ nqueue[i].node.beat \in Nat
         /\ Len(nqueue) \in Nat
         /\ \A n \in Nodes : /\ reported[n] \in Nat /\ reported[n] \in 0..MaxBeats
                             /\ virtual[n] \in VirtualNode \cup {NoNode} /\ virtual[n].beat \in Nat
                             /\ edited[n] \in 0..MaxEdits /\ edited[n] \in Nat
<1>1. nqueue \in Seq(Event)
  BY DEF NodeTypeOK
<1>2. (\A i \in 1..Len(nqueue) : nqueue[i] \in Event) /\ Len(nqueue) \in Nat
  BY <1>1, ElementOfSeq, LenProperties
<1>3. \A e \in Event : e.node \in HostNode
  BY DEF Event
<1>4. \A n \in Nodes : /\ reported[n] \in 0..MaxBeats /\ virtual[n] \in VirtualNode \cup {NoNode}
                       /\ edited[n] \in 0..MaxEdits
  BY DEF NodeTypeOK
<1>5. \A n \in Nodes : reported[n] \in Nat /\ edited[n] \in Nat
  BY <1>4, Bounds
<1>6. \A i \in 1..Len(nqueue) : nqueue[i].node \in HostNode
  BY <1>2, <1>3
<1> QED  BY <1>2, <1>4, <1>5, <1>6, HostNodes, VirtualNodes

-----------------------------------------------------------------------------
(* What each step does to the nodes.                                       *)

\* The step leaves the nodes of both clusters alone: the queue is what it was, or
\* shorter or empty, the handler goes on or is back at its loop.
Rests ==
  /\ UNCHANGED cluster
  /\ nqueue' = nqueue \/ nqueue' = << >> \/ (nqueue # << >> /\ nqueue' = Tail(nqueue))
  /\ UNCHANGED <<npc, hostNode, existing>> \/ Return
  /\ nloop' \in {"off", "opening", "watching", "waiting", "ended"}
  /\ podIP' \in Nat /\ cancelled' \in BOOLEAN /\ faults' \in 0..MaxFaults

LEMMA StepsAre ==
  ASSUME NodeTypeOK, [Next]_vars
  PROVE  \/ Rests
         \/ Environment
         \/ OpenNodes \/ CreateNode \/ GetNode \/ UpdateNodeStatus
<1>1. /\ nloop \in {"off", "opening", "watching", "waiting", "ended"}
      /\ podIP \in Nat /\ podIP + 1 \in Nat /\ cancelled \in BOOLEAN /\ faults \in 0..MaxFaults
      /\ faults < MaxFaults => faults + 1 \in 0..MaxFaults
  BY Bounds DEF NodeTypeOK
<1>2. UNCHANGED nodevars => Rests
  BY <1>1 DEF nodevars, nodeloop, Rests
<1>3. CASE CloseNodes \/ RetryNodes
  BY <1>1, <1>3 DEF CloseNodes, RetryNodes, Rests
<1>4. CASE SkipDeleted
  BY <1>1, <1>4 DEF SkipDeleted, Rests
<1>5. CASE FailNode
  BY <1>1, <1>5 DEF FailNode, Rests
<1>6. CASE EndNodeLoop
  BY <1>1, <1>6 DEF EndNodeLoop, EndNodes, Rests
<1>7. CASE OtherLoopStep \/ SendError \/ K3sProgress
  BY <1>2, <1>7 DEF OtherLoopStep, CloseOther, RetryOther, EndOther, SendError, K3sProgress
<1>8. CASE Shim
  <2>1. CASE ShimListens \/ ShimEnds
    BY <1>2, <2>1 DEF ShimListens, ShimEnds
  <2>2. CASE ShimFails
    BY <1>1, <2>2 DEF ShimFails, nodeloop, Rests
  <2> QED  BY <1>8, <2>1, <2>2 DEF Shim
<1>9. CASE Main \/ Signal \/ Crash \/ Restart
  <2>1. CASE FileAppears \/ StartShim
    BY <1>2, <2>1 DEF FileAppears, StartShim
  <2>2. CASE GiveUp \/ NewShimFails \/ RunReturns \/ Crash
    BY <1>1, <2>2 DEF GiveUp, NewShimFails, RunReturns, Crash, Exit, NodesOff, Rests
  <2>3. CASE StartLoops
    BY <1>1, <2>3 DEF StartLoops, Rests
  <2>4. CASE Signal
    BY <1>1, <2>4 DEF Signal, nodeloop, Rests
  <2>5. CASE Restart
    BY <1>1, <2>5 DEF Restart, nodeloop, Rests
  <2> QED  BY <1>9, <2>1, <2>2, <2>3, <2>4, <2>5 DEF Main
<1>10. CASE UNCHANGED vars
  BY <1>2, <1>10 DEF vars
<1> QED
  BY <1>3, <1>4, <1>5, <1>6, <1>7, <1>8, <1>9, <1>10 DEF Next, NodeStep, NodesLoop

\* The queue gets an event of node n, or stays.
Grows(n, b) ==
  /\ nqueue' \in Seq(Event) /\ Len(nqueue') \in Nat
  /\ \A i \in 1..Len(nqueue') :
       \/ i \in 1..Len(nqueue) /\ nqueue'[i] = nqueue[i]
       \/ i = Len(nqueue') /\ nqueue'[i].node.name = n /\ nqueue'[i].node.beat = b

LEMMA TellGrows ==
  ASSUME NodeTypeOK, NEW type \in {"ADDED", "MODIFIED", "DELETED"}, NEW n \in Nodes,
         NEW b \in 1..MaxBeats, Tell(type, n, b)
  PROVE  Grows(n, b)
<1> DEFINE h == [name |-> n, beat |-> b]
           e == [type |-> type, node |-> h]
<1>1. h \in HostNode /\ h.name = n /\ h.beat = b
  BY DEF HostNode
<1>2. nqueue' = IF nloop = "watching" THEN Append(nqueue, e) ELSE nqueue
  BY DEF Tell
<1> HIDE DEF h
<1>3. e \in Event /\ e.node = h
  BY <1>1 DEF Event
<1> HIDE DEF e
<1>4. nqueue \in Seq(Event)
  BY DEF NodeTypeOK
<1>5. CASE nloop = "watching"
  BY <1>1, <1>2, <1>3, <1>4, <1>5, AppendIs DEF Grows
<1>6. CASE nloop # "watching"
  BY <1>2, <1>4, <1>6, NodesTyped DEF Grows
<1> QED  BY <1>5, <1>6

\* A write of the users leaves a node's report as it is, or the node is gone.
LEMMA EnvironmentDoes ==
  ASSUME NodeTypeOK, PresentInv, NEW n \in Nodes,
         HostReport(n) \/ HostLeave(n) \/ VirtualWrite(n) \/ VirtualRemove(n)
  PROVE  /\ \/ /\ virtual' = virtual /\ edited' = edited /\ Grows(n, reported'[n])
               /\ reported' \in [Nodes -> 0..MaxBeats]
               /\ \A m \in Nodes : reported[m] <= reported'[m]
               /\ present' \subseteq Nodes /\ \A m \in present' : reported'[m] > 0
            \/ /\ UNCHANGED <<reported, present, nqueue>>
               /\ edited' \in [Nodes -> 0..MaxEdits]
               /\ virtual' \in [Nodes -> VirtualNode \cup {NoNode}]
               /\ \A m \in Nodes : virtual'[m] = NoNode \/ virtual'[m].beat = virtual[m].beat
         /\ UNCHANGED <<nloop, npc, hostNode, existing, podIP, cancelled, faults>>
<1>1. reported \in [Nodes -> 0..MaxBeats] /\ present \subseteq Nodes
      /\ virtual \in [Nodes -> VirtualNode \cup {NoNode}] /\ edited \in [Nodes -> 0..MaxEdits]
  BY DEF NodeTypeOK
<1>2. \A m \in Nodes : reported[m] \in Nat
  BY NodesTyped
<1>3. CASE HostReport(n)
  <2>1. /\ reported' = [reported EXCEPT ![n] = reported[n] + 1] /\ reported[n] < MaxBeats
        /\ present' = present \cup {n}
        /\ \E type \in {"ADDED", "MODIFIED", "DELETED"} : Tell(type, n, reported[n] + 1)
        /\ UNCHANGED <<virtual, edited, nloop, npc, hostNode, existing, podIP, cancelled, faults>>
    BY <1>3 DEF HostReport
  <2>2. reported[n] + 1 \in 1..MaxBeats /\ reported[n] + 1 \in 0..MaxBeats
    BY <1>2, <2>1, Bounds
  <2>3. reported'[n] = reported[n] + 1 /\ \A m \in Nodes : m # n => reported'[m] = reported[m]
    BY <1>1, <2>1
  <2>4. \A m \in Nodes : reported[m] <= reported'[m]
    BY <1>2, <2>3
  <2>5. Grows(n, reported'[n])
    BY <2>1, <2>2, <2>3, TellGrows
  <2>6. present' \subseteq Nodes /\ \A m \in present' : reported'[m] > 0
    BY <1>1, <1>2, <2>1, <2>3 DEF PresentInv
  <2>7. reported' \in [Nodes -> 0..MaxBeats]
    BY <1>1, <2>1, <2>2
  <2> QED  BY <2>1, <2>4, <2>5, <2>6, <2>7
<1>4. CASE HostLeave(n)
  <2>1. /\ reported' = reported /\ n \in present /\ present' = present \ {n}
        /\ Tell("DELETED", n, reported[n])
        /\ UNCHANGED <<virtual, edited, nloop, npc, hostNode, existing, podIP, cancelled, faults>>
    BY <1>4 DEF HostLeave
  <2>2. reported[n] \in 1..MaxBeats
    BY <1>1, <1>2, <2>1, Bounds DEF PresentInv
  <2>3. Grows(n, reported'[n])
    BY <2>1, <2>2, TellGrows
  <2>4. \A m \in Nodes : reported[m] <= reported'[m]
    BY <1>2, <2>1
  <2>5. present' \subseteq Nodes /\ \A m \in present' : reported'[m] > 0
    BY <1>1, <2>1 DEF PresentInv
  <2> QED  BY <1>1, <2>1, <2>3, <2>4, <2>5
<1>5. CASE VirtualWrite(n) \/ VirtualRemove(n)
  <2>1. /\ UNCHANGED <<reported, present, nqueue>>
        /\ UNCHANGED <<nloop, npc, hostNode, existing, podIP, cancelled, faults>>
        /\ edited' = [edited EXCEPT ![n] = edited[n] + 1] /\ edited[n] < MaxEdits
        /\ virtual[n] # NoNode
        /\ \/ virtual' = [virtual EXCEPT ![n] = [virtual[n] EXCEPT !.edits = edited[n] + 1]]
           \/ virtual' = [virtual EXCEPT ![n] = NoNode]
    BY <1>5 DEF VirtualWrite, VirtualRemove, nodeloop
  <2>2. edited[n] + 1 \in 0..MaxEdits
    BY <2>1, NodesTyped, Bounds
  <2>3. PICK v \in VirtualNode \cup {NoNode} :
          virtual' = [virtual EXCEPT ![n] = v] /\ (v = NoNode \/ v.beat = virtual[n].beat)
    <3>1. virtual[n] \in VirtualNode
      BY <1>1, <2>1
    <3> DEFINE v == [virtual[n] EXCEPT !.edits = edited[n] + 1]
    <3>2. v \in VirtualNode /\ v.beat = virtual[n].beat
      BY <2>2, <3>1, VirtualNodes
    <3>3. virtual' = [virtual EXCEPT ![n] = v] \/ virtual' = [virtual EXCEPT ![n] = NoNode]
      BY <2>1
    <3> HIDE DEF v
    <3> QED  BY <3>2, <3>3
  <2>4. virtual' \in [Nodes -> VirtualNode \cup {NoNode}]
    BY <1>1, <2>3
  <2>5. \A m \in Nodes : virtual'[m] = NoNode \/ virtual'[m].beat = virtual[m].beat
    BY <1>1, <2>3
  <2>6. edited' \in [Nodes -> 0..MaxEdits]
    BY <1>1, <2>1, <2>2
  <2> QED  BY <2>1, <2>4, <2>5, <2>6
<1> QED  BY <1>3, <1>4, <1>5

LEMMA OpenDoes ==
  ASSUME NodeTypeOK, PresentInv, OpenNodes
  PROVE  /\ nqueue' \in Seq(Event) /\ Len(nqueue') \in Nat
         /\ \A i \in 1..Len(nqueue') : /\ nqueue'[i].node.name \in Nodes
                                       /\ nqueue'[i].node.beat = reported[nqueue'[i].node.name]
         /\ nloop' = "watching"
         /\ UNCHANGED <<cluster, npc, hostNode, existing, podIP, cancelled, faults>>
<1>1. PICK s \in Listings(present) :
        nqueue' = [i \in DOMAIN s |->
                     [type |-> "ADDED", node |-> [name |-> s[i], beat |-> reported[s[i]]]]]
  BY DEF OpenNodes
<1> DEFINE k == Cardinality(present)
           h(i) == [name |-> s[i], beat |-> reported[s[i]]]
           e(i) == [type |-> "ADDED", node |-> h(i)]
<1>2. k \in Nat
  <2>1. IsFiniteSet(present)
    BY Bounds, FS_Subset DEF NodeTypeOK
  <2> QED  BY <2>1, FS_CardinalityType
<1>3. s \in [1..k -> present] /\ DOMAIN s = 1..k
  BY DEF Listings
<1> HIDE DEF k
<1>4. ASSUME NEW i \in 1..k
      PROVE  e(i) \in Event /\ e(i).node.name = s[i] /\ e(i).node.beat = reported[s[i]] /\ s[i] \in Nodes
  <2>1. s[i] \in present /\ s[i] \in Nodes
    BY <1>3 DEF NodeTypeOK
  <2>2. reported[s[i]] \in 1..MaxBeats
    <3>1. reported[s[i]] \in 0..MaxBeats /\ reported[s[i]] > 0
      BY <2>1, NodesTyped DEF PresentInv
    <3> QED  BY <3>1, Bounds
  <2>3. h(i) \in HostNode /\ h(i).name = s[i] /\ h(i).beat = reported[s[i]]
    BY <2>1, <2>2 DEF HostNode
  <2> HIDE DEF h
  <2>4. e(i) \in Event /\ e(i).node = h(i)
    BY <2>3 DEF Event
  <2> QED  BY <2>1, <2>3, <2>4
<1>5. nqueue' = [i \in 1..k |-> e(i)]
  BY <1>1, <1>3
<1> HIDE DEF e, h
<1>6. nqueue' \in [1..k -> Event]
  BY <1>4, <1>5
<1>7. nqueue' \in Seq(Event) /\ Len(nqueue') = k
  BY <1>2, <1>6, SeqDef, LenProperties
<1>8. \A i \in 1..k : nqueue'[i] = e(i)
  BY <1>5
<1> QED  BY <1>2, <1>4, <1>7, <1>8 DEF OpenNodes

\* The event the loop handles.
LEMMA HeadIs ==
  ASSUME NodeTypeOK, nqueue # << >>, nqueue' = Tail(nqueue)
  PROVE  /\ Head(nqueue) = nqueue[1] /\ 1 \in 1..Len(nqueue)
         /\ Head(nqueue).node \in HostNode
         /\ nqueue' \in Seq(Event) /\ Len(nqueue') \in Nat
         /\ \A i \in 1..Len(nqueue') : i + 1 \in 1..Len(nqueue) /\ nqueue'[i] = nqueue[i + 1]
<1>1. nqueue \in Seq(Event)
  BY DEF NodeTypeOK
<1>2. /\ Head(nqueue) = nqueue[1] /\ Tail(nqueue) \in Seq(Event)
      /\ Len(nqueue) \in Nat /\ Len(nqueue) > 0 /\ Len(Tail(nqueue)) = Len(nqueue) - 1
      /\ \A i \in 1..Len(Tail(nqueue)) : i + 1 \in 1..Len(nqueue) /\ Tail(nqueue)[i] = nqueue[i + 1]
  BY <1>1, TailIs
<1>3. 1 \in 1..Len(nqueue) /\ Len(Tail(nqueue)) \in Nat
  BY <1>2
<1> QED  BY <1>2, <1>3, NodesTyped

LEMMA CreateDoes ==
  ASSUME NodeTypeOK, CreateNode
  PROVE  /\ nqueue # << >> /\ nqueue' = Tail(nqueue) /\ npc = "idle"
         /\ LET h == Head(nqueue).node IN
              /\ virtual[h.name] = NoNode
              /\ virtual' \in [Nodes -> VirtualNode \cup {NoNode}]
              /\ virtual'[h.name].beat = h.beat
              /\ \A m \in Nodes : m # h.name => virtual'[m] = virtual[m]
         /\ UNCHANGED <<reported, present, edited, nloop, npc, hostNode, existing, podIP, cancelled, faults>>
<1> DEFINE h == Head(nqueue).node
           w == Written(h, 0)
<1>1. /\ nqueue # << >> /\ nqueue' = Tail(nqueue) /\ npc = "idle" /\ virtual[h.name] = NoNode
      /\ virtual' = [virtual EXCEPT ![h.name] = w]
      /\ UNCHANGED <<reported, present, edited, nloop, npc, hostNode, existing, podIP, cancelled, faults>>
  BY DEF CreateNode, Upsert
<1>2. h \in HostNode
  BY <1>1, HeadIs
<1>3. 0 \in 0..MaxEdits /\ podIP \in Nat
  BY Bounds DEF NodeTypeOK
<1>4. w \in VirtualNode /\ w.beat = h.beat /\ h.name \in Nodes
  BY <1>2, <1>3, WrittenIs, HostNodes
<1>5. virtual \in [Nodes -> VirtualNode \cup {NoNode}]
  BY DEF NodeTypeOK
<1> HIDE DEF h, w
<1>6. /\ virtual' \in [Nodes -> VirtualNode \cup {NoNode}]
      /\ virtual'[h.name].beat = h.beat
      /\ \A m \in Nodes : m # h.name => virtual'[m] = virtual[m]
  BY <1>1, <1>4, <1>5
<1> QED  BY <1>1, <1>6 DEF h

LEMMA GetDoes ==
  ASSUME NodeTypeOK, GetNode
  PROVE  /\ nqueue # << >> /\ nqueue' = Tail(nqueue) /\ npc' = "update"
         /\ hostNode' = Head(nqueue).node /\ existing' = virtual[hostNode'.name]
         /\ hostNode' \in HostNode /\ existing' \in VirtualNode
         /\ UNCHANGED <<cluster, nloop, podIP, cancelled, faults>>
<1>1. /\ nqueue # << >> /\ nqueue' = Tail(nqueue) /\ npc' = "update"
      /\ hostNode' = Head(nqueue).node /\ existing' = virtual[hostNode'.name]
      /\ virtual[hostNode'.name] # NoNode
      /\ UNCHANGED <<cluster, nloop, podIP, cancelled, faults>>
  BY DEF GetNode, Upsert
<1>2. hostNode' \in HostNode
  BY <1>1, HeadIs
<1>3. existing' \in VirtualNode
  BY <1>1, <1>2, HostNodes, NodesTyped
<1> QED  BY <1>1, <1>2, <1>3

LEMMA UpdateDoes ==
  ASSUME NodeTypeOK, HandlerInv, UpdateNodeStatus
  PROVE  /\ npc = "update" /\ Return
         /\ hostNode \in HostNode /\ hostNode.name \in Nodes
         /\ virtual' \in [Nodes -> VirtualNode \cup {NoNode}]
         /\ \/ virtual' = virtual
            \/ /\ virtual'[hostNode.name].beat = hostNode.beat
               /\ \A m \in Nodes : m # hostNode.name => virtual'[m] = virtual[m]
         /\ UNCHANGED <<reported, present, edited, nloop, nqueue, podIP, cancelled, faults>>
<1> DEFINE w == Written(hostNode, existing.edits)
<1>1. /\ npc = "update" /\ Return
      /\ virtual' = virtual \/ virtual' = [virtual EXCEPT ![hostNode.name] = w]
      /\ UNCHANGED <<reported, present, edited, nloop, nqueue, podIP, cancelled, faults>>
  BY DEF UpdateNodeStatus
<1>2. hostNode \in HostNode /\ existing \in VirtualNode
  BY <1>1 DEF HandlerInv
<1>3. existing.edits \in 0..MaxEdits /\ podIP \in Nat
  BY <1>2, VirtualNodes DEF NodeTypeOK
<1>4. w \in VirtualNode /\ w.beat = hostNode.beat /\ hostNode.name \in Nodes
  BY <1>2, <1>3, WrittenIs, HostNodes
<1>5. virtual \in [Nodes -> VirtualNode \cup {NoNode}]
  BY DEF NodeTypeOK
<1> HIDE DEF w
<1> QED  BY <1>1, <1>2, <1>4, <1>5

-----------------------------------------------------------------------------
(* Each part of the invariant is preserved by every step.                  *)

LEMMA NodeStepKeeps ==
  ASSUME NodeTypeOK, PresentInv, HandlerInv, [Next]_vars
  PROVE  NodeTypeOK' /\ PresentInv' /\ HandlerInv'
<1> DEFINE Cluster == /\ reported' \in [Nodes -> 0..MaxBeats] /\ present' \subseteq Nodes
                      /\ virtual' \in [Nodes -> VirtualNode \cup {NoNode}]
                      /\ edited' \in [Nodes -> 0..MaxEdits]
                      /\ \A n \in present' : reported'[n] > 0
           Queue == nqueue' \in Seq(Event)
           Loop == nloop' \in {"off", "opening", "watching", "waiting", "ended"}
           Handler == /\ npc' \in {"idle", "update"}
                      /\ hostNode' \in HostNode \cup {NoNode}
                      /\ existing' \in VirtualNode \cup {NoNode}
                      /\ npc' = "update" => hostNode' \in HostNode /\ existing' \in VirtualNode
           Rest == podIP' \in Nat /\ cancelled' \in BOOLEAN /\ faults' \in 0..MaxFaults
<1>1. SUFFICES Cluster /\ Queue /\ Loop /\ Handler /\ Rest
  BY DEF NodeTypeOK, PresentInv, HandlerInv
<1>2. UNCHANGED cluster => Cluster
  BY DEF cluster, NodeTypeOK, PresentInv
<1>3. UNCHANGED nqueue => Queue
  BY DEF NodeTypeOK
<1>4. nqueue # << >> /\ nqueue' = Tail(nqueue) => Queue
  BY HeadIs
<1>5. nqueue' = << >> => Queue
  <2>1. << >> \in Seq(Event)
    OBVIOUS
  <2> QED  BY <2>1
<1>6. UNCHANGED nloop => Loop
  BY DEF NodeTypeOK
<1>7. UNCHANGED <<npc, hostNode, existing>> => Handler
  BY DEF NodeTypeOK, HandlerInv
<1>8. Return => Handler
  BY DEF Return
<1>9. UNCHANGED <<podIP, cancelled, faults>> => Rest
  BY DEF NodeTypeOK
<1>10. /\ reported \in [Nodes -> 0..MaxBeats] /\ present \subseteq Nodes
       /\ virtual \in [Nodes -> VirtualNode \cup {NoNode}]
       /\ edited \in [Nodes -> 0..MaxEdits]
       /\ \A n \in present : reported[n] > 0
  BY DEF NodeTypeOK, PresentInv
<1>11. CASE Rests
  <2>1. Loop /\ Rest
    BY <1>11 DEF Rests
  <2> HIDE DEF Cluster, Queue, Loop, Handler, Rest
  <2> QED  BY <1>2, <1>3, <1>4, <1>5, <1>7, <1>8, <1>11, <2>1 DEF Rests
<1>12. CASE Environment
  <2>1. PICK n \in Nodes : HostReport(n) \/ HostLeave(n) \/ VirtualWrite(n) \/ VirtualRemove(n)
    BY <1>12 DEF Environment
  <2>2. Cluster /\ Queue
    BY <1>3, <1>10, <2>1, EnvironmentDoes DEF Grows
  <2>3. UNCHANGED <<nloop, npc, hostNode, existing, podIP, cancelled, faults>>
    BY <2>1, EnvironmentDoes
  <2> HIDE DEF Cluster, Queue, Loop, Handler, Rest
  <2> QED  BY <1>6, <1>7, <1>9, <2>2, <2>3
<1>13. CASE OpenNodes
  <2>1. Queue /\ Loop
    BY <1>13, OpenDoes
  <2> HIDE DEF Cluster, Queue, Loop, Handler, Rest
  <2> QED  BY <1>2, <1>7, <1>9, <1>13, <2>1, OpenDoes
<1>14. CASE CreateNode
  <2>1. Cluster
    BY <1>10, <1>14, CreateDoes
  <2> HIDE DEF Cluster, Queue, Loop, Handler, Rest
  <2> QED  BY <1>4, <1>6, <1>7, <1>9, <1>14, <2>1, CreateDoes
<1>15. CASE GetNode
  <2>1. Handler
    BY <1>15, GetDoes
  <2> HIDE DEF Cluster, Queue, Loop, Handler, Rest
  <2> QED  BY <1>2, <1>4, <1>6, <1>9, <1>15, <2>1, GetDoes
<1>16. CASE UpdateNodeStatus
  <2>1. Cluster
    BY <1>10, <1>16, UpdateDoes
  <2> HIDE DEF Cluster, Queue, Loop, Handler, Rest
  <2> QED  BY <1>3, <1>6, <1>8, <1>9, <1>16, <2>1, UpdateDoes
<1> QED  BY <1>11, <1>12, <1>13, <1>14, <1>15, <1>16, StepsAre

LEMMA BeatStep ==
  ASSUME NodeTypeOK, NodeTypeOK', PresentInv, HandlerInv, HandlerInv', BeatInv, [Next]_vars
  PROVE  BeatInv'
<1> DEFINE Queue ==
             \A i \in 1..Len(nqueue') :
               /\ nqueue'[i].node.beat <= reported'[nqueue'[i].node.name]
               /\ virtual'[nqueue'[i].node.name].beat <= nqueue'[i].node.beat
           Order ==
             \A i, j \in 1..Len(nqueue') :
               i <= j /\ nqueue'[i].node.name = nqueue'[j].node.name =>
                 nqueue'[i].node.beat <= nqueue'[j].node.beat
           Virtual == \A n \in Nodes : virtual'[n].beat <= reported'[n]
           Handler ==
             npc' = "update" =>
               /\ hostNode'.beat <= reported'[hostNode'.name]
               /\ virtual'[hostNode'.name].beat <= hostNode'.beat
               /\ \A i \in 1..Len(nqueue') :
                    nqueue'[i].node.name = hostNode'.name => hostNode'.beat <= nqueue'[i].node.beat
<1>1. SUFFICES Queue /\ Order /\ Virtual /\ Handler
  BY DEF BeatInv
<1>2. /\ \A i \in 1..Len(nqueue) : nqueue[i].node.name \in Nodes /\ nqueue[i].node.beat \in Nat
      /\ Len(nqueue) \in Nat
      /\ \A n \in Nodes : reported[n] \in Nat /\ virtual[n].beat \in Nat
      /\ npc = "update" => hostNode.name \in Nodes /\ hostNode.beat \in Nat
  BY NodesTyped, HostNodes DEF HandlerInv
<1>3. \A n \in Nodes : reported'[n] \in Nat /\ virtual'[n].beat \in Nat
  BY VirtualNodes, Bounds DEF NodeTypeOK
<1>4. NoNode.beat = 0
  BY VirtualNodes
<1>5. CASE Rests
  <2>1. UNCHANGED <<reported, virtual>>
    BY <1>5 DEF Rests, cluster
  <2>2. Virtual
    BY <2>1 DEF BeatInv
  <2>3. CASE nqueue' = nqueue
    <3>1. Queue /\ Order
      BY <2>1, <2>3 DEF BeatInv
    <3>2. Handler
      BY <1>5, <2>1, <2>3 DEF Rests, Return, BeatInv
    <3> QED  BY <2>2, <3>1, <3>2
  <2>4. CASE nqueue' = << >>
    <3>1. Len(<< >>) = 0
      OBVIOUS
    <3>2. 1..Len(nqueue') = {}
      BY <2>4, <3>1
    <3>3. Handler
      BY <1>5, <2>1, <3>2 DEF Rests, Return, BeatInv
    <3> QED  BY <2>2, <3>2, <3>3
  <2>5. CASE nqueue # << >> /\ nqueue' = Tail(nqueue)
    <3>1. \A i \in 1..Len(nqueue') : i + 1 \in 1..Len(nqueue) /\ nqueue'[i] = nqueue[i + 1]
      BY <2>5, HeadIs
    <3>2. Queue
      BY <2>1, <3>1 DEF BeatInv
    <3>3. Handler
      BY <1>5, <2>1, <3>1 DEF Rests, Return, BeatInv
    <3>4. Order
      <4>1. SUFFICES ASSUME NEW i \in 1..Len(nqueue'), NEW j \in 1..Len(nqueue'), i <= j,
                            nqueue'[i].node.name = nqueue'[j].node.name
                     PROVE  nqueue'[i].node.beat <= nqueue'[j].node.beat
        OBVIOUS
      <4>2. i + 1 \in 1..Len(nqueue) /\ j + 1 \in 1..Len(nqueue) /\ i + 1 <= j + 1
        BY <3>1, <4>1
      <4> QED  BY <3>1, <4>1, <4>2 DEF BeatInv
    <3> QED  BY <2>2, <3>2, <3>3, <3>4
  <2> QED  BY <1>5, <2>3, <2>4, <2>5 DEF Rests
<1>6. CASE Environment
  <2>1. PICK n \in Nodes : HostReport(n) \/ HostLeave(n) \/ VirtualWrite(n) \/ VirtualRemove(n)
    BY <1>6 DEF Environment
  <2>2. UNCHANGED <<npc, hostNode>>
    BY <2>1, EnvironmentDoes
  <2>3. CASE /\ virtual' = virtual /\ Grows(n, reported'[n])
             /\ \A m \in Nodes : reported[m] <= reported'[m]
    <3>1. /\ Len(nqueue') \in Nat
          /\ \A i \in 1..Len(nqueue') :
               \/ i \in 1..Len(nqueue) /\ nqueue'[i] = nqueue[i]
               \/ i = Len(nqueue') /\ nqueue'[i].node.name = n /\ nqueue'[i].node.beat = reported'[n]
      BY <2>3 DEF Grows
    <3>2. Virtual
      BY <1>2, <1>3, <2>3 DEF BeatInv
    <3>3. Queue
      <4>1. SUFFICES ASSUME NEW i \in 1..Len(nqueue')
                     PROVE  /\ nqueue'[i].node.beat <= reported'[nqueue'[i].node.name]
                            /\ virtual'[nqueue'[i].node.name].beat <= nqueue'[i].node.beat
        OBVIOUS
      <4>2. CASE i \in 1..Len(nqueue) /\ nqueue'[i] = nqueue[i]
        <5>1. /\ nqueue[i].node.beat <= reported[nqueue[i].node.name]
              /\ virtual[nqueue[i].node.name].beat <= nqueue[i].node.beat
              /\ nqueue[i].node.name \in Nodes /\ nqueue[i].node.beat \in Nat
          BY <1>2, <4>2 DEF BeatInv
        <5> QED  BY <1>2, <1>3, <2>3, <4>2, <5>1
      <4>3. CASE nqueue'[i].node.name = n /\ nqueue'[i].node.beat = reported'[n]
        BY <1>3, <3>2, <4>3
      <4> QED  BY <3>1, <4>2, <4>3
    <3>4. Order
      <4>1. SUFFICES ASSUME NEW i \in 1..Len(nqueue'), NEW j \in 1..Len(nqueue'), i <= j,
                            nqueue'[i].node.name = nqueue'[j].node.name
                     PROVE  nqueue'[i].node.beat <= nqueue'[j].node.beat
        OBVIOUS
      <4>2. CASE j \in 1..Len(nqueue) /\ nqueue'[j] = nqueue[j]
        <5>1. i \in 1..Len(nqueue) /\ (i # Len(nqueue') \/ i = j)
          BY <1>2, <3>1, <4>1, <4>2
        <5>2. nqueue'[i] = nqueue[i]
          BY <3>1, <4>2, <5>1
        <5> QED  BY <4>1, <4>2, <5>1, <5>2 DEF BeatInv
      <4>3. CASE nqueue'[j].node.name = n /\ nqueue'[j].node.beat = reported'[n]
        BY <3>3, <4>1, <4>3
      <4> QED  BY <3>1, <4>2, <4>3
    <3>5. Handler
      <4>1. SUFFICES ASSUME npc = "update"
                     PROVE  /\ hostNode.beat <= reported'[hostNode.name]
                            /\ virtual'[hostNode.name].beat <= hostNode.beat
                            /\ \A i \in 1..Len(nqueue') :
                                 nqueue'[i].node.name = hostNode.name =>
                                   hostNode.beat <= nqueue'[i].node.beat
        BY <2>2
      <4>2. hostNode.beat <= reported[hostNode.name] /\ virtual[hostNode.name].beat <= hostNode.beat
        BY <4>1 DEF BeatInv
      <4>3. hostNode.beat <= reported'[hostNode.name]
        BY <1>2, <1>3, <2>3, <4>1, <4>2
      <4>4. ASSUME NEW i \in 1..Len(nqueue'), nqueue'[i].node.name = hostNode.name
            PROVE  hostNode.beat <= nqueue'[i].node.beat
        BY <3>1, <4>1, <4>3, <4>4 DEF BeatInv
      <4> QED  BY <2>3, <4>2, <4>3, <4>4
    <3> QED  BY <3>2, <3>3, <3>4, <3>5
  <2>4. CASE /\ UNCHANGED <<reported, nqueue>>
             /\ \A m \in Nodes : virtual'[m] = NoNode \/ virtual'[m].beat = virtual[m].beat
    <3>1. \A m \in Nodes : virtual'[m].beat <= virtual[m].beat
      BY <1>2, <1>4, <2>4
    <3>2. Virtual
      BY <1>2, <1>3, <2>4, <3>1 DEF BeatInv
    <3>3. Queue
      BY <1>2, <1>3, <2>4, <3>1 DEF BeatInv
    <3>4. Order
      BY <2>4 DEF BeatInv
    <3>5. Handler
      BY <1>2, <1>3, <2>2, <2>4, <3>1 DEF BeatInv
    <3> QED  BY <3>2, <3>3, <3>4, <3>5
  <2> QED  BY <2>1, <2>3, <2>4, EnvironmentDoes
<1>7. CASE OpenNodes
  <2>1. /\ \A i \in 1..Len(nqueue') : /\ nqueue'[i].node.name \in Nodes
                                      /\ nqueue'[i].node.beat = reported[nqueue'[i].node.name]
        /\ UNCHANGED <<reported, virtual, npc, hostNode>>
    BY <1>7, OpenDoes DEF cluster
  <2>2. Virtual /\ Queue
    BY <1>2, <2>1 DEF BeatInv
  <2>3. Order
    BY <1>2, <2>1
  <2>4. Handler
    BY <1>2, <2>1 DEF BeatInv
  <2> QED  BY <2>2, <2>3, <2>4
<1>8. ASSUME nqueue # << >>, nqueue' = Tail(nqueue)
      PROVE  /\ \A i \in 1..Len(nqueue') : /\ i + 1 \in 1..Len(nqueue) /\ nqueue'[i] = nqueue[i + 1]
                                           /\ 1 <= i + 1 /\ i \in Nat
             /\ Head(nqueue) = nqueue[1] /\ 1 \in 1..Len(nqueue)
             /\ Order
  <2>1. /\ \A i \in 1..Len(nqueue') : i + 1 \in 1..Len(nqueue) /\ nqueue'[i] = nqueue[i + 1]
        /\ Head(nqueue) = nqueue[1] /\ 1 \in 1..Len(nqueue) /\ Len(nqueue') \in Nat
    BY <1>8, HeadIs
  <2>2. \A i \in 1..Len(nqueue') : 1 <= i + 1 /\ i \in Nat
    BY <2>1
  <2>3. Order
    <3>1. SUFFICES ASSUME NEW i \in 1..Len(nqueue'), NEW j \in 1..Len(nqueue'), i <= j,
                          nqueue'[i].node.name = nqueue'[j].node.name
                   PROVE  nqueue'[i].node.beat <= nqueue'[j].node.beat
      OBVIOUS
    <3>2. i + 1 \in 1..Len(nqueue) /\ j + 1 \in 1..Len(nqueue) /\ i + 1 <= j + 1
      BY <2>1, <3>1
    <3> QED  BY <2>1, <3>1, <3>2 DEF BeatInv
  <2> QED  BY <2>1, <2>2, <2>3
<1>9. CASE CreateNode
  <2> DEFINE h == Head(nqueue).node
  <2>1. /\ nqueue # << >> /\ nqueue' = Tail(nqueue) /\ npc' # "update" /\ reported' = reported
        /\ virtual'[h.name].beat = h.beat
        /\ \A m \in Nodes : m # h.name => virtual'[m] = virtual[m]
    BY <1>9, CreateDoes
  <2>2. h \in HostNode /\ h.name \in Nodes /\ h.beat <= reported[h.name]
    BY <1>8, <2>1, HeadIs, HostNodes DEF BeatInv
  <2>3. Order
    BY <1>8, <2>1
  <2>4. Virtual
    BY <2>1, <2>2 DEF BeatInv
  <2>5. Queue
    <3>1. SUFFICES ASSUME NEW i \in 1..Len(nqueue')
                   PROVE  /\ nqueue'[i].node.beat <= reported'[nqueue'[i].node.name]
                          /\ virtual'[nqueue'[i].node.name].beat <= nqueue'[i].node.beat
      OBVIOUS
    <3>2. /\ i + 1 \in 1..Len(nqueue) /\ nqueue'[i] = nqueue[i + 1] /\ 1 <= i + 1
          /\ 1 \in 1..Len(nqueue) /\ h = nqueue[1].node
      BY <1>8, <2>1, <3>1
    <3>3. nqueue[i + 1].node.name = h.name => h.beat <= nqueue[i + 1].node.beat
      BY <3>2 DEF BeatInv
    <3>4. /\ nqueue[i + 1].node.beat <= reported[nqueue[i + 1].node.name]
          /\ virtual[nqueue[i + 1].node.name].beat <= nqueue[i + 1].node.beat
          /\ nqueue[i + 1].node.name \in Nodes
      BY <1>2, <3>2 DEF BeatInv
    <3> HIDE DEF h
    <3> QED  BY <2>1, <3>2, <3>3, <3>4
  <2> QED  BY <2>1, <2>3, <2>4, <2>5
<1>10. CASE GetNode
  <2>1. /\ nqueue # << >> /\ nqueue' = Tail(nqueue) /\ hostNode' = Head(nqueue).node
        /\ UNCHANGED <<reported, virtual>>
    BY <1>10, GetDoes DEF cluster
  <2>2. Order
    BY <1>8, <2>1
  <2>3. Queue /\ Virtual
    BY <1>8, <2>1 DEF BeatInv
  <2>4. Handler
    <3>1. hostNode' = nqueue[1].node /\ 1 \in 1..Len(nqueue)
      BY <1>8, <2>1
    <3>2. hostNode'.beat <= reported'[hostNode'.name] /\ virtual'[hostNode'.name].beat <= hostNode'.beat
      BY <2>1, <3>1 DEF BeatInv
    <3>3. ASSUME NEW i \in 1..Len(nqueue'), nqueue'[i].node.name = hostNode'.name
          PROVE  hostNode'.beat <= nqueue'[i].node.beat
      BY <1>8, <2>1, <3>1, <3>3 DEF BeatInv
    <3> QED  BY <3>2, <3>3
  <2> QED  BY <2>2, <2>3, <2>4
<1>11. CASE UpdateNodeStatus
  <2>1. /\ npc = "update" /\ npc' # "update" /\ UNCHANGED <<reported, nqueue>>
        /\ hostNode.name \in Nodes
        /\ \/ virtual' = virtual
           \/ /\ virtual'[hostNode.name].beat = hostNode.beat
              /\ \A m \in Nodes : m # hostNode.name => virtual'[m] = virtual[m]
    BY <1>11, UpdateDoes DEF Return
  <2>2. Order
    BY <2>1 DEF BeatInv
  <2>3. Virtual
    BY <2>1 DEF BeatInv
  <2>4. Queue
    BY <1>2, <2>1 DEF BeatInv
  <2> QED  BY <2>1, <2>2, <2>3, <2>4
<1> QED  BY <1>5, <1>6, <1>7, <1>9, <1>10, <1>11, StepsAre

\* The types of what the process adds to the nodes.
ProcessTypeOK ==
  /\ phase \in {"file", "api", "run", "exited"}
  /\ k3s \in {"nothing", "file", "api"}
  /\ shim \in {"off", "starting", "serving", "failed", "ended"}
  /\ running \in 0..OtherLoops /\ waiting \in 0..OtherLoops
  /\ ended \in 0..Goroutines /\ sending \in 0..Goroutines
  /\ errs \in 0..ErrCapacity
  /\ code \in {0, 1}

LEMMA CountsTyped ==
  ASSUME ProcessTypeOK
  PROVE  /\ running \in Nat /\ waiting \in Nat /\ ended \in Nat /\ sending \in Nat /\ errs \in Nat
         /\ OtherLoops \in Nat /\ Goroutines = OtherLoops + 2 /\ ErrCapacity \in Nat /\ ErrCapacity > 0
BY Bounds, CapacityAssumption DEF ProcessTypeOK, Goroutines

LEMMA CountStep ==
  ASSUME NodeTypeOK, ProcessTypeOK, CountInv, [Next]_vars
  PROVE  ProcessTypeOK' /\ CountInv'
<1> USE CountsTyped
<1> DEFINE Active == {"opening", "watching", "waiting"}
           Sum == ended' + running' + waiting' =
                    OtherLoops + (IF nloop' = "ended" THEN 1 ELSE 0)
                    + (IF shim' \in {"failed", "ended"} THEN 1 - sending' ELSE 0)
           Places == /\ phase' \in {"file", "api", "run", "exited"}
                     /\ k3s' \in {"nothing", "file", "api"}
                     /\ shim' \in {"off", "starting", "serving", "failed", "ended"}
                     /\ code' \in {0, 1}
           Naturals == /\ running' \in Nat /\ waiting' \in Nat /\ ended' \in Nat
                       /\ sending' \in Nat /\ errs' \in Nat
           Running == /\ phase' = "run" /\ nloop' # "off"
                      /\ running' + waiting' <= OtherLoops /\ Sum
                      /\ sending' + errs' <= 1
                      /\ shim' # "failed" => sending' = 0 /\ errs' = 0
           Idle == /\ phase' # "run" /\ nloop' = "off" /\ shim' = "off"
                   /\ running' = 0 /\ waiting' = 0 /\ ended' = 0 /\ sending' = 0 /\ errs' = 0
<1>1. ASSUME Places, Naturals, Running PROVE ProcessTypeOK' /\ CountInv'
  <2>1. running' \in 0..OtherLoops /\ waiting' \in 0..OtherLoops
    BY <1>1
  <2>2. sending' \in {0, 1} /\ errs' \in {0, 1}
    <3>1. \A a, b \in Nat : a + b <= 1 => a \in {0, 1} /\ b \in {0, 1}
      OBVIOUS
    <3>2. sending' \in Nat /\ errs' \in Nat /\ sending' + errs' <= 1
      BY <1>1
    <3> QED  BY ONLY <3>1, <3>2
  <2>3. ended' <= OtherLoops + 2
    <3>1. ended' + running' + waiting' <= OtherLoops + 2
      BY <1>1, <2>2
    <3> QED  BY <1>1, <3>1
  <2>4. ended' \in 0..Goroutines /\ sending' \in 0..Goroutines /\ errs' \in 0..ErrCapacity
    <3>1. ended' \in 0..Goroutines
      <4>1. ended' \in Nat /\ ended' <= Goroutines /\ Goroutines \in Nat
        BY <1>1, <2>3
      <4> QED  BY <4>1
    <3>2. sending' \in 0..Goroutines
      BY <2>2
    <3>3. errs' \in 0..ErrCapacity
      BY <2>2
    <3> QED  BY <3>1, <3>2, <3>3
  <2>5. ProcessTypeOK'
    BY <1>1, <2>1, <2>4 DEF ProcessTypeOK, Goroutines
  <2> QED  BY <1>1, <2>5 DEF CountInv, NodeLoopEnded, ShimEnded
<1>2. Places /\ Idle => ProcessTypeOK' /\ CountInv'
  BY DEF ProcessTypeOK, CountInv
<1>3. /\ phase \in {"file", "api", "run", "exited"}
      /\ k3s \in {"nothing", "file", "api"}
      /\ shim \in {"off", "starting", "serving", "failed", "ended"}
      /\ code \in {0, 1}
      /\ sending + errs <= 1
      /\ shim # "failed" => sending = 0 /\ errs = 0
      /\ phase = "run" =>
           /\ nloop # "off" /\ running + waiting <= OtherLoops
           /\ ended + running + waiting =
                OtherLoops + (IF nloop = "ended" THEN 1 ELSE 0)
                + (IF shim \in {"failed", "ended"} THEN 1 - sending ELSE 0)
      /\ phase # "run" => /\ nloop = "off" /\ shim = "off"
                          /\ running = 0 /\ waiting = 0 /\ ended = 0 /\ sending = 0 /\ errs = 0
  BY DEF ProcessTypeOK, CountInv, NodeLoopEnded, ShimEnded
<1>4. ASSUME UNCHANGED process, nloop' = nloop \/ (nloop \in Active /\ nloop' \in Active)
      PROVE  ProcessTypeOK' /\ CountInv'
  <2>1. CASE phase = "run"
    <3>1. Places /\ Naturals /\ Running
      BY <1>3, <1>4, <2>1 DEF process
    <3> QED  BY <1>1, <3>1
  <2>2. CASE phase # "run"
    <3>1. Places /\ Idle
      BY <1>3, <1>4, <2>2 DEF process
    <3> QED  BY <1>2, <3>1
  <2> QED  BY <2>1, <2>2
<1>5. CASE Environment /\ UNCHANGED process
  BY <1>4, <1>5 DEF Environment, HostReport, HostLeave, VirtualWrite, VirtualRemove, nodeloop
<1>6. CASE NodeStep
  <2>1. nloop' = nloop \/ (nloop \in Active /\ nloop' \in Active)
    BY <1>6 DEF NodeStep, NodesLoop, OpenNodes, CloseNodes, RetryNodes, SkipDeleted, CreateNode, GetNode,
                UpdateNodeStatus, FailNode
  <2> QED  BY <1>4, <1>6, <2>1 DEF NodeStep
<1>7. CASE EndNodeLoop
  <2>1. /\ nloop \in Active /\ nloop' = "ended" /\ ended' = ended + 1
        /\ UNCHANGED <<phase, k3s, shim, running, waiting, sending, errs, code>>
    BY <1>7 DEF EndNodeLoop, EndNodes
  <2>2. phase = "run" /\ nloop # "ended" /\ nloop' # "off"
    BY <1>3, <2>1
  <2>3. Places /\ Naturals
    BY <1>3, <2>1
  <2>4. Sum
    BY <1>3, <2>1, <2>2
  <2>5. Running
    BY <1>3, <2>1, <2>2, <2>4
  <2> QED  BY <1>1, <2>3, <2>5
<1>8. CASE OtherLoopStep
  <2>1. /\ nloop' = nloop /\ (running > 0 \/ waiting > 0)
        /\ \/ running' = running - 1 /\ waiting' = waiting + 1 /\ ended' = ended /\ running > 0
           \/ running' = running + 1 /\ waiting' = waiting - 1 /\ ended' = ended /\ waiting > 0
           \/ running' = running - 1 /\ waiting' = waiting /\ ended' = ended + 1 /\ running > 0
           \/ running' = running /\ waiting' = waiting - 1 /\ ended' = ended + 1 /\ waiting > 0
        /\ UNCHANGED <<phase, k3s, shim, sending, errs, code>>
    BY <1>8 DEF OtherLoopStep, CloseOther, RetryOther, EndOther, nodevars, nodeloop
  <2>2. phase = "run"
    BY <1>3, <2>1
  <2>3. Naturals
    BY <1>3, <2>1
  <2>4. /\ ended' + running' + waiting' = ended + running + waiting
        /\ running' + waiting' <= running + waiting
    BY <2>1
  <2>5. running' + waiting' <= OtherLoops
    BY <1>3, <2>2, <2>3, <2>4
  <2>6. Places /\ Running
    BY <1>3, <2>1, <2>2, <2>4, <2>5
  <2> QED  BY <1>1, <2>3, <2>6
<1>9. CASE Shim
  <2>1. /\ nloop' = nloop /\ shim \in {"starting", "serving"}
        /\ \/ shim' = "serving" /\ UNCHANGED <<ended, sending>>
           \/ shim' = "failed" /\ ended' = ended + 1 /\ sending' = sending
           \/ shim' = "failed" /\ ended' = ended /\ sending' = sending + 1
           \/ shim' = "ended" /\ ended' = ended + 1 /\ sending' = sending
        /\ UNCHANGED <<phase, k3s, running, waiting, errs, code>>
    BY <1>9 DEF Shim, ShimListens, ShimFails, ShimEnds, nodevars, nodeloop
  <2>2. phase = "run" /\ sending = 0 /\ errs = 0
    BY <1>3, <2>1
  <2>3. CASE shim' = "serving"
    <3>1. Places /\ Naturals /\ Running
      BY <1>3, <2>1, <2>2, <2>3
    <3> QED  BY <1>1, <3>1
  <2>4. CASE shim' # "serving"
    <3>1. Places /\ Naturals /\ Running
      BY <1>3, <2>1, <2>2, <2>4
    <3> QED  BY <1>1, <3>1
  <2> QED  BY <2>3, <2>4
<1>10. CASE SendError
  <2>1. /\ nloop' = nloop /\ sending > 0 /\ errs' = errs + 1 /\ sending' = sending - 1
        /\ ended' = ended + 1
        /\ UNCHANGED <<phase, k3s, shim, running, waiting, code>>
    BY <1>10 DEF SendError, nodevars, nodeloop
  <2>2. phase = "run" /\ shim = "failed" /\ sending = 1 /\ errs = 0
    BY <1>3, <2>1
  <2>3. Places /\ Naturals /\ Running
    BY <1>3, <2>1, <2>2
  <2> QED  BY <1>1, <2>3
<1>11. CASE GiveUp \/ NewShimFails \/ RunReturns \/ Crash
  <2>1. Places /\ Idle
    BY <1>3, <1>11 DEF GiveUp, NewShimFails, RunReturns, Crash, Exit, NodesOff
  <2> QED  BY <1>2, <2>1
<1>12. CASE FileAppears \/ Restart
  <2>1. Places /\ Idle
    BY <1>3, <1>12 DEF FileAppears, Restart, nodevars, nodeloop
  <2> QED  BY <1>2, <2>1
<1>13. CASE StartLoops
  <2>1. /\ phase = "api" /\ phase' = "run" /\ running' = OtherLoops /\ nloop' = "opening"
        /\ UNCHANGED <<k3s, shim, waiting, ended, sending, errs, code>>
    BY <1>13 DEF StartLoops
  <2>2. Places /\ Naturals /\ Running
    BY <1>3, <2>1
  <2> QED  BY <1>1, <2>2
<1>14. CASE StartShim
  <2>1. /\ phase = "run" /\ shim = "off" /\ shim' = "starting" /\ nloop' = nloop
        /\ UNCHANGED <<phase, k3s, running, waiting, ended, sending, errs, code>>
    BY <1>14 DEF StartShim, nodevars, nodeloop
  <2>2. Places /\ Naturals /\ Running
    BY <1>3, <2>1
  <2> QED  BY <1>1, <2>2
<1>15. CASE Signal
  BY <1>4, <1>15 DEF Signal, nodeloop
<1>16. CASE K3sProgress
  <2>1. /\ k3s' \in {"nothing", "file", "api"} /\ nloop' = nloop
        /\ UNCHANGED <<phase, shim, running, waiting, ended, sending, errs, code>>
    BY <1>16 DEF K3sProgress, nodevars, nodeloop
  <2>2. CASE phase = "run"
    <3>1. Places /\ Naturals /\ Running
      BY <1>3, <2>1, <2>2
    <3> QED  BY <1>1, <3>1
  <2>3. CASE phase # "run"
    <3>1. Places /\ Idle
      BY <1>3, <2>1, <2>3
    <3> QED  BY <1>2, <3>1
  <2> QED  BY <2>2, <2>3
<1>17. CASE UNCHANGED vars
  BY <1>4, <1>17 DEF vars, nodevars, nodeloop
<1> QED
  BY <1>5, <1>6, <1>7, <1>8, <1>9, <1>10, <1>11, <1>12, <1>13, <1>14, <1>15, <1>16, <1>17
  DEF Next, Main

-----------------------------------------------------------------------------
(* The theorems.                                                           *)

LEMMA TypeParts == TypeOK <=>
  /\ NodeTypeOK /\ ProcessTypeOK
  /\ phase # "run" => running + waiting + ended + sending = 0
BY DEF TypeOK, ProcessTypeOK

LEMMA Initially == Init => IInv
<1> SUFFICES ASSUME Init PROVE IInv
  OBVIOUS
<1>1. NodeTypeOK
  <2>1. /\ 0 \in 0..MaxBeats /\ 0 \in 0..MaxEdits /\ 0 \in 0..MaxFaults
        /\ << >> \in Seq(Event) /\ 1 \in Nat
    BY Bounds
  <2> QED  BY <2>1 DEF Init, NodeInit, NodeTypeOK
<1>2. ProcessTypeOK
  <2>1. 0 \in 0..OtherLoops /\ 0 \in 0..Goroutines /\ 0 \in 0..ErrCapacity
    BY Bounds DEF Goroutines
  <2> QED  BY <2>1 DEF Init, ProcessTypeOK
<1>3. CountInv /\ PresentInv /\ HandlerInv
  BY DEF Init, NodeInit, CountInv, PresentInv, HandlerInv
<1>4. BeatInv
  <2>1. Len(nqueue) = 0
    BY DEF Init, NodeInit
  <2>2. 1..Len(nqueue) = {}
    BY <2>1
  <2> QED  BY <2>2, VirtualNodes DEF Init, NodeInit, BeatInv
<1>5. running + waiting + ended + sending = 0
  BY DEF Init
<1> QED  BY <1>1, <1>2, <1>3, <1>4, <1>5, TypeParts DEF IInv

LEMMA Invariance == IInv /\ [Next]_vars => IInv'
<1> SUFFICES ASSUME IInv, [Next]_vars PROVE IInv'
  OBVIOUS
<1>1. NodeTypeOK /\ ProcessTypeOK
  BY TypeParts DEF IInv
<1>2. NodeTypeOK' /\ PresentInv' /\ HandlerInv'
  BY <1>1, NodeStepKeeps DEF IInv
<1>3. BeatInv'
  BY <1>1, <1>2, BeatStep DEF IInv
<1>4. ProcessTypeOK' /\ CountInv'
  BY <1>1, CountStep DEF IInv
<1>5. (phase # "run" => running + waiting + ended + sending = 0)'
  BY <1>4 DEF CountInv
<1>6. TypeOK'
  BY <1>2, <1>4, <1>5 DEF TypeOK, ProcessTypeOK
<1> QED  BY <1>2, <1>3, <1>4, <1>6 DEF IInv

\* The inductive invariant holds in every state of the process.
THEOREM Invariant == Spec => []IInv
BY Initially, Invariance, PTL DEF Spec

\* Every variable has its type, and Run's goroutines are neither lost nor doubled.
THEOREM TypesHold == Spec => []TypeOK
<1>1. IInv => TypeOK
  BY DEF IInv
<1> QED  BY <1>1, Invariant, PTL

\* However many goroutines Run starts, and however little errCh holds, nobody blocks on
\* it: watchWithRetry returns no error, so the shim's is the only one.
THEOREM NobodyBlocks == Spec => []NobodyBlocksOnErrors
<1>1. IInv => NobodyBlocksOnErrors
  BY CountsTyped, TypeParts DEF IInv, CountInv, NobodyBlocksOnErrors
<1> QED  BY <1>1, Invariant, PTL

\* syncNodeToVirtual never takes a virtual node back to an earlier report, over every
\* reopened watch, lost call, replaced pod and node that leaves and comes back.
THEOREM NodeStatusOnlyForward == Spec => NodeStatusMovesForward
<1> DEFINE Forward ==
      \A n \in Nodes : virtual[n] # NoNode /\ virtual'[n] # NoNode =>
        virtual[n].beat <= virtual'[n].beat
<1>1. ASSUME IInv, [Next]_vars PROVE Forward
  <2>1. NodeTypeOK /\ PresentInv /\ HandlerInv /\ BeatInv
    BY <1>1, TypeParts DEF IInv
  <2>2. \A n \in Nodes : virtual[n].beat \in Nat
    BY <2>1, NodesTyped
  <2>3. ASSUME \A n \in Nodes : virtual'[n] = virtual[n] \/ virtual[n] = NoNode \/ virtual'[n] = NoNode
                                \/ virtual'[n].beat = virtual[n].beat
        PROVE  Forward
    BY <2>2, <2>3
  <2> HIDE DEF Forward
  <2>4. CASE Rests
    BY <2>3, <2>4 DEF Rests, cluster
  <2>5. CASE Environment
    <3>1. PICK n \in Nodes : HostReport(n) \/ HostLeave(n) \/ VirtualWrite(n) \/ VirtualRemove(n)
      BY <2>5 DEF Environment
    <3> QED  BY <2>1, <2>3, <3>1, EnvironmentDoes
  <2>6. CASE OpenNodes \/ GetNode
    BY <2>3, <2>6 DEF OpenNodes, GetNode, cluster
  <2>7. CASE CreateNode
    BY <2>1, <2>3, <2>7, CreateDoes
  <2>8. CASE UpdateNodeStatus
    <3>1. hostNode.name \in Nodes => virtual[hostNode.name].beat <= hostNode.beat
      BY <2>1, <2>8, UpdateDoes DEF BeatInv
    <3> QED  BY <2>1, <2>2, <2>8, <3>1, UpdateDoes DEF Forward
  <2> QED  BY <1>1, <2>1, <2>4, <2>5, <2>6, <2>7, <2>8, StepsAre
<1>2. IInv /\ [Next]_vars => [Forward]_vars
  BY <1>1
<1>3. Spec => [][Forward]_vars
  BY <1>2, Invariant, PTL DEF Spec
<1> QED  BY <1>3 DEF NodeStatusMovesForward
=============================================================================
