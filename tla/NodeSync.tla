------------------------------- MODULE NodeSync -------------------------------
(***************************************************************************)
(* Nodes in flat mode, pkg/syncer/syncer.go: syncNodes watches the host's  *)
(* nodes and syncNodeToVirtual writes them into the virtual cluster, with  *)
(* the address of the syncer's own pod in place of the kubelet's           *)
(* (rewriteNodeForShim).  The loop is one goroutine of the process that    *)
(* SyncerRun describes: that module starts and ends it and changes podIP   *)
(* and cancelled.                                                          *)
(*                                                                         *)
(* External: the two API servers (as in PodSync), the host's nodes, the    *)
(* users of the virtual cluster, who edit and remove its nodes.  k3s runs  *)
(* without its node controllers (manifests.go:471) and leaves them alone.  *)
(*                                                                         *)
(* Abstracted: a node's status and labels are the number of the report     *)
(* they come from; its addresses are one address.  A virtual node's spec   *)
(* is written on creation only and is left out.                            *)
(***************************************************************************)
EXTENDS Naturals, Sequences, FiniteSets

CONSTANTS
  Nodes,     \* names of host nodes
  MaxBeats,  \* bound: reports of one host node
  MaxEdits,  \* bound: edits and removals of one virtual node by users
  MaxFaults  \* bound: failed calls, crashes, timeouts, failures of the shim

ASSUME NodeBounds == {MaxBeats, MaxEdits, MaxFaults} \subseteq Nat /\ IsFiniteSet(Nodes)

VARIABLES
  reported,  \* for each name, the reports made so far
  present,   \* names of the nodes in the host cluster
  virtual,   \* the virtual cluster's node of each name
  edited,    \* for each name, the users' writes so far
  nloop,     \* where syncNodes stands: not started, about to watch, in an open
             \* watch, waiting before the next one, or ended
  nqueue,    \* the events of the open watch
  npc,       \* where syncNodeToVirtual stands
  hostNode,  \* its argument
  existing,  \* its copy of the virtual node
  podIP,     \* ShimPodIP, the address of the syncer's pod
  cancelled, \* the context of the process is cancelled
  faults     \* failures so far

cluster == <<reported, present, virtual, edited>>
nodeloop == <<nloop, nqueue, npc, hostNode, existing>>
nodevars == <<cluster, nodeloop, podIP, cancelled, faults>>

NoNode == [beat |-> 0]       \* no virtual node of the name
Kubelet == 0                 \* the address of the node itself

HostNode == [name : Nodes, beat : 1..MaxBeats]
VirtualNode == [beat : 1..MaxBeats, address : Nat, edits : 0..MaxEdits]
Event == [type : {"ADDED", "MODIFIED", "DELETED"}, node : HostNode]

NodeTypeOK ==
  /\ reported \in [Nodes -> 0..MaxBeats] /\ present \subseteq Nodes
  /\ virtual \in [Nodes -> VirtualNode \cup {NoNode}]
  /\ edited \in [Nodes -> 0..MaxEdits]
  /\ nloop \in {"off", "opening", "watching", "waiting", "ended"}
  /\ nqueue \in Seq(Event)
  /\ npc \in {"idle", "update"}
  /\ hostNode \in HostNode \cup {NoNode}
  /\ existing \in VirtualNode \cup {NoNode}
  /\ podIP \in Nat /\ cancelled \in BOOLEAN /\ faults \in 0..MaxFaults

NodeInit ==
  /\ reported = [n \in Nodes |-> 0] /\ present = {}
  /\ virtual = [n \in Nodes |-> NoNode]
  /\ edited = [n \in Nodes |-> 0]
  /\ nloop = "off" /\ nqueue = << >>
  /\ npc = "idle" /\ hostNode = NoNode /\ existing = NoNode
  /\ podIP = 1 /\ cancelled = FALSE /\ faults = 0

-----------------------------------------------------------------------------
(* The host's nodes and the users of the virtual cluster.                  *)

Tell(type, n, beat) ==
  nqueue' = IF nloop = "watching"
            THEN Append(nqueue, [type |-> type, node |-> [name |-> n, beat |-> beat]])
            ELSE nqueue

\* A node joins, under a new or an old name, or reports its status.
HostReport(n) ==
  /\ reported[n] < MaxBeats
  /\ reported' = [reported EXCEPT ![n] = @ + 1]
  /\ present' = present \cup {n}
  /\ Tell(IF n \in present THEN "MODIFIED" ELSE "ADDED", n, reported[n] + 1)
  /\ UNCHANGED <<virtual, edited, nloop, npc, hostNode, existing, podIP, cancelled, faults>>

HostLeave(n) ==
  /\ n \in present
  /\ present' = present \ {n}
  /\ Tell("DELETED", n, reported[n])
  /\ UNCHANGED <<reported, virtual, edited, nloop, npc, hostNode, existing, podIP,
                 cancelled, faults>>

\* The users cordon, label or remove a virtual node.
VirtualWrite(n) ==
  /\ virtual[n] # NoNode
  /\ edited[n] < MaxEdits
  /\ edited' = [edited EXCEPT ![n] = @ + 1]
  /\ virtual' = [virtual EXCEPT ![n] = [@ EXCEPT !.edits = edited[n] + 1]]
  /\ UNCHANGED <<reported, present, nodeloop, podIP, cancelled, faults>>

VirtualRemove(n) ==
  /\ virtual[n] # NoNode
  /\ edited[n] < MaxEdits
  /\ edited' = [edited EXCEPT ![n] = @ + 1]
  /\ virtual' = [virtual EXCEPT ![n] = NoNode]
  /\ UNCHANGED <<reported, present, nodeloop, podIP, cancelled, faults>>

Environment ==
  \E n \in Nodes : HostReport(n) \/ HostLeave(n) \/ VirtualWrite(n) \/ VirtualRemove(n)

-----------------------------------------------------------------------------
(* syncNodes.                                                              *)

\* Every order in which a set can be listed.
Listings(S) ==
  {s \in [1..Cardinality(S) -> S] : \A i, j \in DOMAIN s : s[i] = s[j] => i = j}

\* Mutant: the watch starts at the present and lists nothing.
OpenNodesFromNow ==
  /\ nloop = "opening"
  /\ ~cancelled
  /\ nloop' = "watching"
  /\ nqueue' = << >>
  /\ UNCHANGED <<cluster, npc, hostNode, existing, podIP, cancelled, faults>>

OpenNodes ==
  /\ nloop = "opening"
  /\ ~cancelled
  /\ nloop' = "watching"
  /\ \E s \in Listings(present) :
       nqueue' = [i \in DOMAIN s |->
                    [type |-> "ADDED", node |-> [name |-> s[i], beat |-> reported[s[i]]]]]
  /\ UNCHANGED <<cluster, npc, hostNode, existing, podIP, cancelled, faults>>

\* The watch closes: an error, so watchWithRetry waits five seconds.
CloseNodes ==
  /\ nloop = "watching"
  /\ npc = "idle"
  /\ ~cancelled
  /\ nloop' = "waiting"
  /\ nqueue' = << >>
  /\ UNCHANGED <<cluster, npc, hostNode, existing, podIP, cancelled, faults>>

RetryNodes ==
  /\ nloop = "waiting"
  /\ ~cancelled
  /\ nloop' = "opening"
  /\ UNCHANGED <<cluster, nqueue, npc, hostNode, existing, podIP, cancelled, faults>>

\* The address is the shim's in everything the loop writes.
rewriteNodeForShim(address) == IF podIP = 0 THEN address ELSE podIP

Written(h, edits) ==
  [beat |-> h.beat, address |-> rewriteNodeForShim(Kubelet), edits |-> edits]

Return == npc' = "idle" /\ hostNode' = NoNode /\ existing' = NoNode

\* Deletions are ignored.
SkipDeleted ==
  /\ nloop = "watching" /\ npc = "idle" /\ nqueue # << >>
  /\ Head(nqueue).type = "DELETED"
  /\ nqueue' = Tail(nqueue)
  /\ UNCHANGED <<cluster, nloop, npc, hostNode, existing, podIP, cancelled, faults>>

Upsert ==
  /\ nloop = "watching" /\ npc = "idle" /\ nqueue # << >> /\ ~cancelled
  /\ Head(nqueue).type \in {"ADDED", "MODIFIED"}
  /\ nqueue' = Tail(nqueue)

\* Get does not find it; nobody but this loop creates it before the Create.
CreateNode ==
  /\ Upsert
  /\ LET h == Head(nqueue).node IN
     /\ virtual[h.name] = NoNode
     /\ virtual' = [virtual EXCEPT ![h.name] = Written(h, 0)]
  /\ UNCHANGED <<reported, present, edited, nloop, npc, hostNode, existing, podIP,
                 cancelled, faults>>

GetNode ==
  /\ Upsert
  /\ LET h == Head(nqueue).node IN
     /\ virtual[h.name] # NoNode
     /\ npc' = "update" /\ hostNode' = h /\ existing' = virtual[h.name]
  /\ UNCHANGED <<cluster, nloop, podIP, cancelled, faults>>

\* A node that is gone or has changed since it was read is an error, which is
\* only logged.
UpdateNodeStatus ==
  /\ npc = "update"
  /\ ~cancelled
  /\ virtual' = IF virtual[hostNode.name] # existing THEN virtual
                ELSE [virtual EXCEPT ![hostNode.name] = Written(hostNode, existing.edits)]
  /\ Return
  /\ UNCHANGED <<reported, present, edited, nloop, nqueue, podIP, cancelled, faults>>

\* Mutant: a failed event is put back at the end of the queue.
FailNodeRequeue ==
  /\ nloop = "watching" /\ npc = "idle" /\ nqueue # << >>
  /\ nqueue' = Append(Tail(nqueue), Head(nqueue))
  /\ faults < MaxFaults /\ faults' = faults + 1
  /\ UNCHANGED <<cluster, nloop, npc, hostNode, existing, podIP, cancelled>>

\* A call fails, or is cut off by the context: logged, and the event is gone.
FailNode ==
  /\ \/ npc = "update" /\ UNCHANGED nqueue
     \/ nloop = "watching" /\ npc = "idle" /\ nqueue # << >> /\ nqueue' = Tail(nqueue)
  /\ \/ cancelled /\ UNCHANGED faults
     \/ faults < MaxFaults /\ faults' = faults + 1
  /\ Return
  /\ UNCHANGED <<cluster, nloop, podIP, cancelled>>

\* The cancelled context ends the loop between two events, or while it waits.
EndNodes ==
  /\ cancelled
  /\ npc = "idle"
  /\ nloop \in {"opening", "watching", "waiting"}
  /\ nloop' = "ended" /\ nqueue' = << >>
  /\ UNCHANGED <<cluster, npc, hostNode, existing, podIP, cancelled, faults>>

\* The process is gone and its goroutine with it.
NodesOff ==
  /\ nloop' = "off" /\ nqueue' = << >>
  /\ Return

NodesLoop ==
  \/ OpenNodes \/ CloseNodes \/ RetryNodes
  \/ SkipDeleted \/ CreateNode \/ GetNode \/ UpdateNodeStatus \/ FailNode
=============================================================================
