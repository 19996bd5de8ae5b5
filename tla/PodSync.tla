------------------------------- MODULE PodSync -------------------------------
(***************************************************************************)
(* Pods in flat mode, pkg/syncer/syncer.go: the virtual-to-host loop       *)
(* (syncPods, syncPodToHost) and the host-to-virtual loop (syncHostPods,   *)
(* reconcileVirtualPodFromHost), which run side by side and meet only in   *)
(* the two API servers.  One pod name is modelled: the loops treat names   *)
(* independently.  A name can be used again by a new pod, and the host pod *)
(* of a name outlives its deletion while it terminates.                    *)
(*                                                                         *)
(* External: the two API servers (a watch delivers the objects that exist, *)
(* then every change; writing a status with an outdated copy conflicts;    *)
(* Bind checks no UID; a pod without a node is removed at once), the users *)
(* of the virtual cluster, the host's scheduler and kubelet.               *)
(*                                                                         *)
(* Abstracted: a pod's status is the host pod it comes from and a level    *)
(* that grows; the virtual pod's resourceVersion is its whole record,      *)
(* which no two writes repeat ("edits" counts the users' writes, the mark  *)
(* of a graceful deletion among them).                                     *)
(***************************************************************************)
EXTENDS Naturals, Sequences

CONSTANTS
  Nodes,      \* the host's nodes
  NoNode,     \* a pod not scheduled yet
  NoPod,      \* no pod of the name
  MaxUids,    \* bound: pods the users create under the name
  MaxEdits,   \* bound: other writes of the users to one pod
  MaxLevel,   \* bound: status changes of one host pod
  MaxEvict,   \* bound: host pods deleted by somebody else than the syncer
  MaxFaults   \* bound: failed calls, restarts of the syncer

ASSUME NoNodeAssumption == NoNode \notin Nodes
ASSUME BoundsAssumption ==
  {MaxUids, MaxEdits, MaxLevel, MaxEvict, MaxFaults} \subseteq Nat

VARIABLES
  virt,      \* the virtual pod of the name
  vwatching, \* syncPods holds an open watch
  vqueue,    \* its events
  host,      \* the host pod of the translated name
  hwatching, \* syncHostPods holds an open watch
  hqueue,    \* its events, each with the host pod as it was
  pc,        \* where reconcileVirtualPodFromHost stands
  hostPod,   \* its argument
  vPod,      \* its copy of the virtual pod
  uids,      \* virtual pods created so far
  made,      \* for each host pod created, in order, the virtual pod it is made from
  evicted,   \* host pods deleted from outside so far
  faults,    \* failed calls and restarts so far
  lossless   \* no watch was closed and no call failed so far

vvars == <<virt, vwatching, vqueue, uids>>
hvars == <<host, hwatching, hqueue, made, evicted>>
loopvars == <<pc, hostPod, vPod>>
vars == <<vvars, hvars, loopvars, faults, lossless>>

Status == [from : Nat, level : 0..MaxLevel]
VirtualPod ==
  [uid : Nat, edits : 0..MaxEdits, node : Nodes \cup {NoNode}, status : Status]
HostPod ==
  [uid : Nat, node : Nodes \cup {NoNode}, status : Status,
   terminating : BOOLEAN]

ASSUME NoPodAssumption == NoPod \notin VirtualPod \cup HostPod

\* Every variable has its type; a pod made on the host carries its own status.
TypeOK ==
  /\ virt \in VirtualPod \cup {NoPod}
  /\ vwatching \in BOOLEAN /\ hwatching \in BOOLEAN
  /\ vqueue \in Seq([type : {"ADDED", "MODIFIED", "DELETED"}, uid : Nat])
  /\ host \in HostPod \cup {NoPod}
  /\ hqueue \in Seq(HostPod)
  /\ pc \in {"idle", "bind", "reget", "update"}
  /\ hostPod \in HostPod \cup {NoPod}
  /\ vPod \in VirtualPod \cup {NoPod}
  /\ uids \in 0..MaxUids /\ evicted \in 0..MaxEvict /\ faults \in 0..MaxFaults
  /\ made \in Seq(1..MaxUids)
  /\ lossless \in BOOLEAN

Init ==
  /\ virt = NoPod /\ host = NoPod
  /\ vwatching = FALSE /\ hwatching = FALSE
  /\ vqueue = << >> /\ hqueue = << >>
  /\ pc = "idle" /\ hostPod = NoPod /\ vPod = NoPod
  /\ uids = 0 /\ made = << >> /\ evicted = 0 /\ faults = 0
  /\ lossless = TRUE

-----------------------------------------------------------------------------
(* The virtual API server and its users.                                   *)

SetVirtual(p) == virt' = p

TellVirtual(type, u) ==
  vqueue' = IF vwatching THEN Append(vqueue, [type |-> type, uid |-> u]) ELSE vqueue

NewPod(u) ==
  [uid |-> u, edits |-> 0, node |-> NoNode, status |-> [from |-> 0, level |-> 0]]

VirtualCreate ==
  /\ virt = NoPod
  /\ uids < MaxUids
  /\ uids' = uids + 1
  /\ SetVirtual(NewPod(uids + 1))
  /\ TellVirtual("ADDED", uids + 1)
  /\ UNCHANGED <<vwatching, hvars, loopvars, faults, lossless>>

VirtualEdit ==
  /\ virt # NoPod
  /\ virt.edits < MaxEdits
  /\ SetVirtual([virt EXCEPT !.edits = @ + 1])
  /\ TellVirtual("MODIFIED", virt.uid)
  /\ UNCHANGED <<vwatching, uids, hvars, loopvars, faults, lossless>>

\* The pod leaves the virtual API server; what no watch sees, nobody reports.
VirtualDelete ==
  /\ virt # NoPod
  /\ SetVirtual(NoPod)
  /\ TellVirtual("DELETED", virt.uid)
  /\ lossless' = (lossless /\ vwatching)
  /\ UNCHANGED <<vwatching, uids, hvars, loopvars, faults>>

\* k3s runs its own scheduler over the nodes syncNodes mirrors.
VirtualSchedule ==
  /\ virt # NoPod
  /\ virt.node = NoNode
  /\ \E n \in Nodes : SetVirtual([virt EXCEPT !.node = n])
  /\ TellVirtual("MODIFIED", virt.uid)
  /\ UNCHANGED <<vwatching, uids, hvars, loopvars, faults, lossless>>

-----------------------------------------------------------------------------
(* The host API server, scheduler and kubelet.                             *)

TellHost(p) == hqueue' = IF hwatching THEN Append(hqueue, p) ELSE hqueue

\* A write of the host pod that leaves it in place.
SetHost(p) == host' = p /\ TellHost(p)

HostSchedule ==
  /\ host # NoPod
  /\ host.node = NoNode
  /\ \E n \in Nodes : SetHost([host EXCEPT !.node = n])
  /\ UNCHANGED <<vvars, hwatching, made, evicted, loopvars, faults, lossless>>

HostStatus ==
  /\ host # NoPod
  /\ host.node # NoNode
  /\ host.status.level < MaxLevel
  /\ SetHost([host EXCEPT !.status.level = @ + 1])
  /\ UNCHANGED <<vvars, hwatching, made, evicted, loopvars, faults, lossless>>

\* A Delete call: a running pod is only marked, its kubelet removes it later.
HostDeleteCall ==
  IF host = NoPod \/ host.terminating THEN UNCHANGED <<host, hqueue>>
  ELSE IF host.node = NoNode THEN host' = NoPod /\ UNCHANGED hqueue
  ELSE SetHost([host EXCEPT !.terminating = TRUE])

HostTerminated ==
  /\ host # NoPod
  /\ host.terminating
  /\ host' = NoPod
  /\ UNCHANGED <<vvars, hwatching, hqueue, made, evicted, loopvars, faults, lossless>>

HostEvict ==
  /\ host # NoPod
  /\ evicted < MaxEvict
  /\ evicted' = evicted + 1
  /\ HostDeleteCall
  /\ UNCHANGED <<vvars, hwatching, made, loopvars, faults, lossless>>

-----------------------------------------------------------------------------
(* syncPods.                                                               *)

OpenPods ==
  /\ ~vwatching
  /\ vwatching' = TRUE
  /\ vqueue' = IF virt = NoPod THEN << >> ELSE <<[type |-> "ADDED", uid |-> virt.uid]>>
  /\ UNCHANGED <<virt, uids, hvars, loopvars, faults, lossless>>

ClosePods ==
  /\ vwatching
  /\ vwatching' = FALSE
  /\ vqueue' = << >>
  /\ lossless' = FALSE
  /\ UNCHANGED <<virt, uids, hvars, loopvars, faults>>

\* Mutant: the pod is created without its status subresource.
SyncPodWithoutStatus(u) ==
  IF host # NoPod THEN UNCHANGED <<host, hqueue, made>>
  ELSE /\ made' = Append(made, u)
       /\ SetHost([uid |-> Len(made) + 1, node |-> NoNode, terminating |-> FALSE])

\* Create if there is no pod of the name, even one on its way out.
syncPodToHost(u) ==
  IF host # NoPod THEN UNCHANGED <<host, hqueue, made>>
  ELSE /\ made' = Append(made, u)
       /\ SetHost([uid |-> Len(made) + 1, node |-> NoNode,
                   status |-> [from |-> Len(made) + 1, level |-> 0],
                   terminating |-> FALSE])

HandleUpsert ==
  /\ vqueue # << >>
  /\ Head(vqueue).type \in {"ADDED", "MODIFIED"}
  /\ vqueue' = Tail(vqueue)
  /\ syncPodToHost(Head(vqueue).uid)
  /\ UNCHANGED <<virt, vwatching, uids, hwatching, evicted, loopvars, faults, lossless>>

\* Mutant: only the virtual side is cleaned up.
HandleDeleteIgnored ==
  /\ vqueue # << >>
  /\ Head(vqueue).type = "DELETED"
  /\ vqueue' = Tail(vqueue)
  /\ UNCHANGED <<virt, vwatching, uids, hvars, loopvars, faults, lossless>>

HandleDelete ==
  /\ vqueue # << >>
  /\ Head(vqueue).type = "DELETED"
  /\ vqueue' = Tail(vqueue)
  /\ HostDeleteCall
  /\ UNCHANGED <<virt, vwatching, uids, hwatching, made, evicted, loopvars, faults, lossless>>

\* Mutant: a failed event is put back at the end of the queue.
FailPodsRequeue ==
  /\ vqueue # << >>
  /\ faults < MaxFaults
  /\ faults' = faults + 1
  /\ lossless' = FALSE
  /\ vqueue' = Append(Tail(vqueue), Head(vqueue))
  /\ UNCHANGED <<virt, vwatching, uids, hvars, loopvars>>

\* Get, Create or Delete fails; the error is logged and the event gone.
FailPods ==
  /\ vqueue # << >>
  /\ faults < MaxFaults
  /\ faults' = faults + 1
  /\ lossless' = FALSE
  /\ vqueue' = Tail(vqueue)
  /\ UNCHANGED <<virt, vwatching, uids, hvars, loopvars>>

-----------------------------------------------------------------------------
(* syncHostPods.                                                           *)

\* Mutant: the watch starts at the present and lists nothing.
OpenHostPodsFromNow ==
  /\ ~hwatching
  /\ hwatching' = TRUE
  /\ hqueue' = << >>
  /\ UNCHANGED <<vvars, host, made, evicted, loopvars, faults, lossless>>

OpenHostPods ==
  /\ ~hwatching
  /\ hwatching' = TRUE
  /\ hqueue' = IF host = NoPod THEN << >> ELSE <<host>>
  /\ UNCHANGED <<vvars, host, made, evicted, loopvars, faults, lossless>>

\* The loop sees the closed channel between two events only.
CloseHostPods ==
  /\ hwatching
  /\ pc = "idle"
  /\ hwatching' = FALSE
  /\ hqueue' = << >>
  /\ lossless' = FALSE
  /\ UNCHANGED <<vvars, host, made, evicted, loopvars, faults>>

\* reflect.DeepEqual: only two statuses nothing was reported in can be equal
\* without being one and the same.
SameStatus(s, t) == s = t \/ (s.level = 0 /\ t.level = 0)

\* The handler returns; its locals are dead.
Return == pc' = "idle" /\ hostPod' = NoPod /\ vPod' = NoPod

\* What follows a Get that returned the virtual pod p.
Compare(p, h) ==
  IF SameStatus(p.status, h.status) THEN Return
  ELSE pc' = "update" /\ hostPod' = h /\ vPod' = p

\* Mutant: the newest event is handled first.
ReceiveNewestHostPod ==
  /\ pc = "idle"
  /\ hqueue # << >>
  /\ hqueue' = SubSeq(hqueue, 1, Len(hqueue) - 1)
  /\ LET h == hqueue[Len(hqueue)]
     IN IF virt = NoPod THEN Return
        ELSE IF virt.node = NoNode /\ h.node # NoNode
        THEN pc' = "bind" /\ hostPod' = h /\ UNCHANGED vPod
        ELSE Compare(virt, h)
  /\ UNCHANGED <<vvars, host, hwatching, made, evicted, faults, lossless>>

ReceiveHostPod ==
  /\ pc = "idle"
  /\ hqueue # << >>
  /\ hqueue' = Tail(hqueue)
  /\ LET h == Head(hqueue)
     IN IF virt = NoPod THEN Return
        ELSE IF virt.node = NoNode /\ h.node # NoNode
        THEN pc' = "bind" /\ hostPod' = h /\ UNCHANGED vPod
        ELSE Compare(virt, h)
  /\ UNCHANGED <<vvars, host, hwatching, made, evicted, faults, lossless>>

\* Bind names the pod, so it binds whichever pod has the name now.  A pod that
\* is bound already is a conflict, which is tolerated; a missing one an error.
Bind ==
  /\ pc = "bind"
  /\ IF virt = NoPod THEN Return ELSE pc' = "reget" /\ UNCHANGED <<hostPod, vPod>>
  /\ IF virt = NoPod \/ virt.node # NoNode THEN UNCHANGED <<virt, vqueue>>
     ELSE /\ SetVirtual([virt EXCEPT !.node = hostPod.node])
          /\ TellVirtual("MODIFIED", virt.uid)
  /\ UNCHANGED <<vwatching, uids, hvars, faults, lossless>>

ReGet ==
  /\ pc = "reget"
  /\ IF virt = NoPod THEN Return ELSE Compare(virt, hostPod)
  /\ UNCHANGED <<vvars, hvars, faults, lossless>>

\* A conflict is no error: the status of this event is not written.
UpdateStatus ==
  /\ pc = "update"
  /\ IF virt # vPod THEN UNCHANGED <<virt, vqueue>>
     ELSE /\ SetVirtual([virt EXCEPT !.status = hostPod.status])
          /\ TellVirtual("MODIFIED", virt.uid)
  /\ Return
  /\ UNCHANGED <<vwatching, uids, hvars, faults, lossless>>

\* Get, Bind or UpdateStatus fails at the server; the rest is not done.
FailHostPods ==
  /\ pc # "idle"
  /\ faults < MaxFaults
  /\ faults' = faults + 1
  /\ lossless' = FALSE
  /\ Return
  /\ UNCHANGED <<vvars, hvars>>

\* The syncer container restarts: both watches and a handler under way are gone.
Restart ==
  /\ faults < MaxFaults
  /\ faults' = faults + 1
  /\ lossless' = FALSE
  /\ vwatching' = FALSE /\ vqueue' = << >>
  /\ hwatching' = FALSE /\ hqueue' = << >>
  /\ Return
  /\ UNCHANGED <<virt, uids, host, made, evicted>>

-----------------------------------------------------------------------------

VirtualCluster == VirtualCreate \/ VirtualEdit \/ VirtualDelete \/ VirtualSchedule
HostCluster == HostSchedule \/ HostStatus \/ HostTerminated \/ HostEvict
Faults == ClosePods \/ CloseHostPods \/ FailPods \/ FailHostPods \/ Restart
PodsLoop == OpenPods \/ HandleUpsert \/ HandleDelete
HostPodsLoop == OpenHostPods \/ ReceiveHostPod \/ Bind \/ ReGet \/ UpdateStatus

Next == VirtualCluster \/ HostCluster \/ Faults \/ PodsLoop \/ HostPodsLoop

Spec == Init /\ [][Next]_vars

\* The loops run, and a kubelet removes the pods it was told to stop.  API
\* servers close every watch after some time (30 to 60 minutes by default), but
\* not forever before its events are handled.
FairSpec ==
  /\ Spec
  /\ WF_vars(OpenPods) /\ SF_vars(HandleUpsert \/ HandleDelete)
  /\ WF_vars(OpenHostPods) /\ SF_vars(ReceiveHostPod)
  /\ WF_vars(Bind) /\ WF_vars(ReGet) /\ WF_vars(UpdateStatus)
  /\ WF_vars(HostTerminated)
  /\ WF_vars(ClosePods) /\ SF_vars(CloseHostPods)

-----------------------------------------------------------------------------
(* Properties.                                                             *)

\* The status shown for a virtual pod only moves forward: never to an earlier
\* report of the same host pod, never back to a host pod that was replaced,
\* whatever happens to watches, calls and the syncer in between.
StatusMovesForward ==
  [][virt # NoPod /\ virt' # NoPod /\ virt'.uid = virt.uid =>
       LET s == virt.status  t == virt'.status IN
       \/ s.from < t.from
       \/ s.from = t.from /\ s.level <= t.level]_vars

\* A host pod is never made from an older virtual pod than the one before it
\* was: an event of a replaced pod does not bring it back.
HostPodsInOrder == \A i, j \in DOMAIN made : i <= j => made[i] <= made[j]

\* While no watch closed and no call failed, a pod that is gone and whose
\* deletion has been handled leaves no host pod behind but one that terminates.
RemovalHandled ==
  lossless /\ vwatching /\ vqueue = << >> /\ virt = NoPod =>
    host = NoPod \/ host.terminating

\* A pod that stays is in the end on the host and shows the host pod's status,
\* after any lost event, conflict or failed call: a reopened watch makes up for
\* all of them.
EventuallyMirrored ==
  <>[](virt # NoPod) =>
    <>[](virt # NoPod /\ host # NoPod /\ SameStatus(virt.status, host.status))

\* "Virtual pod is gone (likely being deleted); the virtual-side watcher will
\* handle deletion of the host pod." (syncer.go:384-385)
RemovedPodsGo == <>[](virt = NoPod) => <>[](host = NoPod)
=============================================================================
