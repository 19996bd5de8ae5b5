--------------------------- MODULE PodSync_proofs ---------------------------
(***************************************************************************)
(* Theorems about PodSync, for every number of pods under the name, of     *)
(* edits, reports, evictions and failures.                                 *)
(*                                                                         *)
(* Both loops hand on what they are told: events of virtual pods on one    *)
(* side, reports of host pods on the other.  The inductive invariant says  *)
(* that each place on the way holds nothing newer than the place before    *)
(* it: OrderInv for syncPods, ReportInv for the way back from the host     *)
(* over the queue and the handler's argument to the virtual pod.           *)
(* LosslessInv keeps the deletion in sight until it is handled.            *)
(***************************************************************************)
EXTENDS PodSync, SequenceTheorems, TLAPS

\* The newest virtual pod of the name is the one there is.
UidInv == virt # NoPod => virt.uid = uids /\ uids > 0

\* The events come from virtual pods in the order of their creation, and those
\* made on the host so far are from no newer one.
OrderInv ==
  /\ \A i \in 1..Len(vqueue) : vqueue[i].uid > 0 /\ vqueue[i].uid <= uids
  /\ \A i, j \in 1..Len(vqueue) : i <= j => vqueue[i].uid <= vqueue[j].uid
  /\ \A i \in 1..Len(made) : made[i] <= uids
  /\ \A i \in 1..Len(made), j \in 1..Len(vqueue) : made[i] <= vqueue[j].uid
  /\ HostPodsInOrder

\* A handler has the pods it works on.
HandlerInv ==
  /\ pc # "idle" => hostPod # NoPod
  /\ pc = "update" => vPod # NoPod

Gone == host = NoPod \/ host.terminating

\* While nothing is lost, the last event of a pod that is gone is its deletion.
LosslessInv ==
  /\ ~vwatching => vqueue = << >>
  /\ lossless /\ ~vwatching => host = NoPod
  /\ lossless /\ vwatching /\ virt = NoPod =>
       /\ vqueue # << >> => vqueue[Len(vqueue)].type = "DELETED"
       /\ vqueue = << >> => Gone

\* The order of the reports of all host pods of the name.
After(s, t) == s.from < t.from \/ (s.from = t.from /\ s.level <= t.level)

\* A report that was made: no newer than what the host has now.
Known(s) == s.from <= Len(made) /\ (host # NoPod => After(s, host.status))

\* Reports are passed on in the order they were made, from the host over the queue
\* and the handler to the virtual pod.
ReportInv ==
  /\ host # NoPod => host.status.from <= Len(made)
  /\ \A i \in 1..Len(hqueue) : Known(hqueue[i].status)
  /\ \A i, j \in 1..Len(hqueue) : i <= j => After(hqueue[i].status, hqueue[j].status)
  /\ pc # "idle" =>
       /\ Known(hostPod.status)
       /\ \A i \in 1..Len(hqueue) : After(hostPod.status, hqueue[i].status)
  /\ virt # NoPod =>
       /\ Known(virt.status)
       /\ \A i \in 1..Len(hqueue) : After(virt.status, hqueue[i].status)
       /\ pc # "idle" => After(virt.status, hostPod.status)

IInv == TypeOK /\ UidInv /\ OrderInv /\ HandlerInv /\ LosslessInv /\ ReportInv

-----------------------------------------------------------------------------
(* Queues, and what the API servers tell.                                  *)

LEMMA AppendIs ==
  ASSUME NEW S, NEW s \in Seq(S), NEW e \in S
  PROVE  /\ Append(s, e) \in Seq(S) /\ Len(Append(s, e)) = Len(s) + 1 /\ Len(s) \in Nat
         /\ Append(s, e) # << >>
         /\ \A i \in 1..Len(s) : Append(s, e)[i] = s[i]
         /\ Append(s, e)[Len(s) + 1] = e
BY AppendProperties, LenProperties

LEMMA TailIs ==
  ASSUME NEW S, NEW s \in Seq(S), s # << >>
  PROVE  /\ Head(s) = s[1] /\ Head(s) \in S /\ Tail(s) \in Seq(S)
         /\ Len(s) \in Nat /\ Len(s) > 0 /\ Len(Tail(s)) = Len(s) - 1
         /\ \A i \in 1..Len(Tail(s)) : i + 1 \in 1..Len(s) /\ Tail(s)[i] = s[i + 1]
         /\ Tail(s) # << >> => Tail(s)[Len(Tail(s))] = s[Len(s)]
<1>1. /\ Head(s) = s[1] /\ Head(s) \in S /\ Tail(s) \in Seq(S)
      /\ Len(Tail(s)) = Len(s) - 1
      /\ \A i \in 1..Len(Tail(s)) : Tail(s)[i] = s[i + 1]
  BY HeadTailProperties
<1>2. Len(s) \in Nat /\ Len(s) > 0
  BY EmptySeq, LenProperties
<1>3. Tail(s) # << >> => Len(Tail(s)) \in Nat /\ Len(Tail(s)) > 0
  BY <1>1, EmptySeq, LenProperties
<1> QED  BY <1>1, <1>2, <1>3

Events == [type : {"ADDED", "MODIFIED", "DELETED"}, uid : Nat]

\* The virtual API server tells an open watch of a pod.
LEMMA ToldVirtual ==
  ASSUME TypeOK, NEW type \in {"ADDED", "MODIFIED", "DELETED"}, NEW u \in Nat, TellVirtual(type, u)
  PROVE  /\ vqueue' \in Seq(Events)
         /\ vwatching => /\ vqueue' # << >> /\ Len(vqueue') = Len(vqueue) + 1 /\ Len(vqueue) \in Nat
                         /\ \A i \in 1..Len(vqueue) : vqueue'[i] = vqueue[i]
                         /\ vqueue'[Len(vqueue) + 1].uid = u
                         /\ vqueue'[Len(vqueue) + 1].type = type
         /\ ~vwatching => vqueue' = vqueue
<1> DEFINE e == [type |-> type, uid |-> u]
<1>1. e \in Events /\ vqueue \in Seq(Events)
  BY DEF TypeOK, Events
<1>2. vqueue' = IF vwatching THEN Append(vqueue, e) ELSE vqueue
  BY DEF TellVirtual
<1>3. e.type = type /\ e.uid = u
  OBVIOUS
<1> HIDE DEF e
<1> QED  BY <1>1, <1>2, <1>3, AppendIs

\* The host API server writes the pod in place and tells an open watch of it.
LEMMA ToldHost ==
  ASSUME TypeOK, NEW p \in HostPod, SetHost(p)
  PROVE  /\ host' = p /\ host' # NoPod /\ hqueue' \in Seq(HostPod)
         /\ hwatching => /\ Len(hqueue') = Len(hqueue) + 1 /\ Len(hqueue) \in Nat
                         /\ \A i \in 1..Len(hqueue) : hqueue'[i] = hqueue[i]
                         /\ hqueue'[Len(hqueue) + 1] = p
         /\ ~hwatching => hqueue' = hqueue
BY NoPodAssumption, AppendIs DEF TypeOK, SetHost, TellHost

\* What a pod of the virtual cluster is, and what becomes of it.
LEMMA VirtualPods ==
  ASSUME NEW p \in VirtualPod
  PROVE  /\ p.uid \in Nat /\ p.edits \in 0..MaxEdits /\ p.node \in Nodes \cup {NoNode}
         /\ p.status \in Status /\ p # NoPod
         /\ \A e \in 0..MaxEdits : [p EXCEPT !.edits = e] \in VirtualPod
         /\ \A n \in Nodes \cup {NoNode} : [p EXCEPT !.node = n] \in VirtualPod
         /\ \A s \in Status : [p EXCEPT !.status = s] \in VirtualPod
BY NoPodAssumption DEF VirtualPod

LEMMA HostPods ==
  ASSUME NEW p \in HostPod
  PROVE  /\ p.uid \in Nat /\ p.node \in Nodes \cup {NoNode} /\ p.terminating \in BOOLEAN
         /\ p.status \in Status /\ p # NoPod
         /\ \A n \in Nodes : [p EXCEPT !.node = n] \in HostPod
         /\ [p EXCEPT !.terminating = TRUE] \in HostPod
         /\ \A s \in Status : [p EXCEPT !.status = s] \in HostPod
BY NoPodAssumption DEF HostPod

LEMMA NewPods ==
  ASSUME TypeOK
  PROVE  /\ uids < MaxUids => NewPod(uids + 1) \in VirtualPod /\ NewPod(uids + 1).uid = uids + 1
                              /\ NewPod(uids + 1).status = [from |-> 0, level |-> 0]
         /\ [from |-> 0, level |-> 0] \in Status
<1>1. [from |-> 0, level |-> 0] \in Status /\ uids \in Nat /\ 0 \in 0..MaxEdits
  BY BoundsAssumption DEF TypeOK, Status
<1> QED  BY <1>1 DEF NewPod, VirtualPod

LEMMA Statuses ==
  ASSUME NEW s \in Status
  PROVE  /\ s.from \in Nat /\ s.level \in Nat /\ s.level \in 0..MaxLevel
         /\ After(s, s)
         /\ \A t \in Status : \A r \in Status : After(s, t) /\ After(t, r) => After(s, r)
BY BoundsAssumption DEF Status, After

-----------------------------------------------------------------------------
(* What each step does to the two pods and the two queues.                 *)

\* A write of the virtual pod, or none.
VirtualWrite(type) ==
  /\ virt \in VirtualPod
  /\ virt' \in VirtualPod /\ virt'.uid = virt.uid
  /\ TellVirtual(type, virt.uid)

\* The host pod stays the one it is and reports no less, or nothing changes.
HostWrite ==
  \/ UNCHANGED <<host, hqueue>>
  \/ /\ host \in HostPod /\ \E p \in HostPod : SetHost(p)
     /\ host'.status \in Status /\ After(host.status, host'.status)
     /\ host'.status.from = host.status.from
     /\ host.terminating => host'.terminating
  \/ host' = NoPod /\ UNCHANGED hqueue

LEMMA EditMoves ==
  ASSUME TypeOK, VirtualEdit \/ VirtualSchedule
  PROVE  VirtualWrite("MODIFIED") /\ virt'.status = virt.status /\ virt # NoPod
<1>1. virt \in VirtualPod /\ virt # NoPod
  BY DEF TypeOK, VirtualEdit, VirtualSchedule
<1>2. CASE VirtualEdit
  <2>1. virt' = [virt EXCEPT !.edits = virt.edits + 1] /\ virt.edits < MaxEdits
    BY <1>2 DEF VirtualEdit, SetVirtual
  <2>2. virt.edits + 1 \in 0..MaxEdits
    BY <1>1, <2>1, VirtualPods, BoundsAssumption
  <2>3. virt' \in VirtualPod
    BY <1>1, <2>1, <2>2, VirtualPods
  <2> QED  BY <1>1, <1>2, <2>1, <2>3 DEF VirtualEdit, VirtualWrite, VirtualPod
<1>3. CASE VirtualSchedule
  <2>1. PICK n \in Nodes : virt' = [virt EXCEPT !.node = n]
    BY <1>3 DEF VirtualSchedule, SetVirtual
  <2>2. virt' \in VirtualPod
    BY <1>1, <2>1, VirtualPods
  <2> QED  BY <1>1, <1>3, <2>1, <2>2 DEF VirtualSchedule, VirtualWrite, VirtualPod
<1> QED  BY <1>2, <1>3

LEMMA HostMoves ==
  ASSUME TypeOK,
         \/ HostSchedule
         \/ HostStatus
         \/ HostTerminated
         \/ HostDeleteCall
  PROVE  HostWrite
<1>1. host # NoPod => host \in HostPod
  BY DEF TypeOK
<1>2. CASE HostSchedule
  <2>1. PICK n \in Nodes : SetHost([host EXCEPT !.node = n])
    BY <1>2 DEF HostSchedule
  <2>2. host \in HostPod
    BY <1>1, <1>2 DEF HostSchedule
  <2>3. [host EXCEPT !.node = n] \in HostPod /\ host' = [host EXCEPT !.node = n]
    BY <2>1, <2>2, HostPods DEF SetHost
  <2>4. host'.status = host.status /\ (host'.terminating <=> host.terminating)
    BY <2>2, <2>3 DEF HostPod
  <2> QED  BY <2>1, <2>2, <2>3, <2>4, HostPods, Statuses DEF HostWrite
<1>3. CASE HostStatus
  <2>1. host \in HostPod
    BY <1>1, <1>3 DEF HostStatus
  <2> DEFINE s == [host.status EXCEPT !.level = host.status.level + 1]
  <2>2. s \in Status /\ After(host.status, s) /\ s.from = host.status.from
    <3>1. host.status \in Status /\ host.status.level < MaxLevel
      BY <1>3, <2>1, HostPods DEF HostStatus
    <3> QED  BY <3>1, BoundsAssumption DEF Status, After
  <2>3. SetHost([host EXCEPT !.status = s])
    BY <1>3, <2>1 DEF HostStatus, HostPod
  <2> HIDE DEF s
  <2>4. [host EXCEPT !.status = s] \in HostPod /\ host' = [host EXCEPT !.status = s]
    BY <2>1, <2>2, <2>3, HostPods DEF SetHost
  <2>5. host'.status = s /\ (host'.terminating <=> host.terminating)
    BY <2>1, <2>4 DEF HostPod
  <2> QED  BY <2>1, <2>2, <2>3, <2>4, <2>5 DEF HostWrite
<1>4. CASE HostTerminated
  BY <1>4 DEF HostTerminated, HostWrite
<1>5. CASE HostDeleteCall
  <2>1. CASE host # NoPod /\ ~host.terminating /\ host.node # NoNode
    <3>1. host \in HostPod /\ SetHost([host EXCEPT !.terminating = TRUE])
      BY <1>1, <1>5, <2>1 DEF HostDeleteCall
    <3>2. [host EXCEPT !.terminating = TRUE] \in HostPod /\ host' = [host EXCEPT !.terminating = TRUE]
      BY <3>1, HostPods DEF SetHost
    <3>3. host'.status = host.status /\ host'.terminating
      BY <3>1, <3>2 DEF HostPod
    <3> QED  BY <3>1, <3>2, <3>3, HostPods, Statuses DEF HostWrite
  <2>2. CASE ~(host # NoPod /\ ~host.terminating /\ host.node # NoNode)
    BY <1>5, <2>2 DEF HostDeleteCall, HostWrite
  <2> QED  BY <2>1, <2>2
<1> QED  BY <1>2, <1>3, <1>4, <1>5

LEMMA BindMoves ==
  ASSUME TypeOK, HandlerInv, Bind
  PROVE  /\ \/ UNCHANGED <<virt, vqueue>>
            \/ VirtualWrite("MODIFIED") /\ virt'.status = virt.status
         /\ \/ virt = NoPod /\ Return
            \/ pc' = "reget" /\ UNCHANGED <<hostPod, vPod>>
<1>1. CASE virt = NoPod \/ virt.node # NoNode
  BY <1>1 DEF Bind
<1>2. CASE virt # NoPod /\ virt.node = NoNode
  <2>1. virt \in VirtualPod /\ hostPod \in HostPod
    BY <1>2 DEF TypeOK, HandlerInv, Bind
  <2>2. virt' = [virt EXCEPT !.node = hostPod.node]
    BY <1>2 DEF Bind, SetVirtual
  <2>3. virt' \in VirtualPod
    BY <2>1, <2>2, VirtualPods, HostPods
  <2>4. virt'.uid = virt.uid /\ virt'.status = virt.status
    BY <2>1, <2>2 DEF VirtualPod
  <2> QED  BY <1>2, <2>1, <2>3, <2>4 DEF Bind, VirtualWrite
<1> QED  BY <1>1, <1>2

LEMMA UpdateMoves ==
  ASSUME TypeOK, HandlerInv, UpdateStatus
  PROVE  \/ UNCHANGED <<virt, vqueue>>
         \/ /\ VirtualWrite("MODIFIED") /\ virt'.status = hostPod.status
            /\ virt = vPod
<1>1. CASE virt # vPod
  BY <1>1 DEF UpdateStatus
<1>2. CASE virt = vPod
  <2>1. virt \in VirtualPod /\ hostPod \in HostPod
    BY <1>2 DEF TypeOK, HandlerInv, UpdateStatus
  <2>2. virt' = [virt EXCEPT !.status = hostPod.status]
    BY <1>2 DEF UpdateStatus, SetVirtual
  <2>3. virt' \in VirtualPod
    BY <2>1, <2>2, VirtualPods, HostPods
  <2>4. virt'.uid = virt.uid /\ virt'.status = hostPod.status
    BY <2>1, <2>2 DEF VirtualPod
  <2> QED  BY <1>2, <2>1, <2>3, <2>4 DEF UpdateStatus, VirtualWrite
<1> QED  BY <1>1, <1>2

LEMMA SyncPodMoves ==
  ASSUME TypeOK, NEW u \in 1..MaxUids, syncPodToHost(u)
  PROVE  \/ host # NoPod /\ UNCHANGED <<host, hqueue, made>>
         \/ /\ host = NoPod /\ \E p \in HostPod : SetHost(p)
            /\ host' \in HostPod /\ host'.status.from = Len(made) + 1 /\ ~host'.terminating
            /\ made' = Append(made, u)
<1>1. CASE host = NoPod
  <2> DEFINE p == [uid |-> Len(made) + 1, node |-> NoNode,
                   status |-> [from |-> Len(made) + 1, level |-> 0], terminating |-> FALSE]
  <2>1. made' = Append(made, u) /\ SetHost(p)
    BY <1>1 DEF syncPodToHost
  <2>2. Len(made) + 1 \in Nat
    BY LenProperties DEF TypeOK
  <2>3. [from |-> Len(made) + 1, level |-> 0] \in Status
    BY <2>2, BoundsAssumption DEF Status
  <2>4. p \in HostPod /\ p.status.from = Len(made) + 1 /\ ~p.terminating
    BY <2>2, <2>3 DEF HostPod
  <2> QED  BY <1>1, <2>1, <2>4 DEF SetHost
<1>2. CASE host # NoPod
  BY <1>2 DEF syncPodToHost
<1> QED  BY <1>1, <1>2

LEMMA ReceiveMoves ==
  ASSUME TypeOK, ReceiveHostPod
  PROVE  /\ hqueue # << >> /\ hqueue' = Tail(hqueue)
         /\ Return \/ /\ pc' \in {"bind", "update"} /\ hostPod' = Head(hqueue) /\ virt \in VirtualPod
                      /\ vPod' \in {vPod, virt} /\ (pc' = "update" => vPod' = virt)
BY DEF ReceiveHostPod, Compare, TypeOK

LEMMA ReGetMoves ==
  ASSUME TypeOK, ReGet
  PROVE  Return \/ /\ pc' = "update" /\ hostPod' = hostPod /\ vPod' = virt /\ virt \in VirtualPod
BY DEF ReGet, Compare, TypeOK

\* The events that a loop takes off its queue.
LEMMA HeadEvent ==
  ASSUME IInv, vqueue # << >>
  PROVE  /\ vqueue \in Seq(Events)
         /\ Head(vqueue).uid \in 1..MaxUids /\ Tail(vqueue) \in Seq(Events)
         /\ Head(vqueue).type \in {"ADDED", "MODIFIED", "DELETED"} /\ Head(vqueue) = vqueue[1]
<1>1. vqueue \in Seq(Events)
  BY DEF IInv, TypeOK, Events
<1>2. Head(vqueue) \in Events /\ 1 \in 1..Len(vqueue) /\ Head(vqueue) = vqueue[1]
      /\ Tail(vqueue) \in Seq(Events)
  BY <1>1, TailIs
<1>3. Head(vqueue).uid > 0 /\ Head(vqueue).uid <= uids /\ uids \in 0..MaxUids /\ MaxUids \in Nat
  BY <1>2, BoundsAssumption DEF IInv, OrderInv, TypeOK
<1>4. Head(vqueue).uid \in Nat /\ Head(vqueue).type \in {"ADDED", "MODIFIED", "DELETED"}
  BY <1>2 DEF Events
<1>5. \A u \in Nat : u > 0 /\ u <= uids => u \in 1..MaxUids
  BY <1>3
<1>6. Head(vqueue).uid \in 1..MaxUids
  BY <1>3, <1>4, <1>5
<1> QED  BY <1>1, <1>2, <1>4, <1>6

-----------------------------------------------------------------------------
(* The type invariant.                                                     *)

HandlerTyped ==
  /\ pc' \in {"idle", "bind", "reget", "update"}
  /\ hostPod' \in HostPod \cup {NoPod} /\ vPod' \in VirtualPod \cup {NoPod}
  /\ pc' # "idle" => hostPod' # NoPod
  /\ pc' = "update" => vPod' # NoPod

LEMMA HandlerMoves ==
  ASSUME TypeOK, HandlerInv,
         \/ Bind \/ UpdateStatus \/ ReceiveHostPod \/ ReGet \/ Return
         \/ UNCHANGED <<pc, hostPod, vPod>>
  PROVE  HandlerTyped
<1>1. ASSUME Return PROVE HandlerTyped
  BY <1>1 DEF Return, HandlerTyped
<1>2. ASSUME UNCHANGED <<pc, hostPod, vPod>> PROVE HandlerTyped
  BY <1>2 DEF TypeOK, HandlerInv, HandlerTyped
<1>3. CASE Bind
  BY <1>1, <1>3, BindMoves DEF TypeOK, HandlerInv, HandlerTyped, Bind
<1>4. CASE UpdateStatus
  BY <1>1, <1>4 DEF UpdateStatus
<1>5. CASE ReceiveHostPod
  <2>1. hqueue # << >> => Head(hqueue) \in HostPod
    BY TailIs DEF TypeOK
  <2> QED  BY <1>1, <1>5, <2>1, ReceiveMoves, HostPods, VirtualPods DEF TypeOK, HandlerTyped
<1>6. CASE ReGet
  <2>1. pc # "idle"
    BY <1>6 DEF ReGet
  <2> QED  BY <1>1, <1>6, <2>1, ReGetMoves, VirtualPods DEF TypeOK, HandlerInv, HandlerTyped
<1> QED  BY <1>1, <1>2, <1>3, <1>4, <1>5, <1>6

LEMMA TypeStep ==
  ASSUME IInv, [Next]_vars
  PROVE  TypeOK' /\ HandlerInv'
<1> USE DEF IInv
<1> DEFINE VTyped == virt' \in VirtualPod \cup {NoPod} /\ vqueue' \in Seq(Events)
           HTyped == host' \in HostPod \cup {NoPod} /\ hqueue' \in Seq(HostPod)
           Rest == UNCHANGED <<uids, made, evicted, faults>>
           Goal == TypeOK' /\ HandlerInv'
<1>1. /\ virt \in VirtualPod \cup {NoPod} /\ vqueue \in Seq(Events)
      /\ host \in HostPod \cup {NoPod} /\ hqueue \in Seq(HostPod)
  BY DEF TypeOK, Events
<1>2. /\ uids \in Nat /\ uids + 1 \in Nat
      /\ virt # NoPod => virt.uid \in Nat
      /\ << >> \in Seq(Events) /\ << >> \in Seq(HostPod)
  BY <1>1, VirtualPods DEF TypeOK
<1>3. ASSUME VTyped, HTyped, HandlerTyped,
             uids' \in 0..MaxUids, made' \in Seq(1..MaxUids),
             evicted' \in 0..MaxEvict, faults' \in 0..MaxFaults,
             {vwatching', hwatching', lossless'} \subseteq BOOLEAN
      PROVE  Goal
  BY <1>3 DEF TypeOK, Events, HandlerTyped, HandlerInv
<1>4. ASSUME NEW type \in {"ADDED", "MODIFIED", "DELETED"}, VirtualWrite(type)
      PROVE  VTyped
  BY <1>4, ToldVirtual, VirtualPods DEF VirtualWrite
<1>5. ASSUME HostWrite PROVE HTyped
  BY <1>1, <1>5, ToldHost DEF HostWrite
<1>6. UNCHANGED <<pc, hostPod, vPod>> \/ Return => HandlerTyped
  BY HandlerMoves
<1>7. faults < MaxFaults /\ faults' = faults + 1 => faults' \in 0..MaxFaults
  BY BoundsAssumption DEF TypeOK
<1> USE <1>1, <1>2
<1>8. CASE VirtualCreate
  <2>1. uids' \in 0..MaxUids /\ VTyped
    BY <1>8, NewPods, ToldVirtual, BoundsAssumption DEF VirtualCreate, SetVirtual, TypeOK
  <2> HIDE DEF VTyped
  <2> QED  BY <1>3, <1>6, <1>8, <2>1 DEF VirtualCreate, hvars, loopvars, TypeOK
<1>9. CASE VirtualEdit \/ VirtualSchedule
  <2>1. VTyped
    BY <1>4, <1>9, EditMoves
  <2> HIDE DEF VTyped
  <2> QED  BY <1>3, <1>6, <1>9, <2>1 DEF VirtualEdit, VirtualSchedule, hvars, loopvars, TypeOK
<1>10. CASE VirtualDelete
  <2>1. VTyped
    BY <1>10, ToldVirtual DEF VirtualDelete, SetVirtual
  <2> HIDE DEF VTyped
  <2> QED  BY <1>3, <1>6, <1>10, <2>1 DEF VirtualDelete, hvars, loopvars, TypeOK
<1>11. CASE HostCluster
  <2>1. HostWrite
    BY <1>11, HostMoves DEF HostCluster, HostEvict
  <2>2. HTyped
    BY <1>5, <2>1
  <2>3. evicted' \in 0..MaxEvict
    BY <1>11, BoundsAssumption
    DEF HostCluster, HostEvict, HostSchedule, HostStatus, HostTerminated, TypeOK
  <2> HIDE DEF HTyped
  <2> QED
    BY <1>3, <1>6, <1>11, <2>2, <2>3
    DEF HostCluster, HostEvict, HostSchedule, HostStatus, HostTerminated, vvars, loopvars, TypeOK
<1>12. CASE OpenPods \/ ClosePods \/ FailPods
  <2>1. vqueue # << >> => Tail(vqueue) \in Seq(Events)
    BY TailIs
  <2>2. virt # NoPod => <<[type |-> "ADDED", uid |-> virt.uid]>> \in Seq(Events)
    BY DEF Events
  <2>3. VTyped
    BY <1>12, <2>1, <2>2 DEF OpenPods, ClosePods, FailPods
  <2>4. faults' \in 0..MaxFaults
    BY <1>7, <1>12 DEF OpenPods, ClosePods, FailPods, TypeOK
  <2> HIDE DEF VTyped
  <2> QED  BY <1>3, <1>6, <1>12, <2>3, <2>4 DEF OpenPods, ClosePods, FailPods, hvars, loopvars, TypeOK
<1>13. CASE HandleUpsert
  <2>1. Head(vqueue).uid \in 1..MaxUids /\ Tail(vqueue) \in Seq(Events)
    BY <1>13, HeadEvent DEF HandleUpsert
  <2>2. HTyped
    BY <1>13, <2>1, SyncPodMoves, ToldHost DEF HandleUpsert
  <2>3. made' \in Seq(1..MaxUids)
    <3>1. made \in Seq(1..MaxUids)
      BY DEF TypeOK
    <3>2. Append(made, Head(vqueue).uid) \in Seq(1..MaxUids)
      BY <2>1, <3>1, AppendIs
    <3>3. made' = made \/ made' = Append(made, Head(vqueue).uid)
      BY <1>13, <2>1, SyncPodMoves DEF HandleUpsert
    <3> QED  BY <3>1, <3>2, <3>3
  <2> HIDE DEF HTyped
  <2> QED  BY <1>3, <1>6, <1>13, <2>1, <2>2, <2>3 DEF HandleUpsert, loopvars, TypeOK
<1>14. CASE HandleDelete
  <2>1. Tail(vqueue) \in Seq(Events)
    BY <1>14, HeadEvent DEF HandleDelete
  <2>2. HTyped
    BY <1>5, <1>14, HostMoves DEF HandleDelete
  <2> HIDE DEF HTyped
  <2> QED  BY <1>3, <1>6, <1>14, <2>1, <2>2 DEF HandleDelete, loopvars, TypeOK
<1>15. CASE OpenHostPods \/ CloseHostPods
  <2>1. HTyped
    <3>1. host # NoPod => <<host>> \in Seq(HostPod)
      OBVIOUS
    <3>2. host' = host /\ hqueue' \in {<< >>, <<host>>} /\ (host = NoPod => hqueue' = << >>)
      BY <1>15 DEF OpenHostPods, CloseHostPods
    <3> QED  BY <3>1, <3>2
  <2> HIDE DEF HTyped
  <2> QED  BY <1>3, <1>6, <1>15, <2>1 DEF OpenHostPods, CloseHostPods, vvars, loopvars, TypeOK
<1>16. CASE ReceiveHostPod
  <2>1. HTyped
    BY <1>16, ReceiveMoves, TailIs DEF ReceiveHostPod
  <2> HIDE DEF HTyped
  <2> QED  BY <1>3, <1>16, <2>1, HandlerMoves DEF ReceiveHostPod, vvars, TypeOK
<1>17. CASE Bind
  <2>1. VTyped
    BY <1>4, <1>17, BindMoves
  <2> HIDE DEF VTyped
  <2> QED  BY <1>3, <1>17, <2>1, HandlerMoves DEF Bind, hvars, TypeOK
<1>18. CASE ReGet
  BY <1>3, <1>18, HandlerMoves DEF ReGet, vvars, hvars, TypeOK
<1>19. CASE UpdateStatus
  <2>1. VTyped
    BY <1>4, <1>19, UpdateMoves
  <2> HIDE DEF VTyped
  <2> QED  BY <1>3, <1>19, <2>1, HandlerMoves DEF UpdateStatus, hvars, TypeOK
<1>20. CASE FailHostPods
  BY <1>3, <1>6, <1>7, <1>20 DEF FailHostPods, vvars, hvars, TypeOK
<1>21. CASE Restart
  BY <1>3, <1>6, <1>7, <1>21 DEF Restart, TypeOK
<1>22. CASE UNCHANGED vars
  BY <1>3, <1>6, <1>22 DEF vars, vvars, hvars, loopvars, TypeOK
<1> QED
  BY <1>8, <1>9, <1>10, <1>11, <1>12, <1>13, <1>14, <1>15, <1>16, <1>17, <1>18, <1>19, <1>20,
     <1>21, <1>22
  DEF Next, VirtualCluster, HostCluster, Faults, PodsLoop, HostPodsLoop

-----------------------------------------------------------------------------
(* The order of the events.                                                *)

LEMMA Ordered ==
  ASSUME TypeOK
  PROVE  /\ uids \in Nat /\ Len(vqueue) \in Nat /\ Len(made) \in Nat /\ Len(hqueue) \in Nat
         /\ \A i \in 1..Len(vqueue) : vqueue[i] \in Events /\ vqueue[i].uid \in Nat
         /\ \A i \in 1..Len(made) : made[i] \in Nat
         /\ \A i \in 1..Len(hqueue) : hqueue[i] \in HostPod /\ hqueue[i].status \in Status
         /\ vqueue \in Seq(Events) /\ (vqueue # << >> => Len(vqueue) > 0)
         /\ HostPodsInOrder <=> \A i, j \in 1..Len(made) : i <= j => made[i] <= made[j]
<1>1. /\ vqueue \in Seq(Events) /\ made \in Seq(1..MaxUids) /\ hqueue \in Seq(HostPod)
      /\ uids \in 0..MaxUids /\ MaxUids \in Nat
  BY BoundsAssumption DEF TypeOK, Events
<1>2. /\ uids \in Nat /\ Len(vqueue) \in Nat /\ Len(made) \in Nat /\ Len(hqueue) \in Nat
      /\ vqueue # << >> => Len(vqueue) > 0
      /\ DOMAIN made = 1..Len(made)
  BY <1>1, LenProperties, EmptySeq
<1>3. \A i \in 1..Len(vqueue) : vqueue[i] \in Events /\ vqueue[i].uid \in Nat
  <2>1. \A i \in 1..Len(vqueue) : vqueue[i] \in Events
    BY <1>1, ElementOfSeq
  <2> QED  BY <2>1 DEF Events
<1>4. \A i \in 1..Len(made) : made[i] \in Nat
  <2>1. \A i \in 1..Len(made) : made[i] \in 1..MaxUids
    BY <1>1, ElementOfSeq
  <2> QED  BY <1>1, <2>1
<1>5. \A i \in 1..Len(hqueue) : hqueue[i] \in HostPod /\ hqueue[i].status \in Status
  BY <1>1, ElementOfSeq, HostPods
<1> QED  BY <1>1, <1>2, <1>3, <1>4, <1>5 DEF HostPodsInOrder

\* An event of the newest pod is queued.
LEMMA QueueTold ==
  ASSUME IInv, TypeOK', NEW type \in {"ADDED", "MODIFIED", "DELETED"}, TellVirtual(type, uids'),
         uids <= uids', uids' > 0, made' = made
  PROVE  OrderInv'
<1> USE DEF IInv
<1>1. uids \in Nat /\ uids' \in Nat
  BY Ordered DEF TypeOK
<1>2. CASE ~vwatching
  <2>1. vqueue' = vqueue
    BY <1>1, <1>2, ToldVirtual
  <2> QED  BY <1>1, <2>1, Ordered DEF OrderInv, HostPodsInOrder
<1>3. CASE vwatching
  <2>1. /\ Len(vqueue') = Len(vqueue) + 1 /\ Len(vqueue) \in Nat
        /\ \A i \in 1..Len(vqueue) : vqueue'[i] = vqueue[i]
        /\ vqueue'[Len(vqueue) + 1].uid = uids'
    BY <1>1, <1>3, ToldVirtual
  <2>2. \A i \in 1..Len(vqueue') :
           \/ i \in 1..Len(vqueue) /\ vqueue'[i] = vqueue[i]
           \/ i = Len(vqueue) + 1 /\ vqueue'[i].uid = uids'
    BY <2>1
  <2>3. \A i \in 1..Len(vqueue') : vqueue'[i].uid \in Nat /\ vqueue'[i].uid > 0 /\ vqueue'[i].uid <= uids'
    BY <1>1, <2>2, Ordered DEF OrderInv
  <2>4. \A i, j \in 1..Len(vqueue') : i <= j => vqueue'[i].uid <= vqueue'[j].uid
    <3> SUFFICES ASSUME NEW i \in 1..Len(vqueue'), NEW j \in 1..Len(vqueue'), i <= j
                 PROVE  vqueue'[i].uid <= vqueue'[j].uid
      OBVIOUS
    <3>1. CASE j = Len(vqueue) + 1
      BY <2>1, <2>3, <3>1
    <3>2. CASE j # Len(vqueue) + 1
      <4>1. i \in 1..Len(vqueue) /\ j \in 1..Len(vqueue)
        BY <2>1, <3>2
      <4> QED  BY <2>1, <4>1 DEF OrderInv
    <3> QED  BY <3>1, <3>2
  <2>5. \A i \in 1..Len(made) : made[i] \in Nat /\ made[i] <= uids'
    BY <1>1, Ordered DEF OrderInv
  <2>6. \A i \in 1..Len(made), j \in 1..Len(vqueue') : made[i] <= vqueue'[j].uid
    BY <2>1, <2>2, <2>5 DEF OrderInv
  <2> QED  BY <2>3, <2>4, <2>5, <2>6 DEF OrderInv, HostPodsInOrder
<1> QED  BY <1>2, <1>3

\* The first event is taken off the queue, and perhaps a host pod made from it.
LEMMA QueueTaken ==
  ASSUME IInv, TypeOK', vqueue # << >>, vqueue' = Tail(vqueue), uids' = uids,
         made' = made \/ made' = Append(made, Head(vqueue).uid)
  PROVE  OrderInv'
<1> USE DEF IInv
<1>1. /\ \A i \in 1..Len(vqueue') : i + 1 \in 1..Len(vqueue) /\ vqueue'[i] = vqueue[i + 1]
      /\ Head(vqueue) = vqueue[1] /\ 1 \in 1..Len(vqueue) /\ Len(vqueue') \in Nat
  BY TailIs, Ordered
<1>2. \A i \in 1..Len(vqueue') : vqueue'[i].uid > 0 /\ vqueue'[i].uid <= uids
  BY <1>1 DEF OrderInv
<1>3. \A i, j \in 1..Len(vqueue') : i <= j => vqueue'[i].uid <= vqueue'[j].uid
  BY <1>1 DEF OrderInv
<1>4. CASE made' = made
  <2>1. \A i \in 1..Len(made), j \in 1..Len(vqueue') : made[i] <= vqueue'[j].uid
    BY <1>1 DEF OrderInv
  <2> QED  BY <1>2, <1>3, <1>4, <2>1 DEF OrderInv, HostPodsInOrder
<1>5. CASE made' = Append(made, Head(vqueue).uid)
  <2> DEFINE u == Head(vqueue).uid
  <2>1. u \in 1..MaxUids /\ made \in Seq(1..MaxUids)
    BY HeadEvent DEF TypeOK
  <2>2. u \in Nat /\ u <= uids /\ u = vqueue[1].uid
    BY <1>1, Ordered DEF OrderInv
  <2> HIDE DEF u
  <2>3. /\ Len(made') = Len(made) + 1 /\ Len(made) \in Nat
        /\ \A i \in 1..Len(made) : made'[i] = made[i]
        /\ made'[Len(made) + 1] = u
    BY <1>5, <2>1, AppendIs DEF u
  <2>4. \A i \in 1..Len(made') : \/ i \in 1..Len(made) /\ made'[i] = made[i]
                                 \/ i = Len(made) + 1 /\ made'[i] = u
    BY <2>3
  <2>5. \A i \in 1..Len(made) : made[i] \in Nat /\ made[i] <= u
    BY <1>1, <2>2, Ordered DEF OrderInv
  <2>6. \A i \in 1..Len(made') : made'[i] \in Nat /\ made'[i] <= u
    BY <2>2, <2>4, <2>5
  <2>7. \A j \in 1..Len(vqueue') : vqueue'[j].uid \in Nat /\ u <= vqueue'[j].uid
    BY <1>1, <2>2, Ordered DEF OrderInv
  <2>8. \A i \in 1..Len(made'), j \in 1..Len(vqueue') : made'[i] <= vqueue'[j].uid
    BY <2>2, <2>6, <2>7
  <2>9. \A i, j \in 1..Len(made') : i <= j => made'[i] <= made'[j]
    <3> SUFFICES ASSUME NEW i \in 1..Len(made'), NEW j \in 1..Len(made'), i <= j
                 PROVE  made'[i] <= made'[j]
      OBVIOUS
    <3>1. CASE j = Len(made) + 1
      BY <2>3, <2>6, <3>1
    <3>2. CASE j # Len(made) + 1
      <4>1. i \in 1..Len(made) /\ j \in 1..Len(made)
        BY <2>3, <3>2
      <4> QED  BY <2>3, <4>1, Ordered DEF OrderInv
    <3> QED  BY <3>1, <3>2
  <2>10. HostPodsInOrder'
    <3>1. made' \in Seq(1..MaxUids)
      BY <1>5, <2>1, AppendIs DEF u
    <3>2. DOMAIN made' = 1..Len(made')
      BY <3>1, LenProperties
    <3> QED  BY <2>9, <3>2 DEF HostPodsInOrder
  <2>11. \A i \in 1..Len(made') : made'[i] <= uids
    BY <2>2, <2>6, Ordered
  <2> QED  BY <1>2, <1>3, <2>8, <2>10, <2>11 DEF OrderInv
<1> QED  BY <1>4, <1>5

LEMMA OrderStep ==
  ASSUME IInv, TypeOK', [Next]_vars
  PROVE  UidInv' /\ OrderInv'
<1> USE DEF IInv
<1>1. uids \in Nat /\ uids' \in Nat /\ (virt # NoPod => virt.uid = uids /\ uids > 0)
  BY Ordered DEF TypeOK, UidInv
<1>2. ASSUME NEW type \in {"ADDED", "MODIFIED", "DELETED"}, VirtualWrite(type),
             UNCHANGED <<uids, made>>
      PROVE  UidInv' /\ OrderInv'
  <2>1. virt # NoPod /\ virt'.uid = virt.uid /\ TellVirtual(type, uids')
    BY <1>1, <1>2, VirtualPods DEF VirtualWrite
  <2>2. UidInv'
    BY <1>1, <1>2, <2>1 DEF UidInv
  <2>3. OrderInv'
    BY <1>1, <1>2, <2>1, QueueTold
  <2> QED  BY <2>2, <2>3
<1>3. ASSUME UNCHANGED <<virt, uids, made>>,
             vqueue' = vqueue \/ vqueue' = << >>
      PROVE  UidInv' /\ OrderInv'
  <2>1. Len(<< >>) = 0 /\ Len(vqueue) \in Nat
    BY Ordered
  <2>2. Len(vqueue') = 0 \/ vqueue' = vqueue
    BY <1>3, <2>1
  <2> QED  BY <1>3, <2>2 DEF UidInv, OrderInv, HostPodsInOrder
<1>4. CASE VirtualCreate
  <2>1. uids' = uids + 1 /\ made' = made /\ TellVirtual("ADDED", uids') /\ virt' = NewPod(uids + 1)
        /\ uids < MaxUids
    BY <1>4 DEF VirtualCreate, SetVirtual, hvars
  <2>2. virt'.uid = uids'
    BY <2>1, NewPods
  <2>3. OrderInv'
    BY <1>1, <2>1, QueueTold
  <2> QED  BY <1>1, <2>1, <2>2, <2>3 DEF UidInv
<1>5. CASE VirtualEdit \/ VirtualSchedule
  BY <1>2, <1>5, EditMoves DEF VirtualEdit, VirtualSchedule, hvars
<1>6. CASE VirtualDelete
  <2>1. virt # NoPod /\ TellVirtual("DELETED", uids') /\ virt' = NoPod /\ UNCHANGED <<uids, made>>
    BY <1>1, <1>6 DEF VirtualDelete, SetVirtual, hvars
  <2> QED  BY <1>1, <2>1, QueueTold DEF UidInv
<1>7. CASE Bind
  BY <1>2, <1>3, <1>7, BindMoves DEF Bind, hvars
<1>8. CASE UpdateStatus
  BY <1>2, <1>3, <1>8, UpdateMoves DEF UpdateStatus, hvars
<1>9. CASE OpenPods
  <2>1. CASE virt = NoPod
    BY <1>3, <1>9, <2>1 DEF OpenPods, hvars
  <2>2. CASE virt # NoPod
    <3>1. vqueue' = <<[type |-> "ADDED", uid |-> uids]>> /\ UNCHANGED <<virt, uids, made>>
      BY <1>1, <1>9, <2>2 DEF OpenPods, hvars
    <3>2. Len(vqueue') = 1 /\ vqueue'[1].uid = uids
      BY <3>1
    <3>3. \A i \in 1..Len(vqueue') : vqueue'[i].uid = uids
      BY <3>2
    <3> QED  BY <1>1, <2>2, <3>1, <3>3, Ordered DEF UidInv, OrderInv, HostPodsInOrder
  <2> QED  BY <2>1, <2>2
<1>10. CASE HandleUpsert
  <2>1. /\ vqueue # << >> /\ vqueue' = Tail(vqueue) /\ UNCHANGED <<virt, uids>>
        /\ made' = made \/ made' = Append(made, Head(vqueue).uid)
    BY <1>10, HeadEvent, SyncPodMoves DEF HandleUpsert
  <2> QED  BY <2>1, QueueTaken DEF UidInv
<1>11. CASE HandleDelete \/ FailPods
  <2>1. vqueue # << >> /\ vqueue' = Tail(vqueue) /\ UNCHANGED <<virt, uids, made>>
    BY <1>11 DEF HandleDelete, FailPods, hvars
  <2> QED  BY <2>1, QueueTaken DEF UidInv
<1>12. CASE HostCluster
  BY <1>3, <1>12 DEF HostCluster, HostSchedule, HostStatus, HostTerminated, HostEvict, vvars
<1>13. CASE ClosePods \/ Restart \/ CloseHostPods \/ FailHostPods \/ OpenHostPods \/ ReceiveHostPod \/ ReGet
  BY <1>3, <1>13
  DEF ClosePods, Restart, CloseHostPods, FailHostPods, OpenHostPods, ReceiveHostPod, ReGet, vvars, hvars
<1>14. CASE UNCHANGED vars
  BY <1>3, <1>14 DEF vars, vvars, hvars
<1> QED
  BY <1>4, <1>5, <1>6, <1>7, <1>8, <1>9, <1>10, <1>11, <1>12, <1>13, <1>14
  DEF Next, VirtualCluster, Faults, PodsLoop, HostPodsLoop

-----------------------------------------------------------------------------
(* The end of the host pod.                                                *)

LEMMA HostStays ==
  ASSUME TypeOK, HostWrite
  PROVE  (host = NoPod => host' = NoPod) /\ (Gone => Gone')
BY HostPods DEF HostWrite, Gone

LEMMA LosslessStep ==
  ASSUME IInv, TypeOK', [Next]_vars
  PROVE  LosslessInv'
<1> USE DEF IInv
<1> DEFINE Closed == ~vwatching' => vqueue' = << >>
<1>1. ASSUME Closed, lossless' = FALSE PROVE LosslessInv'
  BY <1>1 DEF LosslessInv
<1>2. ASSUME UNCHANGED <<vwatching, vqueue, virt, lossless>>, HostWrite
      PROVE  LosslessInv'
  BY <1>2, HostStays DEF LosslessInv
<1>3. ASSUME UNCHANGED <<vwatching, vqueue, virt, lossless, host>>
      PROVE  LosslessInv'
  BY <1>3 DEF LosslessInv, Gone
<1>4. ASSUME NEW type \in {"ADDED", "MODIFIED", "DELETED"}, NEW u \in Nat, TellVirtual(type, u),
             virt' # NoPod, UNCHANGED <<vwatching, lossless, host>>
      PROVE  LosslessInv'
  BY <1>4, ToldVirtual DEF LosslessInv
<1>5. CASE VirtualCreate
  <2>1. virt' # NoPod /\ uids + 1 \in Nat
    BY <1>5, NewPods, VirtualPods DEF VirtualCreate, SetVirtual, TypeOK
  <2> QED  BY <1>4, <1>5, <2>1 DEF VirtualCreate, hvars
<1>6. ASSUME VirtualWrite("MODIFIED"), UNCHANGED <<vwatching, lossless, host>>
      PROVE  LosslessInv'
  BY <1>4, <1>6, VirtualPods DEF VirtualWrite
<1>7. CASE VirtualEdit \/ VirtualSchedule
  BY <1>6, <1>7, EditMoves DEF VirtualEdit, VirtualSchedule, hvars
<1>8. CASE VirtualDelete
  <2>1. virt # NoPod /\ TellVirtual("DELETED", virt.uid) /\ virt.uid \in Nat
        /\ lossless' = (lossless /\ vwatching) /\ UNCHANGED <<vwatching, host>>
    BY <1>8, VirtualPods DEF VirtualDelete, hvars, TypeOK
  <2>2. CASE vwatching
    BY <2>1, <2>2, ToldVirtual DEF LosslessInv
  <2>3. CASE ~vwatching
    BY <2>1, <2>3, ToldVirtual DEF LosslessInv
  <2> QED  BY <2>2, <2>3
<1>9. CASE HostCluster
  BY <1>2, <1>9, HostMoves
  DEF HostCluster, HostEvict, HostSchedule, HostStatus, HostTerminated, vvars
<1>10. CASE OpenPods
  BY <1>10 DEF OpenPods, hvars, LosslessInv, Gone
<1>11. CASE HandleUpsert
  <2>1. /\ vqueue # << >> /\ vqueue' = Tail(vqueue) /\ UNCHANGED <<vwatching, virt, lossless>>
        /\ Head(vqueue).type # "DELETED"
    BY <1>11 DEF HandleUpsert
  <2>2. vwatching
    BY <2>1 DEF LosslessInv
  <2>3. Len(Tail(vqueue)) = Len(vqueue) - 1 /\ Len(vqueue) \in Nat /\ Head(vqueue) = vqueue[1]
    BY <2>1, HeadEvent, TailIs
  <2>4. Tail(vqueue) = << >> => Len(vqueue) = 1
    <3>1. Tail(vqueue) = << >> => Len(Tail(vqueue)) = 0
      OBVIOUS
    <3> QED  BY <2>3, <3>1
  <2>5. Tail(vqueue) # << >> => Tail(vqueue)[Len(Tail(vqueue))] = vqueue[Len(vqueue)]
    BY <2>1, HeadEvent, TailIs
  <2> QED  BY <2>1, <2>2, <2>3, <2>4, <2>5 DEF LosslessInv
<1>12. CASE HandleDelete
  <2>1. /\ vqueue # << >> /\ vqueue' = Tail(vqueue) /\ UNCHANGED <<vwatching, virt, lossless>>
        /\ HostDeleteCall
    BY <1>12 DEF HandleDelete
  <2>2. vwatching
    BY <2>1 DEF LosslessInv
  <2>3. Tail(vqueue) # << >> => Tail(vqueue)[Len(Tail(vqueue))] = vqueue[Len(vqueue)]
    BY <2>1, HeadEvent, TailIs
  <2>4. Gone'
    <3>1. host # NoPod => host \in HostPod
      BY DEF TypeOK
    <3>2. CASE host # NoPod /\ ~host.terminating /\ host.node # NoNode
      <4>1. host' = [host EXCEPT !.terminating = TRUE]
        BY <2>1, <3>2 DEF HostDeleteCall, SetHost
      <4> QED  BY <3>1, <3>2, <4>1 DEF Gone, HostPod
    <3>3. CASE ~(host # NoPod /\ ~host.terminating /\ host.node # NoNode)
      BY <2>1, <3>3 DEF HostDeleteCall, Gone
    <3> QED  BY <3>2, <3>3
  <2> QED  BY <2>1, <2>2, <2>3, <2>4 DEF LosslessInv
<1>13. CASE ClosePods \/ FailPods \/ CloseHostPods \/ FailHostPods \/ Restart
  BY <1>1, <1>13 DEF ClosePods, FailPods, CloseHostPods, FailHostPods, Restart, vvars, LosslessInv
<1>14. CASE Bind
  BY <1>3, <1>6, <1>14, BindMoves DEF Bind, hvars
<1>15. CASE UpdateStatus
  BY <1>3, <1>6, <1>15, UpdateMoves DEF UpdateStatus, hvars
<1>16. CASE OpenHostPods \/ ReceiveHostPod \/ ReGet
  BY <1>3, <1>16 DEF OpenHostPods, ReceiveHostPod, ReGet, vvars, hvars
<1>17. CASE UNCHANGED vars
  BY <1>3, <1>17 DEF vars, vvars, hvars
<1> QED
  BY <1>5, <1>7, <1>8, <1>9, <1>10, <1>11, <1>12, <1>13, <1>14, <1>15, <1>16, <1>17
  DEF Next, VirtualCluster, Faults, PodsLoop, HostPodsLoop

-----------------------------------------------------------------------------
(* The order of the reports.                                               *)

\* Known, in the next state.
KnownThen(s) == s.from <= Len(made') /\ (host' # NoPod => After(s, host'.status))

\* The statuses that are about.
LEMMA Reports ==
  ASSUME TypeOK, HandlerInv
  PROVE  /\ host # NoPod => host.status \in Status
         /\ virt # NoPod => virt.status \in Status
         /\ pc # "idle" => hostPod.status \in Status
         /\ \A i \in 1..Len(hqueue) : hqueue[i].status \in Status
         /\ Len(made) \in Nat
BY Ordered, HostPods, VirtualPods DEF TypeOK, HandlerInv

\* The host pod is written: what it reports is no less than any report before.
LEMMA HostReports ==
  ASSUME IInv, TypeOK', HandlerInv', NEW p \in HostPod, SetHost(p), UNCHANGED <<virt, pc, hostPod>>,
         Len(made) <= Len(made'), p.status.from <= Len(made'),
         \A s \in Status : Known(s) => After(s, p.status)
  PROVE  ReportInv'
<1> USE DEF IInv
<1>1. Len(made) \in Nat /\ Len(made') \in Nat /\ Len(hqueue) \in Nat
  BY Ordered
<1>2. host' = p /\ p # NoPod /\ p.status \in Status
  BY ToldHost, HostPods
<1>3. \A s \in Status : Known(s) => KnownThen(s) /\ After(s, p.status)
  <2> SUFFICES ASSUME NEW s \in Status, Known(s) PROVE KnownThen(s) /\ After(s, p.status)
    OBVIOUS
  <2>1. s.from \in Nat /\ s.from <= Len(made)
    BY Statuses DEF Known
  <2> QED  BY <1>1, <1>2, <2>1 DEF Known, KnownThen
<1>4. KnownThen(p.status)
  BY <1>2, Statuses DEF Known, KnownThen
<1>5. \A i \in 1..Len(hqueue') :
         \/ i \in 1..Len(hqueue) /\ hqueue'[i] = hqueue[i]
         \/ i = Len(hqueue) + 1 /\ hqueue'[i] = p
  BY <1>1, ToldHost
<1>6. \A i \in 1..Len(hqueue') : KnownThen(hqueue'[i].status)
  BY <1>3, <1>4, <1>5, Reports DEF ReportInv
<1>7. ASSUME NEW s \in Status, Known(s), \A i \in 1..Len(hqueue) : After(s, hqueue[i].status)
      PROVE  \A i \in 1..Len(hqueue') : After(s, hqueue'[i].status)
  BY <1>3, <1>5, <1>7
<1>8. \A i, j \in 1..Len(hqueue') : i <= j => After(hqueue'[i].status, hqueue'[j].status)
  <2> SUFFICES ASSUME NEW i \in 1..Len(hqueue'), NEW j \in 1..Len(hqueue'), i <= j
               PROVE  After(hqueue'[i].status, hqueue'[j].status)
    OBVIOUS
  <2>1. CASE j \in 1..Len(hqueue)
    <3>1. i \in 1..Len(hqueue) /\ hqueue'[i] = hqueue[i] /\ hqueue'[j] = hqueue[j]
      BY <1>1, <1>5, <2>1
    <3> QED  BY <2>1, <3>1 DEF ReportInv
  <2>2. CASE j \notin 1..Len(hqueue)
    <3>1. hqueue'[j] = p
      BY <1>5, <2>2
    <3>2. CASE i \in 1..Len(hqueue) /\ hqueue'[i] = hqueue[i]
      BY <1>3, <3>1, <3>2, Reports DEF ReportInv
    <3>3. CASE hqueue'[i] = p
      BY <1>2, <3>1, <3>3, Statuses
    <3> QED  BY <1>5, <3>2, <3>3
  <2> QED  BY <2>1, <2>2
<1>9. pc' # "idle" => /\ KnownThen(hostPod'.status)
                      /\ \A i \in 1..Len(hqueue') : After(hostPod'.status, hqueue'[i].status)
  BY <1>3, <1>7, Reports DEF ReportInv
<1>10. virt' # NoPod => /\ KnownThen(virt'.status)
                        /\ \A i \in 1..Len(hqueue') : After(virt'.status, hqueue'[i].status)
                        /\ pc' # "idle" => After(virt'.status, hostPod'.status)
  BY <1>3, <1>7, Reports DEF ReportInv
<1> QED  BY <1>2, <1>6, <1>8, <1>9, <1>10 DEF ReportInv, Known, KnownThen

\* The virtual pod is new, or gone, or shows what it showed or the handler's report.
LEMMA VirtualReports ==
  ASSUME IInv, TypeOK', UNCHANGED <<host, hqueue, made>>,
         \/ UNCHANGED <<pc, hostPod>>
         \/ pc' = "idle"
         \/ pc # "idle" /\ hostPod' = hostPod,
         \/ virt' = NoPod
         \/ virt # NoPod /\ virt'.status = virt.status
         \/ virt'.status = [from |-> 0, level |-> 0]
         \/ pc # "idle" /\ virt'.status = hostPod.status /\ pc' = "idle"
  PROVE  ReportInv'
<1> USE DEF IInv
<1>1. \A s \in Status : After([from |-> 0, level |-> 0], s)
  BY DEF Status, After
<1>2. \A s : KnownThen(s) <=> Known(s)
  BY DEF Known, KnownThen
<1>3. Len(made) \in Nat /\ Len(made') = Len(made)
  BY Ordered
<1>4. Known([from |-> 0, level |-> 0])
  BY <1>1, <1>3, Reports DEF Known
<1>5. pc' # "idle" => hostPod' = hostPod /\ pc # "idle"
  OBVIOUS
<1>6. virt' # NoPod =>
        /\ Known(virt'.status)
        /\ \A i \in 1..Len(hqueue) : After(virt'.status, hqueue[i].status)
        /\ pc' # "idle" => After(virt'.status, hostPod.status)
  BY <1>1, <1>4, <1>5, Reports DEF ReportInv
<1>7. pc' # "idle" => /\ Known(hostPod.status)
                      /\ \A i \in 1..Len(hqueue) : After(hostPod.status, hqueue[i].status)
  BY <1>5 DEF ReportInv
<1> QED  BY <1>2, <1>3, <1>5, <1>6, <1>7 DEF ReportInv, Known, KnownThen

LEMMA ReportStep ==
  ASSUME IInv, TypeOK', HandlerInv', [Next]_vars
  PROVE  ReportInv'
<1> USE DEF IInv
<1>1. CASE VirtualCreate
  BY <1>1, VirtualReports, NewPods DEF VirtualCreate, SetVirtual, hvars, loopvars
<1>2. CASE VirtualEdit \/ VirtualSchedule
  BY <1>2, VirtualReports, EditMoves DEF VirtualEdit, VirtualSchedule, hvars, loopvars
<1>3. CASE VirtualDelete
  BY <1>3, VirtualReports DEF VirtualDelete, SetVirtual, hvars, loopvars
<1>4. CASE Bind
  <2>1. pc # "idle" /\ UNCHANGED <<host, hqueue, made>>
    BY <1>4 DEF Bind, hvars
  <2>2. virt' = NoPod \/ (virt # NoPod /\ virt'.status = virt.status)
    BY <1>4, BindMoves, VirtualPods DEF VirtualWrite
  <2>3. pc' = "idle" \/ hostPod' = hostPod
    BY <1>4, BindMoves DEF Return
  <2> QED  BY <2>1, <2>2, <2>3, VirtualReports
<1>5. CASE UpdateStatus
  <2>1. pc # "idle" /\ UNCHANGED <<host, hqueue, made>> /\ pc' = "idle"
    BY <1>5 DEF UpdateStatus, Return, hvars
  <2>2. \/ virt' = NoPod
        \/ virt # NoPod /\ virt'.status = virt.status
        \/ virt'.status = hostPod.status
    BY <1>5, UpdateMoves
  <2> QED  BY <2>1, <2>2, VirtualReports
<1>6. CASE ReGet
  <2>1. pc # "idle" /\ UNCHANGED <<virt, host, hqueue, made>>
    BY <1>6 DEF ReGet, vvars, hvars
  <2>2. pc' = "idle" \/ hostPod' = hostPod
    BY <1>6, ReGetMoves DEF Return
  <2> QED  BY <2>1, <2>2, VirtualReports
<1>7. CASE FailHostPods \/ UNCHANGED vars \/ OpenPods \/ ClosePods \/ FailPods
  BY <1>7, VirtualReports
  DEF FailHostPods, OpenPods, ClosePods, FailPods, Return, vars, vvars, hvars, loopvars
<1>8. ASSUME UNCHANGED <<virt, pc, hostPod, made>>, HostWrite
      PROVE  ReportInv'
  <2>1. CASE UNCHANGED <<host, hqueue>>
    BY <1>8, <2>1, VirtualReports
  <2>2. CASE host' = NoPod /\ UNCHANGED hqueue
    BY <1>8, <2>2 DEF ReportInv, Known
  <2>3. CASE /\ host \in HostPod /\ \E p \in HostPod : SetHost(p)
             /\ host'.status \in Status /\ After(host.status, host'.status)
             /\ host'.status.from = host.status.from
    <3>1. PICK p \in HostPod : SetHost(p)
      BY <2>3
    <3>2. host' = p /\ host # NoPod /\ p.status.from <= Len(made)
      BY <2>3, <3>1, HostPods DEF SetHost, ReportInv
    <3>3. \A s \in Status : Known(s) => After(s, p.status)
      BY <2>3, <3>2, HostPods, Statuses DEF Known
    <3>4. Len(made') = Len(made) /\ Len(made) \in Nat
      BY <1>8, Ordered
    <3> QED  BY <1>8, <3>1, <3>2, <3>3, <3>4, HostReports
  <2> QED  BY <1>8, <2>1, <2>2, <2>3 DEF HostWrite
<1>9. CASE HostCluster \/ HandleDelete
  <2>1. HostWrite
    BY <1>9, HostMoves DEF HostCluster, HostEvict, HandleDelete
  <2> QED
    BY <1>8, <1>9, <2>1
    DEF HostCluster, HostEvict, HostSchedule, HostStatus, HostTerminated, HandleDelete, vvars, loopvars
<1>10. CASE HandleUpsert
  <2>1. UNCHANGED <<virt, pc, hostPod>> /\ syncPodToHost(Head(vqueue).uid)
        /\ Head(vqueue).uid \in 1..MaxUids
    BY <1>10, HeadEvent DEF HandleUpsert, loopvars
  <2>2. CASE UNCHANGED <<host, hqueue, made>>
    BY <2>1, <2>2, VirtualReports
  <2>3. CASE host = NoPod /\ made' = Append(made, Head(vqueue).uid)
    <3>1. PICK p \in HostPod : SetHost(p)
      BY <2>1, <2>3, SyncPodMoves
    <3>2. host' = p /\ p.status.from = Len(made) + 1
      BY <2>1, <2>3, <3>1, SyncPodMoves DEF SetHost
    <3>3. Len(made) \in Nat /\ Len(made') = Len(made) + 1
      BY <2>1, <2>3, AppendIs DEF TypeOK
    <3>4. \A s \in Status : Known(s) => After(s, p.status)
      BY <3>2, <3>3, Statuses DEF Known, After
    <3> QED  BY <2>1, <3>1, <3>2, <3>3, <3>4, HostReports
  <2> QED  BY <2>1, <2>2, <2>3, SyncPodMoves
<1>11. CASE OpenHostPods \/ CloseHostPods \/ Restart
  <2>1. UNCHANGED <<virt, host, made>> /\ (UNCHANGED <<pc, hostPod>> \/ pc' = "idle")
    BY <1>11 DEF OpenHostPods, CloseHostPods, Restart, Return, vvars, loopvars
  <2>2. \A i \in 1..Len(hqueue') : i = 1 /\ host # NoPod /\ hqueue'[i] = host
    <3>1. hqueue' = << >> \/ (hqueue' = <<host>> /\ host # NoPod)
      BY <1>11 DEF OpenHostPods, CloseHostPods, Restart
    <3>2. CASE hqueue' = << >>
      <4>1. Len(hqueue') = 0
        BY <3>2
      <4> QED  BY <4>1
    <3>3. CASE hqueue' = <<host>> /\ host # NoPod
      <4>1. Len(hqueue') = 1 /\ hqueue'[1] = host
        BY <3>3
      <4> QED  BY <3>3, <4>1
    <3> QED  BY <3>1, <3>2, <3>3
  <2>3. \A s : KnownThen(s) <=> Known(s)
    BY <2>1 DEF Known, KnownThen
  <2>4. host # NoPod => After(host.status, host.status) /\ Known(host.status)
    BY Reports, Statuses DEF ReportInv, Known
  <2>5. pc' # "idle" => /\ KnownThen(hostPod'.status)
                        /\ \A i \in 1..Len(hqueue') : After(hostPod'.status, hqueue'[i].status)
    BY <2>1, <2>2, <2>3 DEF ReportInv, Known
  <2>6. virt' # NoPod => /\ KnownThen(virt'.status)
                         /\ \A i \in 1..Len(hqueue') : After(virt'.status, hqueue'[i].status)
                         /\ pc' # "idle" => After(virt'.status, hostPod'.status)
    BY <2>1, <2>2, <2>3 DEF ReportInv, Known
  <2> QED  BY <2>1, <2>2, <2>3, <2>4, <2>5, <2>6 DEF ReportInv, Known, KnownThen
<1>12. CASE ReceiveHostPod
  <2>1. UNCHANGED <<virt, host, made>> /\ hqueue # << >> /\ hqueue' = Tail(hqueue)
        /\ (pc' # "idle" => hostPod' = Head(hqueue))
    BY <1>12, ReceiveMoves DEF ReceiveHostPod, Return, vvars
  <2>2. /\ \A i \in 1..Len(hqueue') : i + 1 \in 1..Len(hqueue) /\ hqueue'[i] = hqueue[i + 1]
        /\ Head(hqueue) = hqueue[1] /\ 1 \in 1..Len(hqueue) /\ Len(hqueue') \in Nat
    BY <2>1, TailIs, Ordered DEF TypeOK
  <2>3. \A s : KnownThen(s) <=> Known(s)
    BY <2>1 DEF Known, KnownThen
  <2>4. \A i, j \in 1..Len(hqueue') : i <= j => After(hqueue'[i].status, hqueue'[j].status)
    BY <2>2 DEF ReportInv
  <2>5. pc' # "idle" => /\ KnownThen(hostPod'.status)
                        /\ \A i \in 1..Len(hqueue') : After(hostPod'.status, hqueue'[i].status)
    BY <2>1, <2>2, <2>3 DEF ReportInv
  <2>6. virt' # NoPod => /\ KnownThen(virt'.status)
                         /\ \A i \in 1..Len(hqueue') : After(virt'.status, hqueue'[i].status)
                         /\ pc' # "idle" => After(virt'.status, hostPod'.status)
    BY <2>1, <2>2, <2>3 DEF ReportInv
  <2> QED  BY <2>1, <2>2, <2>3, <2>4, <2>5, <2>6 DEF ReportInv, Known, KnownThen
<1> QED
  BY <1>1, <1>2, <1>3, <1>4, <1>5, <1>6, <1>7, <1>9, <1>10, <1>11, <1>12
  DEF Next, VirtualCluster, Faults, PodsLoop, HostPodsLoop

-----------------------------------------------------------------------------
(* The theorems.                                                           *)

LEMMA Initially == Init => IInv
<1> SUFFICES ASSUME Init PROVE IInv
  OBVIOUS
<1>1. /\ 0 \in 0..MaxUids /\ 0 \in 0..MaxEvict /\ 0 \in 0..MaxFaults
      /\ << >> \in Seq(Events) /\ << >> \in Seq(HostPod) /\ << >> \in Seq(1..MaxUids)
  BY BoundsAssumption
<1>2. TypeOK
  BY <1>1 DEF Init, TypeOK, Events
<1>3. Len(vqueue) = 0 /\ Len(hqueue) = 0 /\ Len(made) = 0 /\ DOMAIN made = {}
  BY DEF Init
<1>4. UidInv /\ HandlerInv /\ LosslessInv
  BY DEF Init, UidInv, HandlerInv, LosslessInv
<1>5. OrderInv
  BY <1>3 DEF OrderInv, HostPodsInOrder
<1>6. ReportInv
  BY <1>3 DEF Init, ReportInv
<1> QED  BY <1>2, <1>4, <1>5, <1>6 DEF IInv

LEMMA Invariance == IInv /\ [Next]_vars => IInv'
BY TypeStep, OrderStep, LosslessStep, ReportStep DEF IInv

\* The inductive invariant holds in every state of the loops.
THEOREM Invariant == Spec => []IInv
BY Initially, Invariance, PTL DEF Spec

\* Every variable has its type: a host pod is made from a pod that was created, and
\* a handler works on pods it read.
THEOREM TypesHold == Spec => []TypeOK
<1>1. IInv => TypeOK
  BY DEF IInv
<1> QED  BY <1>1, Invariant, PTL

\* syncPodToHost never brings a replaced pod back: host pods are made from virtual
\* pods in the order of their creation, over every reopened watch and restart.
THEOREM MadeInOrder == Spec => []HostPodsInOrder
<1>1. IInv => HostPodsInOrder
  BY DEF IInv, OrderInv
<1> QED  BY <1>1, Invariant, PTL

\* As long as no watch closed and no call failed, a deletion that syncPods has
\* handled leaves no host pod but one that terminates.
THEOREM RemovalsHandled == Spec => []RemovalHandled
<1>1. IInv => RemovalHandled
  BY DEF IInv, LosslessInv, Gone, RemovalHandled
<1> QED  BY <1>1, Invariant, PTL

\* reconcileVirtualPodFromHost only moves a pod's status forward: to a later report
\* of its host pod, or to one of the host pod that took its place.
THEOREM StatusOnlyForward == Spec => StatusMovesForward
<1> DEFINE Forward ==
      virt # NoPod /\ virt' # NoPod /\ virt'.uid = virt.uid =>
        LET s == virt.status  t == virt'.status IN
        \/ s.from < t.from
        \/ s.from = t.from /\ s.level <= t.level
<1>1. ASSUME IInv, [Next]_vars PROVE Forward
  <2> USE <1>1 DEF IInv
  <2>1. ASSUME virt' = virt PROVE Forward
    BY <2>1, Reports, Statuses DEF After
  <2>2. ASSUME virt'.status = virt.status PROVE Forward
    BY <2>2, Reports, Statuses DEF After
  <2>3. CASE VirtualCreate \/ VirtualDelete
    BY <2>3 DEF VirtualCreate, VirtualDelete, SetVirtual
  <2>4. CASE VirtualEdit \/ VirtualSchedule
    BY <2>2, <2>4, EditMoves
  <2>5. CASE Bind
    BY <2>1, <2>2, <2>5, BindMoves
  <2>6. CASE UpdateStatus
    <3>1. pc # "idle"
      BY <2>6 DEF UpdateStatus
    <3>2. virt # NoPod => After(virt.status, hostPod.status)
      BY <3>1 DEF ReportInv
    <3> QED  BY <2>1, <2>6, <3>2, UpdateMoves DEF After
  <2>7. virt' = virt \/ VirtualCreate \/ VirtualDelete \/ VirtualEdit \/ VirtualSchedule
        \/ Bind \/ UpdateStatus
    BY DEF Next, VirtualCluster, HostCluster, Faults, PodsLoop, HostPodsLoop, HostSchedule, HostStatus,
           HostTerminated, HostEvict, ClosePods, CloseHostPods, FailPods, FailHostPods, Restart,
           OpenPods, HandleUpsert, HandleDelete, OpenHostPods, ReceiveHostPod, ReGet, vars, vvars
  <2> QED  BY <2>1, <2>3, <2>4, <2>5, <2>6, <2>7
<1>2. IInv /\ [Next]_vars => [Forward]_vars
  BY <1>1
<1>3. Spec => [][Forward]_vars
  BY <1>2, Invariant, PTL DEF Spec
<1> QED  BY <1>3 DEF StatusMovesForward
=============================================================================
