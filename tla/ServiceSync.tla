----------------------------- MODULE ServiceSync -----------------------------
(***************************************************************************)
(* Services in flat mode, pkg/syncer/syncer.go: syncServices and           *)
(* syncServiceToHost copy ports and selector to the host, syncHostServices *)
(* and reconcileVirtualServiceFromHost copy the load balancer's address    *)
(* back.  Each loop's writes are the other one's events, and each write    *)
(* can conflict, which neither retries.  One Service name is modelled, of  *)
(* type LoadBalancer: the others have no status to copy back.              *)
(*                                                                         *)
(* External: the two API servers (as in PodSync; an update that changes    *)
(* nothing is no event), the users, and the host's load balancer           *)
(* controller, which puts its finalizer on a Service before it assigns an  *)
(* address and takes it off when the deleted Service is cleaned up.        *)
(*                                                                         *)
(* Abstracted: ports and selector are a revision, and a Service's          *)
(* resourceVersion is its whole record, which no two writes repeat.        *)
(***************************************************************************)
EXTENDS Naturals, Sequences

CONSTANTS
  NoSvc,      \* no Service of the name
  MaxUids,    \* bound: Services the users create under the name
  MaxRevs,    \* bound: revisions of ports and selector, creations included
  MaxNotes,   \* bound: other writes of the users to one Service
  MaxLevel,   \* bound: addresses assigned to one host Service
  MaxFaults   \* bound: failed calls, restarts of the syncer

ASSUME BoundsAssumption == {MaxUids, MaxRevs, MaxNotes, MaxLevel, MaxFaults} \subseteq Nat

VARIABLES
  virt,      \* the virtual Service of the name
  vwatching, \* syncServices holds an open watch
  vqueue,    \* its events, each with the Service as it was
  vpc,       \* where syncServiceToHost stands
  vSvc,      \* its argument
  existing,  \* its copy of the host Service
  host,      \* the host Service of the translated name
  hwatching, \* syncHostServices holds an open watch
  hqueue,    \* its events, each with the host Service as it was
  hpc,       \* where reconcileVirtualServiceFromHost stands
  hostSvc,   \* its argument
  copy,      \* its copy of the virtual Service
  uids,      \* virtual Services created so far
  revs,      \* revisions written so far
  born,      \* host Services created so far
  faults,    \* failed calls and restarts so far
  lossless,  \* no watch was closed and no call failed so far
  unhealed   \* a conflict came from a write that the other loop does not pass on

vvars == <<virt, vwatching, vqueue, uids, revs>>
hvars == <<host, hwatching, hqueue, born>>
vloop == <<vpc, vSvc, existing>>
hloop == <<hpc, hostSvc, copy>>
history == <<faults, lossless, unhealed>>
vars == <<vvars, hvars, vloop, hloop, history>>

Address == [from : Nat, level : 0..MaxLevel]
VirtualService == [uid : 1..MaxUids, rev : 1..MaxRevs, notes : 0..MaxNotes, lb : Address]
HostService ==
  [uid : Nat, rev : 1..MaxRevs, lb : Address, finalizer : BOOLEAN, terminating : BOOLEAN]

ASSUME NoSvcAssumption == NoSvc \notin VirtualService \cup HostService

\* Every variable has its type: what is written comes from a Service that was read.
TypeOK ==
  /\ virt \in VirtualService \cup {NoSvc}
  /\ host \in HostService \cup {NoSvc}
  /\ vwatching \in BOOLEAN /\ hwatching \in BOOLEAN
  /\ vqueue \in Seq([type : {"ADDED", "MODIFIED", "DELETED"}, svc : VirtualService])
  /\ hqueue \in Seq(HostService)
  /\ vpc \in {"idle", "update"} /\ hpc \in {"idle", "update"}
  /\ vSvc \in VirtualService \cup {NoSvc} /\ existing \in HostService \cup {NoSvc}
  /\ hostSvc \in HostService \cup {NoSvc} /\ copy \in VirtualService \cup {NoSvc}
  /\ uids \in 0..MaxUids /\ revs \in 0..MaxRevs /\ born \in Nat /\ faults \in 0..MaxFaults
  /\ lossless \in BOOLEAN /\ unhealed \in BOOLEAN

Init ==
  /\ virt = NoSvc /\ host = NoSvc
  /\ vwatching = FALSE /\ vqueue = << >> /\ hwatching = FALSE /\ hqueue = << >>
  /\ vpc = "idle" /\ vSvc = NoSvc /\ existing = NoSvc
  /\ hpc = "idle" /\ hostSvc = NoSvc /\ copy = NoSvc
  /\ uids = 0 /\ revs = 0 /\ born = 0 /\ faults = 0
  /\ lossless = TRUE /\ unhealed = FALSE

NoAddress == [from |-> 0, level |-> 0]

-----------------------------------------------------------------------------
(* The virtual API server and its users.                                   *)

TellVirtual(type, s) ==
  vqueue' = IF vwatching THEN Append(vqueue, [type |-> type, svc |-> s]) ELSE vqueue

\* A write of the virtual Service that leaves it in place.
SetVirtual(s) == virt' = s /\ TellVirtual("MODIFIED", s)

VirtualCreate ==
  /\ virt = NoSvc
  /\ uids < MaxUids /\ revs < MaxRevs
  /\ uids' = uids + 1 /\ revs' = revs + 1
  /\ virt' = [uid |-> uids + 1, rev |-> revs + 1, notes |-> 0, lb |-> NoAddress]
  /\ TellVirtual("ADDED", virt')
  /\ UNCHANGED <<vwatching, hvars, vloop, hloop, history>>

\* Ports or selector change.
VirtualEdit ==
  /\ virt # NoSvc
  /\ revs < MaxRevs
  /\ revs' = revs + 1
  /\ SetVirtual([virt EXCEPT !.rev = revs + 1])
  /\ UNCHANGED <<vwatching, uids, hvars, vloop, hloop, history>>

\* Something changes that the host copy does not carry.
VirtualNote ==
  /\ virt # NoSvc
  /\ virt.notes < MaxNotes
  /\ SetVirtual([virt EXCEPT !.notes = @ + 1])
  /\ UNCHANGED <<vwatching, uids, revs, hvars, vloop, hloop, history>>

VirtualDelete ==
  /\ virt # NoSvc
  /\ virt' = NoSvc
  /\ TellVirtual("DELETED", virt)
  /\ lossless' = (lossless /\ vwatching)
  /\ UNCHANGED <<vwatching, uids, revs, hvars, vloop, hloop, faults, unhealed>>

-----------------------------------------------------------------------------
(* The host API server and the load balancer controller.                   *)

\* A write of the host Service that leaves it in place; none if nothing changes.
SetHost(s) ==
  /\ host' = s
  /\ hqueue' = IF hwatching /\ s # host THEN Append(hqueue, s) ELSE hqueue

HostFinalizer ==
  /\ host # NoSvc
  /\ ~host.finalizer /\ ~host.terminating
  /\ SetHost([host EXCEPT !.finalizer = TRUE])
  /\ UNCHANGED <<vvars, hwatching, born, vloop, hloop, history>>

HostAssign ==
  /\ host # NoSvc
  /\ host.finalizer /\ ~host.terminating
  /\ host.lb.level < MaxLevel
  /\ SetHost([host EXCEPT !.lb = [from |-> host.uid, level |-> @.level + 1]])
  /\ UNCHANGED <<vvars, hwatching, born, vloop, hloop, history>>

HostCleanedUp ==
  /\ host # NoSvc
  /\ host.terminating
  /\ host' = NoSvc
  /\ UNCHANGED <<vvars, hwatching, hqueue, born, vloop, hloop, history>>

\* A Delete call: gone at once unless a finalizer keeps it.
HostDeleteCall ==
  IF host = NoSvc THEN UNCHANGED <<host, hqueue>>
  ELSE IF ~host.finalizer THEN host' = NoSvc /\ UNCHANGED hqueue
  ELSE SetHost([host EXCEPT !.terminating = TRUE])

-----------------------------------------------------------------------------
(* syncServices.                                                           *)

OpenServices ==
  /\ ~vwatching
  /\ vwatching' = TRUE
  /\ vqueue' = IF virt = NoSvc THEN << >> ELSE <<[type |-> "ADDED", svc |-> virt]>>
  /\ UNCHANGED <<virt, uids, revs, hvars, vloop, hloop, history>>

\* The loop sees the closed channel between two events only.
CloseServices ==
  /\ vwatching
  /\ vpc = "idle"
  /\ vwatching' = FALSE
  /\ vqueue' = << >>
  /\ lossless' = FALSE
  /\ UNCHANGED <<virt, uids, revs, hvars, vloop, hloop, faults, unhealed>>

Upsert == vpc = "idle" /\ vqueue # << >> /\ Head(vqueue).type \in {"ADDED", "MODIFIED"}

\* Mutant: created without ports and selector, for a later update to fill in.
CreateHostServiceEmpty ==
  /\ Upsert
  /\ host = NoSvc
  /\ vqueue' = Tail(vqueue)
  /\ born' = born + 1
  /\ SetHost([uid |-> born + 1, rev |-> 0, lb |-> NoAddress,
              finalizer |-> FALSE, terminating |-> FALSE])
  /\ UNCHANGED <<virt, vwatching, uids, revs, hwatching, vloop, hloop, history>>

\* Get does not find it; nobody but this loop creates it before the Create.
CreateHostService ==
  /\ Upsert
  /\ host = NoSvc
  /\ vqueue' = Tail(vqueue)
  /\ born' = born + 1
  /\ SetHost([uid |-> born + 1, rev |-> Head(vqueue).svc.rev, lb |-> NoAddress,
              finalizer |-> FALSE, terminating |-> FALSE])
  /\ UNCHANGED <<virt, vwatching, uids, revs, hwatching, vloop, hloop, history>>

\* Mutant: an event that shows an address is taken for the echo of the own write.
GetHostServiceUnlessEcho ==
  /\ Upsert
  /\ host # NoSvc
  /\ vqueue' = Tail(vqueue)
  /\ IF Head(vqueue).type = "MODIFIED" /\ Head(vqueue).svc.lb.level > 0 THEN UNCHANGED vloop
     ELSE vpc' = "update" /\ vSvc' = Head(vqueue).svc /\ existing' = host
  /\ UNCHANGED <<virt, vwatching, uids, revs, hvars, hloop, history>>

\* Get finds it, on its way out or not.
GetHostService ==
  /\ Upsert
  /\ host # NoSvc
  /\ vqueue' = Tail(vqueue)
  /\ vpc' = "update" /\ vSvc' = Head(vqueue).svc /\ existing' = host
  /\ UNCHANGED <<virt, vwatching, uids, revs, hvars, hloop, history>>

ToHostReturns == vpc' = "idle" /\ vSvc' = NoSvc /\ existing' = NoSvc

\* Ports and selector of the event's Service onto the copy that was read.  A
\* Service that is gone or has changed since is an error, which is only logged.
UpdateHostService ==
  /\ vpc = "update"
  /\ IF host # existing THEN UNCHANGED <<host, hqueue>>
     ELSE SetHost([host EXCEPT !.rev = vSvc.rev])
  /\ unhealed' = (unhealed \/ (host \notin {existing, NoSvc} /\ host.lb = existing.lb))
  /\ ToHostReturns
  /\ UNCHANGED <<vvars, hwatching, born, hloop, faults, lossless>>

\* Mutant: a deletion is not passed on.
HandleDeleteIgnored ==
  /\ vpc = "idle"
  /\ vqueue # << >>
  /\ Head(vqueue).type = "DELETED"
  /\ vqueue' = Tail(vqueue)
  /\ UNCHANGED <<virt, vwatching, uids, revs, hvars, vloop, hloop, history>>

HandleDelete ==
  /\ vpc = "idle"
  /\ vqueue # << >>
  /\ Head(vqueue).type = "DELETED"
  /\ vqueue' = Tail(vqueue)
  /\ HostDeleteCall
  /\ UNCHANGED <<virt, vwatching, uids, revs, hwatching, born, vloop, hloop, history>>

\* Get, Create, Update or Delete fails; the error is logged and the event gone.
FailServices ==
  /\ faults < MaxFaults
  /\ faults' = faults + 1
  /\ lossless' = FALSE
  /\ \/ vpc = "update" /\ ToHostReturns /\ UNCHANGED vqueue
     \/ vpc = "idle" /\ vqueue # << >> /\ vqueue' = Tail(vqueue) /\ UNCHANGED vloop
  /\ UNCHANGED <<virt, vwatching, uids, revs, hvars, hloop, unhealed>>

-----------------------------------------------------------------------------
(* syncHostServices.                                                       *)

\* Mutant: the watch starts at the present and lists nothing.
OpenHostServicesFromNow ==
  /\ ~hwatching
  /\ hwatching' = TRUE
  /\ hqueue' = << >>
  /\ UNCHANGED <<vvars, host, born, vloop, hloop, history>>

OpenHostServices ==
  /\ ~hwatching
  /\ hwatching' = TRUE
  /\ hqueue' = IF host = NoSvc THEN << >> ELSE <<host>>
  /\ UNCHANGED <<vvars, host, born, vloop, hloop, history>>

CloseHostServices ==
  /\ hwatching
  /\ hpc = "idle"
  /\ hwatching' = FALSE
  /\ hqueue' = << >>
  /\ lossless' = FALSE
  /\ UNCHANGED <<vvars, host, born, vloop, hloop, faults, unhealed>>

\* reflect.DeepEqual: no address is the same from whichever Service it comes.
SameAddress(a, b) == a = b \/ (a.level = 0 /\ b.level = 0)

FromHostReturns == hpc' = "idle" /\ hostSvc' = NoSvc /\ copy' = NoSvc

\* Mutant: the newest event is handled first.
ReceiveNewestHostService ==
  /\ hpc = "idle"
  /\ hqueue # << >>
  /\ hqueue' = SubSeq(hqueue, 1, Len(hqueue) - 1)
  /\ LET h == hqueue[Len(hqueue)]
     IN IF virt = NoSvc \/ SameAddress(virt.lb, h.lb) THEN FromHostReturns
        ELSE hpc' = "update" /\ hostSvc' = h /\ copy' = virt
  /\ UNCHANGED <<vvars, host, hwatching, born, vloop, history>>

\* Get of the virtual Service, and the comparison.
ReceiveHostService ==
  /\ hpc = "idle"
  /\ hqueue # << >>
  /\ hqueue' = Tail(hqueue)
  /\ LET h == Head(hqueue)
     IN IF virt = NoSvc \/ SameAddress(virt.lb, h.lb) THEN FromHostReturns
        ELSE hpc' = "update" /\ hostSvc' = h /\ copy' = virt
  /\ UNCHANGED <<vvars, host, hwatching, born, vloop, history>>

\* A conflict is no error: the address of this event is not written.
UpdateStatus ==
  /\ hpc = "update"
  /\ IF virt # copy THEN UNCHANGED <<virt, vqueue>>
     ELSE SetVirtual([virt EXCEPT !.lb = hostSvc.lb])
  /\ unhealed' = (unhealed \/ (virt \notin {copy, NoSvc} /\ virt.rev = copy.rev))
  /\ FromHostReturns
  /\ UNCHANGED <<vwatching, uids, revs, hvars, vloop, faults, lossless>>

FailHostServices ==
  /\ faults < MaxFaults
  /\ faults' = faults + 1
  /\ lossless' = FALSE
  /\ \/ hpc = "update" /\ FromHostReturns /\ UNCHANGED hqueue
     \/ hpc = "idle" /\ hqueue # << >> /\ hqueue' = Tail(hqueue) /\ UNCHANGED hloop
  /\ UNCHANGED <<vvars, host, hwatching, born, vloop, unhealed>>

\* The syncer container restarts: watches and handlers under way are gone.
Restart ==
  /\ faults < MaxFaults
  /\ faults' = faults + 1
  /\ lossless' = FALSE
  /\ vwatching' = FALSE /\ vqueue' = << >> /\ ToHostReturns
  /\ hwatching' = FALSE /\ hqueue' = << >> /\ FromHostReturns
  /\ UNCHANGED <<virt, uids, revs, host, born, unhealed>>

-----------------------------------------------------------------------------

Users == VirtualCreate \/ VirtualEdit \/ VirtualNote \/ VirtualDelete
HostCluster == HostFinalizer \/ HostAssign \/ HostCleanedUp
ReceiveService == CreateHostService \/ GetHostService \/ HandleDelete
ServicesLoop == OpenServices \/ ReceiveService \/ UpdateHostService
HostServicesLoop == OpenHostServices \/ ReceiveHostService \/ UpdateStatus
Faults == CloseServices \/ CloseHostServices \/ FailServices \/ FailHostServices \/ Restart

Next == Users \/ HostCluster \/ ServicesLoop \/ HostServicesLoop \/ Faults

Spec == Init /\ [][Next]_vars

\* The loops run, and the load balancer controller cleans up what is deleted.
\* API servers close every watch after some time, but not forever before its
\* events are handled.
FairSpec ==
  /\ Spec
  /\ WF_vars(OpenServices) /\ SF_vars(ReceiveService) /\ WF_vars(UpdateHostService)
  /\ WF_vars(OpenHostServices) /\ SF_vars(ReceiveHostService) /\ WF_vars(UpdateStatus)
  /\ WF_vars(HostCleanedUp)
  /\ SF_vars(CloseServices) /\ SF_vars(CloseHostServices)

-----------------------------------------------------------------------------
(* Properties.                                                             *)

Quiet ==
  /\ vwatching /\ vqueue = << >> /\ vpc = "idle"
  /\ hwatching /\ hqueue = << >> /\ hpc = "idle"

\* The loops repair each other's dropped writes.  An Update that lost to the
\* assignment of an address is made up for by the virtual event that address
\* causes, a status update that lost to a change of the ports by the host event
\* that change causes: with nothing under way, ports, selector and address agree,
\* unless a write collided that the other loop does not pass on.
LoopsHealEachOther ==
  lossless /\ ~unhealed /\ Quiet /\ virt # NoSvc /\ host # NoSvc /\ ~host.terminating =>
    host.rev = virt.rev /\ SameAddress(virt.lb, host.lb)

\* While no watch closed and no call failed, a Service that is gone and whose
\* deletion has been handled leaves no host Service but one being cleaned up.
RemovalHandled ==
  lossless /\ vwatching /\ vqueue = << >> /\ vpc = "idle" /\ virt = NoSvc =>
    host = NoSvc \/ host.terminating

\* Ports and selector on the host only move forward, whatever is lost, and so
\* does the address shown in the virtual cluster: never back to an earlier one or
\* to that of a host Service that was replaced.
MovesForward ==
  [][/\ host # NoSvc /\ host' # NoSvc => host.rev <= host'.rev
     /\ virt # NoSvc /\ virt' # NoSvc /\ virt.uid = virt'.uid =>
          LET a == virt.lb  b == virt'.lb IN
          a = b \/ a.from < b.from \/ b.level = 0 \/ (a.from = b.from /\ a.level < b.level)]_vars

\* A Service that stays is in the end on the host with its ports and selector
\* and shows its address, after any conflict, failed call or lost event, and even
\* if it was created while its predecessor was being cleaned up.
EventuallyMirrored ==
  <>[](virt # NoSvc) =>
    <>[](virt # NoSvc /\ host # NoSvc /\ host.rev = virt.rev /\ SameAddress(virt.lb, host.lb))
=============================================================================
