----------------------------- MODULE Reconciler -----------------------------
(***************************************************************************)
(* The operator: VirtualClusterReconciler.Reconcile and what it calls, in  *)
(* pkg/operator/controller.go, for one VirtualCluster resource (the CR),   *)
(* its host namespace and the objects in it and beside it.                 *)
(*                                                                         *)
(* Reconcile reads the informer cache of its client and writes to the API  *)
(* server, one object at a time; the user edits, deletes and re-creates    *)
(* the CR meanwhile, and the host empties a namespace that was deleted     *)
(* object by object.  No object the operator makes carries an owner        *)
(* reference, so Owns(StatefulSet) queues nothing: only a change of the CR *)
(* itself, an error and RequeueAfter do.                                   *)
(*                                                                         *)
(* The value of an object is the spec it was last written from, 0 if there *)
(* is none; an outdated copy is one that differs (a spec is never used     *)
(* again, and a worker writes the CR only from the copy that is the        *)
(* newest).  An update writes only the fields that are reconciled in       *)
(* place: the images and k3s arguments of the StatefulSet, the type of the *)
(* main Service, the replicas and image of the agents, everything of the   *)
(* limits and the Ingress.  The others stay those of the spec the object   *)
(* was made from.  Two specs may say the same of either.  Objects of one   *)
(* kind that one ensure function makes in a row are one object.            *)
(* The namespace's CIDR annotations are in CidrAlloc.                      *)
(***************************************************************************)
EXTENDS Naturals, Sequences, FiniteSets

CONSTANTS
  Objects,   \* the kinds of object that are ensured
  MaxSpecs,  \* bound: specs the CR has in its life, or lives
  Wanted,    \* spec -> the optional objects it asks for
  InPlace,   \* object -> spec -> what it says of the fields reconciled in place
  Fixed,     \* object -> spec -> what it says of the fields only Create writes
  NoHost,    \* specs with expose.type Ingress and no expose.host
  None,      \* no CR
  MaxLag,    \* bound: objects the cache is behind on
  MaxFaults  \* bound: calls that fail, restarts, losses of readiness

Optional == {"limits", "ingress", "vnode"}
Clusterwide == {"clusterrole", "clusterrolebinding"}
\* Ensured by creating them if they are missing, and never looked at again.
CreateOnly == Clusterwide \cup {"serviceaccount", "roles"}
Kinds == CreateOnly \cup Optional \cup {"services", "statefulset"}

Specs == 1..MaxSpecs

ASSUME ObjectsAssumption == Objects \subseteq Kinds /\ "statefulset" \in Objects
ASSUME SpecsAssumption ==
  MaxSpecs \in Nat /\ Wanted \in [Specs -> SUBSET Optional] /\ NoHost \subseteq Specs
ASSUME FieldsAssumption ==
  /\ DOMAIN InPlace = Kinds /\ \A o \in Kinds : DOMAIN InPlace[o] = Specs
  /\ DOMAIN Fixed = Kinds /\ \A o \in Kinds : DOMAIN Fixed[o] = Specs
ASSUME BoundsAssumption == MaxLag \in Nat /\ MaxFaults \in Nat

\* The order of Reconcile.
Order == <<"namespace", "limits", "serviceaccount", "clusterrole", "clusterrolebinding",
           "roles", "services", "statefulset", "ingress", "vnode", "readiness">>
Ensures == Objects \cup {"namespace", "readiness"}
Place == [step \in Kinds \cup {"namespace", "readiness"} |->
            CHOOSE i \in 1..Len(Order) : Order[i] = step]
StepAfter == [step \in Ensures \ {"readiness"} |->
                CHOOSE later \in Ensures :
                  /\ Place[step] < Place[later]
                  /\ \A other \in Ensures : Place[step] < Place[other] => Place[later] <= Place[other]]
Deletes == {"unbind", "unrole", "unspace", "release"}

Phases == {"", "Pending", "Running", "Failed"}
Unset == <<"", "">>
NotReady == {<<"readiness", "missing">>, <<"readiness", "waiting">>}
Whys == {Unset, <<"status", "starting">>, <<"readiness", "running">>} \cup NotReady
          \cup (Ensures \X {"refused", "fault"})

Resources == [spec : Specs, deleting : BOOLEAN, finalizer : BOOLEAN,
              phase : Phases, why : Whys, observed : 0..MaxSpecs]

ASSUME NoneAssumption == None \notin Resources

VARIABLES
  cr,        \* the VirtualCluster
  crCache,   \* the informer's copy of it
  queued,    \* the work queue holds it
  delayed,   \* a backoff or RequeueAfter timer for it runs
  worker,    \* the reconcile under way: its step, its copy of the CR, the result
  ns,        \* the host namespace
  nsSeen,    \* the informer's copy
  host,      \* object -> the spec it was last written from
  made,      \* object -> the spec it was made from
  seen,      \* the informer's copies
  ready,     \* the StatefulSet has ready replicas
  readySeen, \* the informer's copy
  skipped,   \* objects (and the namespace) that a deletion failed to remove
  specs,     \* specs given so far
  faults     \* faults so far

hostVars == <<ns, host, made, ready>>
seenVars == <<nsSeen, seen, readySeen>>
vars == <<cr, crCache, queued, delayed, worker, hostVars, seenVars, skipped, specs, faults>>

NamespaceStates == {"absent", "active", "terminating"}
Idle == [pc |-> "idle", vc |-> None, phase |-> "", why |-> Unset]

\* Every variable has its type; a reconcile under way has a resource to work on,
\* and a namespace that is gone has taken its objects with it.
TypeOK ==
  /\ cr \in Resources \cup {None}
  /\ crCache \in Resources \cup {None}
  /\ queued \in BOOLEAN /\ delayed \in BOOLEAN
  /\ worker \in [pc : {"idle", "finalize", "status"} \cup Ensures \cup Deletes,
                 vc : Resources \cup {None}, phase : Phases, why : Whys]
  /\ worker.pc # "idle" => worker.vc # None
  /\ ns \in NamespaceStates /\ nsSeen \in NamespaceStates
  /\ host \in [Kinds -> 0..MaxSpecs] /\ seen \in [Kinds -> 0..MaxSpecs]
  /\ made \in [Kinds -> 0..MaxSpecs]
  /\ ns = "absent" => \A o \in Kinds \ Clusterwide : host[o] = 0
  /\ ready \in BOOLEAN /\ readySeen \in BOOLEAN
  /\ ready => host["statefulset"] # 0
  /\ skipped \subseteq Kinds \cup {"namespace"}
  /\ specs \in 0..MaxSpecs /\ faults \in 0..MaxFaults

Init ==
  /\ cr = None /\ crCache = None
  /\ queued = FALSE /\ delayed = FALSE
  /\ worker = Idle
  /\ ns = "absent" /\ nsSeen = "absent"
  /\ host = [o \in Kinds |-> 0] /\ seen = [o \in Kinds |-> 0]
  /\ made = [o \in Kinds |-> 0]
  /\ ready = FALSE /\ readySeen = FALSE
  /\ skipped = {}
  /\ specs = 0 /\ faults = 0

-----------------------------------------------------------------------------
(* The user, the host and the informers.                                   *)

NewSpec ==
  /\ specs < MaxSpecs
  /\ specs' = specs + 1

Fault ==
  /\ faults < MaxFaults
  /\ faults' = faults + 1

CreateCr ==
  /\ cr = None
  /\ NewSpec
  /\ cr' = [spec |-> specs', deleting |-> FALSE, finalizer |-> FALSE,
            phase |-> "", why |-> Unset, observed |-> 0]
  /\ UNCHANGED <<crCache, queued, delayed, worker, hostVars, seenVars, skipped, faults>>

EditSpec ==
  /\ cr # None
  /\ NewSpec
  /\ cr' = [cr EXCEPT !.spec = specs']
  /\ UNCHANGED <<crCache, queued, delayed, worker, hostVars, seenVars, skipped, faults>>

DeleteCr ==
  /\ cr # None
  /\ ~cr.deleting
  /\ cr' = IF cr.finalizer THEN [cr EXCEPT !.deleting = TRUE] ELSE None
  /\ UNCHANGED <<crCache, queued, delayed, worker, hostVars, seenVars, skipped, specs, faults>>

\* The only event that queues the CR.
CrEvent ==
  /\ crCache # cr
  /\ crCache' = cr
  /\ queued' = TRUE
  /\ UNCHANGED <<cr, delayed, worker, hostVars, seenVars, skipped, specs, faults>>

SeeObject(o) ==
  /\ seen[o] # host[o] \/ (o = "statefulset" /\ readySeen # ready)
  /\ seen' = [seen EXCEPT ![o] = host[o]]
  /\ readySeen' = IF o = "statefulset" THEN ready ELSE readySeen
  /\ UNCHANGED <<cr, crCache, queued, delayed, worker, hostVars, nsSeen, skipped, specs, faults>>

SeeNamespace ==
  /\ nsSeen # ns
  /\ nsSeen' = ns
  /\ UNCHANGED <<cr, crCache, queued, delayed, worker, hostVars, seen, readySeen, skipped,
                 specs, faults>>

\* An object of the host is created, updated in place or deleted (0).
Write(o, spec) ==
  /\ seen[o] = spec \/ Cardinality({p \in Kinds \ {o} : seen[p] # host[p]}) < MaxLag
  /\ host' = [host EXCEPT ![o] = spec]
  /\ made' = [made EXCEPT ![o] = IF spec # 0 /\ host[o] # 0 THEN made[o] ELSE spec]
  /\ ready' = (ready /\ (o = "statefulset" => spec # 0))
  /\ UNCHANGED ns

WriteNamespace(state) ==
  /\ ns' = state
  /\ UNCHANGED <<host, made, ready>>

BecomesReady ==
  /\ host["statefulset"] # 0
  /\ ~ready
  /\ ready' = TRUE
  /\ UNCHANGED <<cr, crCache, queued, delayed, worker, ns, host, made, seenVars, skipped, specs, faults>>

LosesReadiness ==
  /\ ready
  /\ Fault
  /\ ready' = FALSE
  /\ UNCHANGED <<cr, crCache, queued, delayed, worker, ns, host, made, seenVars, skipped, specs>>

Purge(o) ==
  /\ ns = "terminating"
  /\ o \notin Clusterwide
  /\ host[o] # 0
  /\ Write(o, 0)
  /\ UNCHANGED <<cr, crCache, queued, delayed, worker, seenVars, skipped, specs, faults>>

NamespaceGone ==
  /\ ns = "terminating"
  /\ \A o \in Kinds \ Clusterwide : host[o] = 0
  /\ WriteNamespace("absent")
  /\ UNCHANGED <<cr, crCache, queued, delayed, worker, seenVars, skipped, specs, faults>>

-----------------------------------------------------------------------------
(* The queue, and the start of a reconcile.                                *)

TimerFires ==
  /\ delayed
  /\ delayed' = FALSE
  /\ queued' = TRUE
  /\ UNCHANGED <<cr, crCache, worker, hostVars, seenVars, skipped, specs, faults>>

\* Mutant: a resource that is not found is taken for a deleted one.
FirstStepNotFound(vc) ==
  IF vc = None \/ vc.deleting THEN [Idle EXCEPT !.pc = "unbind", !.vc = vc]
  ELSE IF ~vc.finalizer THEN [Idle EXCEPT !.pc = "finalize", !.vc = vc]
  ELSE [Idle EXCEPT !.pc = "namespace", !.vc = vc]

\* Mutant: the resources are made without a finalizer on the CR.
FirstStepNoFinalizer(vc) ==
  CASE vc = None -> Idle
    [] vc # None /\ vc.deleting -> [Idle EXCEPT !.pc = "unbind", !.vc = vc]
    [] OTHER -> [Idle EXCEPT !.pc = "namespace", !.vc = vc]

FirstStep(vc) ==
  CASE vc = None -> Idle
    [] vc # None /\ vc.deleting -> [Idle EXCEPT !.pc = "unbind", !.vc = vc]
    [] vc # None /\ ~vc.deleting /\ ~vc.finalizer -> [Idle EXCEPT !.pc = "finalize", !.vc = vc]
    [] vc # None /\ ~vc.deleting /\ vc.finalizer /\ vc.phase = "" ->
         [pc |-> "status", vc |-> vc, phase |-> "Pending", why |-> <<"status", "starting">>]
    [] OTHER -> [Idle EXCEPT !.pc = "namespace", !.vc = vc]

Get ==
  /\ worker.pc = "idle"
  /\ queued
  /\ queued' = FALSE
  /\ worker' = FirstStep(crCache)
  /\ UNCHANGED <<cr, crCache, delayed, hostVars, seenVars, skipped, specs, faults>>

\* An update of the CR from the worker's copy ends the reconcile.  One that is
\* refused is an error, and an error sets the backoff timer.
UpdateCr(new, requeue) ==
  /\ \/ cr = worker.vc /\ cr' = new /\ delayed' = (delayed \/ requeue)
     \/ cr # worker.vc /\ cr' = cr /\ delayed' = TRUE
  /\ worker' = Idle
  /\ UNCHANGED <<crCache, queued, hostVars, seenVars, skipped, specs, faults>>

AddFinalizer ==
  /\ worker.pc = "finalize"
  /\ UpdateCr([worker.vc EXCEPT !.finalizer = TRUE], TRUE)

\* Mutant: RequeueAfter is left out, as if Owns(StatefulSet) queued the resource.
UpdateStatusOnce ==
  /\ worker.pc = "status"
  /\ UpdateCr([worker.vc EXCEPT !.phase = worker.phase, !.why = worker.why,
                                !.observed = worker.vc.spec], FALSE)

\* updateStatus; only a cluster found not ready is looked at again.
UpdateStatus ==
  /\ worker.pc = "status"
  /\ UpdateCr([worker.vc EXCEPT !.phase = worker.phase, !.why = worker.why,
                                !.observed = worker.vc.spec],
              worker.why \in NotReady)

-----------------------------------------------------------------------------
(* Reconcile: the ensure functions in order, and checkReadiness.           *)

At(step) == worker.pc = step

Continue == worker' = [worker EXCEPT !.pc = StepAfter[worker.pc]]

Report(phase, reason) ==
  worker' = [worker EXCEPT !.pc = "status", !.phase = phase, !.why = <<worker.pc, reason>>]

Fail(reason) == Report("Failed", reason)

Asked(o) == o \in Optional => o \in Wanted[worker.vc.spec]

\* The limits and the Ingress are updated whether they differ or not.
AlwaysUpdated == {"limits", "ingress"}

\* The copy in the cache differs in a field that is reconciled in place.
Outdated(o) == InPlace[o][seen[o]] # InPlace[o][worker.vc.spec]

\* Mutant: a StatefulSet or Service that is there is left as it is.
NeedsUpdateIfOptional(o) == o \in Optional /\ (o \in AlwaysUpdated \/ Outdated(o))

NeedsUpdate(o) == o \notin CreateOnly /\ (o \in AlwaysUpdated \/ Outdated(o))

CreatableIn(o) == o \in Clusterwide \/ ns = "active"

EnsureNamespace ==
  /\ At("namespace")
  /\ \/ nsSeen # "absent" /\ Continue /\ UNCHANGED hostVars
     \/ nsSeen = "absent" /\ ns = "absent" /\ WriteNamespace("active") /\ Continue
     \/ nsSeen = "absent" /\ ns # "absent" /\ Fail("refused") /\ UNCHANGED hostVars
  /\ UNCHANGED <<cr, crCache, queued, delayed, seenVars, skipped, specs, faults>>

\* The object is asked for and the spec is one it can be built from.
Building(o) ==
  /\ At(o)
  /\ Asked(o)
  /\ o = "ingress" => worker.vc.spec \notin NoHost
  /\ UNCHANGED <<cr, crCache, queued, delayed, seenVars, skipped, specs, faults>>

\* Not in the cache: Create.
CreateObject(o) ==
  /\ Building(o)
  /\ seen[o] = 0
  /\ IF host[o] = 0 /\ CreatableIn(o)
     THEN Write(o, worker.vc.spec) /\ Continue
     ELSE Fail("refused") /\ UNCHANGED hostVars

\* In the cache: left alone, or updated from the cache's copy.
KeepObject(o) ==
  /\ Building(o)
  /\ seen[o] # 0
  /\ ~NeedsUpdate(o)
  /\ Continue
  /\ UNCHANGED hostVars

UpdateObject(o) ==
  /\ Building(o)
  /\ seen[o] # 0
  /\ NeedsUpdate(o)
  /\ IF host[o] = seen[o]
     THEN Write(o, worker.vc.spec) /\ Continue
     ELSE Fail("refused") /\ UNCHANGED hostVars

\* Not asked for any more; what the cache does not show stays.
RemoveObject(o) ==
  /\ At(o)
  /\ ~Asked(o)
  /\ IF seen[o] # 0 THEN Write(o, 0) ELSE UNCHANGED hostVars
  /\ Continue
  /\ UNCHANGED <<cr, crCache, queued, delayed, seenVars, skipped, specs, faults>>

IngressWithoutHost ==
  /\ At("ingress")
  /\ Asked("ingress")
  /\ worker.vc.spec \in NoHost
  /\ Fail("refused")
  /\ UNCHANGED <<cr, crCache, queued, delayed, hostVars, seenVars, skipped, specs, faults>>

CheckReadiness ==
  /\ At("readiness")
  /\ CASE seen["statefulset"] = 0 -> Report("Pending", "missing")
       [] seen["statefulset"] # 0 /\ ~readySeen -> Report("Pending", "waiting")
       [] OTHER -> Report("Running", "running")
  /\ UNCHANGED <<cr, crCache, queued, delayed, hostVars, seenVars, skipped, specs, faults>>

-----------------------------------------------------------------------------
(* reconcileDelete.  What the cache does not show is not deleted.          *)

DeleteClusterwide(step, o, next) ==
  /\ At(step)
  /\ IF seen[o] # 0
     THEN Write(o, 0) /\ skipped' = skipped \ {o}
     ELSE /\ skipped' = IF host[o] # 0 THEN skipped \cup {o} ELSE skipped
          /\ UNCHANGED hostVars
  /\ worker' = [worker EXCEPT !.pc = next]
  /\ UNCHANGED <<cr, crCache, queued, delayed, seenVars, specs, faults>>

DeleteRbac ==
  \/ DeleteClusterwide("unbind", "clusterrolebinding", "unrole")
  \/ DeleteClusterwide("unrole", "clusterrole", "unspace")

\* The errors of these two deletions are dropped.
DeleteRbacFails(step, o, next) ==
  /\ At(step)
  /\ seen[o] # 0
  /\ Fault
  /\ skipped' = IF host[o] # 0 THEN skipped \cup {o} ELSE skipped
  /\ worker' = [worker EXCEPT !.pc = next]
  /\ UNCHANGED <<cr, crCache, queued, delayed, hostVars, seenVars, specs>>

DeleteNamespace ==
  /\ At("unspace")
  /\ IF nsSeen # "absent"
     THEN /\ WriteNamespace(IF ns = "active" THEN "terminating" ELSE ns)
          /\ skipped' = skipped \ {"namespace"}
     ELSE /\ skipped' = IF ns = "active" THEN skipped \cup {"namespace"} ELSE skipped
          /\ UNCHANGED hostVars
  /\ worker' = [worker EXCEPT !.pc = "release"]
  /\ UNCHANGED <<cr, crCache, queued, delayed, seenVars, specs, faults>>

\* Without its finalizer a resource under deletion is gone.
RemoveFinalizer ==
  /\ At("release")
  /\ UpdateCr(None, FALSE)

-----------------------------------------------------------------------------
(* Failures.                                                               *)

\* A call of an ensure function fails.
EnsureFails ==
  /\ worker.pc \in Ensures \ {"readiness"}
  /\ Fault
  /\ Fail("fault")
  /\ UNCHANGED <<cr, crCache, queued, delayed, hostVars, seenVars, skipped, specs>>

\* Mutant: the error is logged and not returned.
ReconcileFailsQuietly ==
  /\ worker.pc \in {"finalize", "status", "unspace", "release"}
  /\ Fault
  /\ worker' = Idle
  /\ UNCHANGED <<cr, crCache, queued, delayed, hostVars, seenVars, skipped, specs>>

\* A call whose error Reconcile returns: the queue retries after a backoff.
ReconcileFails ==
  /\ worker.pc \in {"finalize", "status", "unspace", "release"}
  /\ Fault
  /\ worker' = Idle
  /\ delayed' = TRUE
  /\ UNCHANGED <<cr, crCache, queued, hostVars, seenVars, skipped, specs>>

\* The informers list everything, and the list queues the CR.
Restart ==
  /\ Fault
  /\ worker' = Idle
  /\ queued' = (cr # None)
  /\ delayed' = FALSE
  /\ crCache' = cr
  /\ nsSeen' = ns /\ seen' = host /\ readySeen' = ready
  /\ UNCHANGED <<cr, hostVars, skipped, specs>>

-----------------------------------------------------------------------------

User == CreateCr \/ EditSpec \/ DeleteCr

HostCleans == NamespaceGone \/ \E o \in Kinds : Purge(o)

Informers == CrEvent \/ SeeNamespace \/ \E o \in Objects : SeeObject(o)

Ensure ==
  \/ EnsureNamespace
  \/ \E o \in Objects : CreateObject(o) \/ KeepObject(o) \/ UpdateObject(o) \/ RemoveObject(o)
  \/ IngressWithoutHost
  \/ CheckReadiness

Delete == DeleteRbac \/ DeleteNamespace \/ RemoveFinalizer

Reconcile == Get \/ AddFinalizer \/ UpdateStatus \/ Ensure \/ Delete

Faults ==
  \/ LosesReadiness
  \/ EnsureFails
  \/ DeleteRbacFails("unbind", "clusterrolebinding", "unrole")
  \/ DeleteRbacFails("unrole", "clusterrole", "unspace")
  \/ ReconcileFails
  \/ Restart

Next == User \/ BecomesReady \/ HostCleans \/ Informers \/ TimerFires \/ Reconcile \/ Faults

Spec == Init /\ [][Next]_vars

\* The worker takes what is queued and finishes what it starts, timers fire,
\* every informer catches up, and the host empties a deleted namespace.
FairSpec ==
  /\ Spec
  /\ WF_vars(Reconcile)
  /\ WF_vars(TimerFires)
  /\ WF_vars(CrEvent) /\ WF_vars(SeeNamespace)
  /\ \A o \in Objects : WF_vars(SeeObject(o))
  /\ WF_vars(HostCleans)

-----------------------------------------------------------------------------
(* Properties.                                                             *)

\* The objects that a report of success is about.
Reported(spec) == ({"statefulset", "services"} \cap Objects) \cup Wanted[spec]

\* An object that is there is as new as the spec, or says what it says in every field
\* that is reconciled in place.
Applied(o, spec) ==
  host[o] # 0 => host[o] >= spec \/ InPlace[o][host[o]] = InPlace[o][spec]

\* No field that is reconciled in place takes a value it had before another one.
NoReverts ==
  \A o \in Kinds : \A r, t \in Specs : \A s \in r..t :
    InPlace[o][r] = InPlace[o][t] => InPlace[o][s] = InPlace[o][t]

\* Whoever is told that a spec runs is not served by objects whose images, arguments,
\* type, replicas, limits or rules are those of an older one: a reconcile cut short, a
\* stale copy that needs no update or a retry never reports success early.  A value
\* that comes back is excepted: the cache may still show the one before, and no update is made.
RunningIsApplied ==
  NoReverts /\ cr # None /\ cr.phase = "Running" =>
    \A o \in Reported(cr.observed) : Applied(o, cr.observed)

\* A resource that is gone has left no active namespace and no cluster-wide RBAC
\* behind, except what its deletion did not see in the cache or got an error for.
DeletionIsComplete ==
  cr = None =>
    /\ ns = "active" => "namespace" \in skipped
    /\ \A o \in Clusterwide : host[o] # 0 => o \in skipped

\* A deleted resource does not wait for its finalizer forever.
DeletionCompletes == (cr # None /\ cr.deleting) ~> (cr = None)

\* Who is not done is not forgotten: a resource that has to go, has no finalizer
\* or is not yet known to run or to have failed is in the queue, on a timer, in a
\* reconcile, or about to be queued by an event, although no event of any object
\* but the resource itself reaches the queue.
NothingForgotten ==
  cr # None /\ (cr.deleting \/ ~cr.finalizer \/ cr.phase \in {"", "Pending"}) =>
    queued \/ delayed \/ worker.pc # "idle" \/ crCache # cr

\* Nothing is left for the operator or its informers to do.
Settled ==
  /\ worker.pc = "idle" /\ ~queued /\ ~delayed
  /\ crCache = cr /\ nsSeen = ns /\ seen = host /\ readySeen = ready
  /\ ns # "terminating"

\* "ready: true when the StatefulSet has ready replicas" (README.md:273), which
\* the operator reports with the phase Running and no other.
SettledReadyIsTrue == Settled /\ cr # None /\ cr.phase = "Running" => ready

\* "observedGeneration: Last reconciled generation" (README.md:276): the objects that
\* are there say what that generation says, its storage and environment included.
ObservedIsReconciled ==
  cr # None /\ cr.phase = "Running" =>
    \A o \in Reported(cr.observed) :
      made[o] # 0 => made[o] >= cr.observed \/ Fixed[o][made[o]] = Fixed[o][cr.observed]
=============================================================================
