-------------------------- MODULE Reconciler_proofs --------------------------
(***************************************************************************)
(* The operator's promises, for every set of objects, number of specs,     *)
(* staleness of the cache and number of faults: what is reported as        *)
(* running has been applied, a deletion is complete, and nothing that is   *)
(* left to do is forgotten.                                                *)
(*                                                                         *)
(* None of the three is inductive.  They rest on the order of the copies   *)
(* of the resource (nothing in the worker's hands or on the host is newer  *)
(* than the informer's copy, and what equals the server's is the           *)
(* informer's too), on the finalizer (while a reconcile makes objects it   *)
(* is on, so nothing is left to clean when it is off), and on what the     *)
(* steps before the worker's have done.                                    *)
(***************************************************************************)
EXTENDS Reconciler, TLAPS

\* Who wrote which spec where: nothing is newer than the informer's copy of the
\* resource, or, when it has none, than the resource itself.
Newest == IF crCache # None THEN crCache.spec ELSE IF cr # None THEN cr.spec ELSE specs

Working == worker.pc # "idle"

\* The informer's copy, and the worker's, are of the resource as it once was.
OlderCopy(copy) ==
  copy # None =>
    /\ copy.spec <= specs
    /\ cr # None => copy.spec <= cr.spec
    /\ cr # None /\ copy.spec = cr.spec =>
         (copy.deleting => cr.deleting)

CopyInv ==
  /\ cr # None => cr.spec <= specs
  /\ OlderCopy(crCache)
  /\ Working => OlderCopy(worker.vc)
  /\ Working /\ cr = worker.vc => crCache = cr

\* What the step of a reconcile says of the resource it was begun for.
StepInv ==
  /\ worker.pc \in Ensures \cup {"status"} => ~worker.vc.deleting /\ worker.vc.finalizer
  /\ worker.pc = "finalize" => ~worker.vc.deleting
  /\ worker.pc \in Deletes => worker.vc.deleting
  /\ worker.pc = "status" =>
       \/ worker.phase = "Pending" /\ worker.why \in NotReady
       \/ worker.phase = "Pending" /\ worker.vc.phase = ""
       \/ worker.phase \in {"Running", "Failed"}

\* While the finalizer is on, the resource is there.
Held == cr # None /\ cr.finalizer

FinalizerInv ==
  /\ crCache # None /\ crCache.finalizer /\ ~crCache.deleting => Held
  /\ worker.pc \in Ensures \cup {"status"} => Held

BindingGone == host["clusterrolebinding"] # 0 => "clusterrolebinding" \in skipped
RoleGone == host["clusterrole"] # 0 => "clusterrole" \in skipped
NamespaceLeft == ns = "active" => "namespace" \in skipped

\* A deletion has done what comes before its step, and without a finalizer there
\* was nothing to do.
CleanInv ==
  /\ worker.pc \in {"unrole", "unspace", "release"} => BindingGone
  /\ worker.pc \in {"unspace", "release"} => RoleGone
  /\ worker.pc = "release" => NamespaceLeft
  /\ ~Held => BindingGone /\ RoleGone /\ NamespaceLeft

\* Specs only grow: on the host, in the informers and in the worker's hands.
NewestInv ==
  /\ \A o \in Kinds : host[o] <= Newest /\ seen[o] <= Newest
  /\ Working =>
       /\ worker.vc.spec <= Newest
       /\ \A o \in Kinds : host[o] <= worker.vc.spec /\ seen[o] <= worker.vc.spec
  /\ \A o \in Kinds : host[o] # 0 => seen[o] <= host[o]
  /\ \A o \in Kinds \ Objects : host[o] = 0

\* What a reconcile has passed it has brought up to its copy's spec.
AppliedInv == NoReverts =>
  /\ worker.pc \in Ensures =>
       \A o \in Reported(worker.vc.spec) \cap Objects :
         Place[o] < Place[worker.pc] => Applied(o, worker.vc.spec)
  /\ worker.pc = "status" /\ worker.phase = "Running" =>
       \A o \in Reported(worker.vc.spec) : Applied(o, worker.vc.spec)

\* The spec that the status speaks of is no newer than any copy of the resource.
ObservedInv ==
  cr # None =>
    /\ cr.observed <= cr.spec
    /\ cr.phase = "Running" => cr.observed # 0
    /\ crCache # None => cr.observed <= crCache.spec
    /\ Working => cr.observed <= worker.vc.spec

IInv ==
  /\ TypeOK /\ CopyInv /\ StepInv /\ FinalizerInv /\ CleanInv /\ NewestInv /\ AppliedInv
  /\ ObservedInv /\ NothingForgotten /\ RunningIsApplied

-----------------------------------------------------------------------------
(* The order of the steps.                                                 *)

LEMMA StepKinds ==
  /\ Ensures \subseteq Kinds \cup {"namespace", "readiness"}
  /\ {"namespace", "readiness", "statefulset"} \subseteq Ensures
  /\ \A step \in Ensures : step \notin {"idle", "finalize", "status"} \cup Deletes
BY ObjectsAssumption DEF Ensures, Kinds, CreateOnly, Clusterwide, Optional, Deletes

\* A step's place in Reconcile.
LEMMA Places ==
  /\ Place["namespace"] = 1 /\ Place["limits"] = 2 /\ Place["serviceaccount"] = 3
  /\ Place["clusterrole"] = 4 /\ Place["clusterrolebinding"] = 5 /\ Place["roles"] = 6
  /\ Place["services"] = 7 /\ Place["statefulset"] = 8 /\ Place["ingress"] = 9
  /\ Place["vnode"] = 10 /\ Place["readiness"] = 11
<1>1. /\ Len(Order) = 11
      /\ Order[1] = "namespace" /\ Order[2] = "limits" /\ Order[3] = "serviceaccount"
      /\ Order[4] = "clusterrole" /\ Order[5] = "clusterrolebinding" /\ Order[6] = "roles"
      /\ Order[7] = "services" /\ Order[8] = "statefulset" /\ Order[9] = "ingress"
      /\ Order[10] = "vnode" /\ Order[11] = "readiness"
  BY DEF Order
<1>2. \A i, j \in 1..Len(Order) : Order[i] = Order[j] => i = j
  BY <1>1
<1>3. ASSUME NEW i \in 1..Len(Order), Order[i] \in Kinds \cup {"namespace", "readiness"}
      PROVE  Place[Order[i]] = i
  BY <1>2, <1>3 DEF Place
<1>4. \A i \in 1..Len(Order) : Order[i] \in Kinds \cup {"namespace", "readiness"}
  BY <1>1 DEF Kinds, CreateOnly, Clusterwide, Optional
<1>5. \A i \in 1..11 : Place[Order[i]] = i
  BY <1>1, <1>3, <1>4
<1> QED  BY <1>1, <1>5

LEMMA PlacesDiffer ==
  \A s, t \in Ensures : Place[s] \in 1..11 /\ (Place[s] = Place[t] => s = t)
BY Places, StepKinds DEF Kinds, CreateOnly, Clusterwide, Optional

LEMMA StepAfterIsNext ==
  ASSUME NEW s \in Ensures \ {"readiness"}
  PROVE  /\ StepAfter[s] \in Ensures
         /\ \A o \in Ensures : Place[o] < Place[StepAfter[s]] => o = s \/ Place[o] < Place[s]
<1> DEFINE Later == {o \in Ensures : Place[s] < Place[o]}
<1>1. "readiness" \in Later
  BY PlacesDiffer, StepKinds, Places
<1>2. ASSUME NEW n \in 1..11,
             \A o \in Later : Place[o] >= n
      PROVE  (\E t \in Later : \A o \in Later : Place[t] <= Place[o]) \/ \A o \in Later : Place[o] >= n + 1
  BY <1>2, PlacesDiffer
<1>3. \E t \in Later : \A o \in Later : Place[t] <= Place[o]
  <2> DEFINE Found == \E t \in Later : \A o \in Later : Place[t] <= Place[o]
             From(n) == \A o \in Later : Place[o] >= n
  <2>1. From(1)
    BY PlacesDiffer
  <2>2. \A n \in 1..11 : From(n) => Found \/ From(n + 1)
    BY <1>2
  <2>3. ~From(12)
    BY <1>1, Places
  <2> HIDE DEF Found, From
  <2>4. Found \/ From(4)
    BY <2>1, <2>2
  <2>5. Found \/ From(8)
    BY <2>2, <2>4
  <2>6. Found \/ From(12)
    BY <2>2, <2>5
  <2> QED  BY <2>3, <2>6 DEF Found
<1>4. PICK t \in Later : \A o \in Later : Place[t] <= Place[o]
  BY <1>3
<1>5. /\ StepAfter[s] \in Ensures /\ Place[s] < Place[StepAfter[s]]
      /\ \A o \in Ensures : Place[s] < Place[o] => Place[StepAfter[s]] <= Place[o]
  BY <1>4 DEF StepAfter
<1> QED  BY <1>5, PlacesDiffer

-----------------------------------------------------------------------------
(* The type invariant.                                                     *)

\* A step of the ensure functions leaves the worker with its copy of the resource
\* at a later step, or with a result.
LEMMA WorkerMoves ==
  ASSUME TypeOK, worker.pc \in Ensures,
         \/ worker.pc # "readiness" /\ Continue
         \/ \E reason \in {"refused", "fault"} : Fail(reason)
         \/ worker.pc = "readiness" /\ \E p \in {"Pending", "Running"} :
              \E reason \in {"missing", "waiting", "running"} :
                 Report(p, reason) /\ (p = "Running" <=> reason = "running")
  PROVE  /\ worker' \in [pc : {"idle", "finalize", "status"} \cup Ensures \cup Deletes,
                         vc : Resources \cup {None}, phase : Phases, why : Whys]
         /\ worker'.vc = worker.vc /\ worker'.vc # None
         /\ \/ worker.pc # "readiness" /\ worker'.pc = StepAfter[worker.pc] /\ worker'.pc \in Ensures
            \/ worker'.pc = "status" /\ worker'.phase = "Failed"
            \/ worker'.pc = "status" /\ worker'.phase = "Pending" /\ worker'.why \in NotReady
            \/ worker.pc = "readiness" /\ worker'.pc = "status" /\ worker'.phase = "Running"
<1> DEFINE W == [pc : {"idle", "finalize", "status"} \cup Ensures \cup Deletes,
                 vc : Resources \cup {None}, phase : Phases, why : Whys]
<1>1. worker \in W /\ worker.vc # None
  BY StepKinds DEF TypeOK
<1>2. CASE worker.pc # "readiness" /\ Continue
  <2>1. StepAfter[worker.pc] \in Ensures
    BY <1>2, StepAfterIsNext
  <2> QED  BY <1>1, <1>2, <2>1 DEF Continue
<1>3. ASSUME NEW reason \in {"refused", "fault"}, Fail(reason)
      PROVE  /\ worker' \in W /\ worker'.vc = worker.vc
             /\ worker'.pc = "status" /\ worker'.phase = "Failed"
  <2>1. <<worker.pc, reason>> \in Whys
    BY <1>3 DEF Whys
  <2> QED  BY <1>1, <1>3, <2>1 DEF Fail, Report, Phases
<1>4. ASSUME worker.pc = "readiness", NEW p \in {"Pending", "Running"},
             NEW reason \in {"missing", "waiting", "running"}, Report(p, reason),
             p = "Running" <=> reason = "running"
      PROVE  /\ worker' \in W /\ worker'.vc = worker.vc
             /\ worker'.pc = "status" /\ worker'.phase = p
             /\ p = "Pending" => worker'.why \in NotReady
  <2>1. <<"readiness", reason>> \in Whys /\ (p = "Pending" => <<"readiness", reason>> \in NotReady)
    BY <1>4 DEF Whys, NotReady
  <2> QED  BY <1>1, <1>4, <2>1 DEF Report, Phases
<1> QED  BY <1>1, <1>2, <1>3, <1>4

\* An object is written: to the worker's spec, or away.
LEMMA WriteType ==
  ASSUME TypeOK, NEW o \in Kinds, NEW spec \in 0..MaxSpecs, Write(o, spec),
         ns = "absent" /\ o \notin Clusterwide => spec = 0
  PROVE  /\ ns' \in NamespaceStates /\ host' \in [Kinds -> 0..MaxSpecs] /\ ready' \in BOOLEAN
         /\ made' \in [Kinds -> 0..MaxSpecs]
         /\ ns' = "absent" => \A p \in Kinds \ Clusterwide : host'[p] = 0
         /\ ready' => host'["statefulset"] # 0
         /\ host'[o] = spec /\ \A p \in Kinds \ {o} : host'[p] = host[p]
BY DEF TypeOK, Write, Kinds

\* The resource is written from the worker's copy, or nothing is.
LEMMA UpdateCrType ==
  ASSUME TypeOK, NEW new \in Resources \cup {None}, NEW requeue \in BOOLEAN,
         UpdateCr(new, requeue)
  PROVE  TypeOK'
BY DEF TypeOK, UpdateCr, Idle, hostVars, seenVars, Phases, Whys

LEMMA FirstStepType ==
  ASSUME NEW vc \in Resources \cup {None}
  PROVE  /\ FirstStep(vc) \in [pc : {"idle", "finalize", "status"} \cup Ensures \cup Deletes,
                               vc : Resources \cup {None}, phase : Phases, why : Whys]
         /\ FirstStep(vc).pc # "idle" => FirstStep(vc).vc # None
         /\ vc = None => FirstStep(vc).pc = "idle"
         /\ vc # None =>
              /\ FirstStep(vc).vc = vc
              /\ \/ FirstStep(vc).pc = "unbind" /\ vc.deleting
                 \/ FirstStep(vc).pc = "finalize" /\ ~vc.deleting
                 \/ /\ FirstStep(vc).pc = "status" /\ ~vc.deleting /\ vc.finalizer
                    /\ FirstStep(vc).phase = "Pending" /\ vc.phase = ""
                 \/ FirstStep(vc).pc = "namespace" /\ ~vc.deleting /\ vc.finalizer
<1>1. CASE vc = None
  BY <1>1 DEF FirstStep, Idle, Phases, Whys
<1>2. CASE vc # None
  <2>1. vc \in Resources /\ vc.deleting \in BOOLEAN /\ vc.finalizer \in BOOLEAN
    BY <1>2 DEF Resources
  <2>2. CASE vc.deleting
    BY <1>2, <2>1, <2>2 DEF FirstStep, Idle, Phases, Whys, Deletes
  <2>3. CASE ~vc.deleting /\ ~vc.finalizer
    BY <1>2, <2>1, <2>3 DEF FirstStep, Idle, Phases, Whys
  <2>4. CASE ~vc.deleting /\ vc.finalizer /\ vc.phase = ""
    BY <1>2, <2>1, <2>4 DEF FirstStep, Idle, Phases, Whys
  <2>5. CASE ~vc.deleting /\ vc.finalizer /\ vc.phase # ""
    BY <1>2, <2>1, <2>5, StepKinds DEF FirstStep, Idle, Phases, Whys
  <2> QED  BY <2>1, <2>2, <2>3, <2>4, <2>5
<1> QED  BY <1>1, <1>2

\* Everything an ensure function does but to the host: the worker moves on.
EnsureRest == UNCHANGED <<cr, crCache, queued, delayed, nsSeen, seen, readySeen, specs>>

\* What an ensure function does, and what it does to the host.
LEMMA EnsureMoves ==
  ASSUME TypeOK, Ensure \/ EnsureFails
  PROVE  /\ worker.pc \in Ensures /\ EnsureRest /\ skipped' = skipped /\ faults' \in 0..MaxFaults
         /\ worker' \in [pc : {"idle", "finalize", "status"} \cup Ensures \cup Deletes,
                         vc : Resources \cup {None}, phase : Phases, why : Whys]
         /\ worker'.vc = worker.vc /\ worker'.vc # None
         /\ \/ worker.pc # "readiness" /\ worker'.pc = StepAfter[worker.pc] /\ worker'.pc \in Ensures
            \/ worker'.pc = "status" /\ worker'.phase = "Failed"
            \/ worker'.pc = "status" /\ worker'.phase = "Pending" /\ worker'.why \in NotReady
            \/ worker.pc = "readiness" /\ worker'.pc = "status" /\ worker'.phase = "Running"
<1> USE DEF hostVars, seenVars, EnsureRest
<1>1. CASE EnsureNamespace
  <2>1. worker.pc \in Ensures /\ worker.pc # "readiness"
    BY <1>1, StepKinds DEF EnsureNamespace, At
  <2> QED  BY <1>1, <2>1, WorkerMoves DEF EnsureNamespace, TypeOK
<1>2. ASSUME NEW o \in Objects, CreateObject(o) \/ KeepObject(o) \/ UpdateObject(o) \/ RemoveObject(o)
      PROVE  /\ worker.pc \in Ensures /\ worker.pc # "readiness" /\ EnsureRest
             /\ skipped' = skipped /\ faults' = faults
             /\ Continue \/ \E reason \in {"refused", "fault"} : Fail(reason)
  <2>1. o \in Ensures /\ o # "readiness"
    BY ObjectsAssumption DEF Ensures, Kinds, CreateOnly, Clusterwide, Optional
  <2>2. CASE CreateObject(o)
    BY <2>1, <2>2 DEF CreateObject, Building, At
  <2>3. CASE KeepObject(o)
    BY <2>1, <2>3 DEF KeepObject, Building, At
  <2>4. CASE UpdateObject(o)
    BY <2>1, <2>4 DEF UpdateObject, Building, At
  <2>5. CASE RemoveObject(o)
    BY <2>1, <2>5 DEF RemoveObject, At
  <2> QED  BY <1>2, <2>2, <2>3, <2>4, <2>5
<1>3. CASE IngressWithoutHost
  <2>1. worker.pc \in Ensures /\ worker.pc # "readiness"
    BY <1>3 DEF IngressWithoutHost, At, TypeOK, Deletes
  <2> QED  BY <1>3, <2>1, WorkerMoves DEF IngressWithoutHost, TypeOK
<1>4. CASE CheckReadiness
  <2>1. worker.pc = "readiness" /\ worker.pc \in Ensures
    BY <1>4, StepKinds DEF CheckReadiness, At
  <2>2. \E p \in {"Pending", "Running"} : \E reason \in {"missing", "waiting", "running"} :
          Report(p, reason) /\ (p = "Running" <=> reason = "running")
    BY <1>4 DEF CheckReadiness, TypeOK
  <2> QED  BY <1>4, <2>1, <2>2, WorkerMoves DEF CheckReadiness, TypeOK
<1>5. CASE EnsureFails
  <2>1. worker.pc \in Ensures /\ Fail("fault") /\ EnsureRest /\ skipped' = skipped
    BY <1>5 DEF EnsureFails
  <2>2. faults' \in 0..MaxFaults
    BY <1>5, BoundsAssumption DEF EnsureFails, Fault, TypeOK
  <2> QED  BY <2>1, <2>2, WorkerMoves
<1> QED  BY <1>1, <1>2, <1>3, <1>4, <1>5, WorkerMoves DEF Ensure, TypeOK

LEMMA ReportedType ==
  ASSUME NEW vc \in Resources, NEW phase \in Phases, NEW why \in Whys
  PROVE  [vc EXCEPT !.phase = phase, !.why = why, !.observed = vc.spec] \in Resources
<1>1. vc.spec \in 0..MaxSpecs
  BY SpecsAssumption DEF Resources, Specs
<1>2. \A n \in 0..MaxSpecs :
        [vc EXCEPT !.phase = phase, !.why = why, !.observed = n] \in Resources
  BY DEF Resources
<1> QED  BY <1>1, <1>2

LEMMA TypeStep ==
  ASSUME TypeOK, [Next]_vars
  PROVE  TypeOK'
<1> DEFINE W == [pc : {"idle", "finalize", "status"} \cup Ensures \cup Deletes,
                 vc : Resources \cup {None}, phase : Phases, why : Whys]
<1>1. CASE User
  <2>1. CASE CreateCr
    <3>1. specs' \in 0..MaxSpecs /\ specs' \in Specs /\ 0 \in 0..MaxSpecs
      <4>1. specs \in 0..MaxSpecs /\ specs < MaxSpecs /\ specs' = specs + 1
        BY <2>1 DEF CreateCr, NewSpec, TypeOK
      <4> QED  BY <4>1, SpecsAssumption DEF Specs
    <3>2. Unset \in Whys /\ "" \in Phases
      BY DEF Whys, Phases
    <3>3. cr' \in Resources
      BY <2>1, <3>1, <3>2 DEF CreateCr, Resources
    <3> QED  BY <2>1, <3>1, <3>3 DEF CreateCr, TypeOK, hostVars, seenVars
  <2>2. CASE EditSpec
    <3>1. specs' \in 0..MaxSpecs /\ specs' \in Specs
      BY <2>2, SpecsAssumption DEF EditSpec, NewSpec, TypeOK, Specs
    <3>2. cr' \in Resources
      BY <2>2, <3>1 DEF EditSpec, TypeOK, Resources
    <3> QED  BY <2>2, <3>1, <3>2 DEF EditSpec, TypeOK, hostVars, seenVars
  <2>3. CASE DeleteCr
    <3>1. cr' \in Resources \cup {None}
      BY <2>3 DEF DeleteCr, TypeOK, Resources
    <3> QED  BY <2>3, <3>1 DEF DeleteCr, TypeOK, hostVars, seenVars
  <2> QED  BY <1>1, <2>1, <2>2, <2>3 DEF User
<1>2. CASE Informers
  <2>1. CASE CrEvent
    BY <2>1 DEF CrEvent, TypeOK, hostVars, seenVars
  <2>2. CASE SeeNamespace
    BY <2>2 DEF SeeNamespace, TypeOK, hostVars, seenVars
  <2>3. ASSUME NEW o \in Objects, SeeObject(o) PROVE TypeOK'
    BY <2>3, ObjectsAssumption DEF SeeObject, TypeOK, hostVars, seenVars
  <2> QED  BY <1>2, <2>1, <2>2, <2>3 DEF Informers
<1>3. CASE BecomesReady \/ LosesReadiness
  <2>1. CASE BecomesReady
    BY <2>1 DEF BecomesReady, TypeOK, hostVars, seenVars
  <2>2. CASE LosesReadiness
    <3>1. faults' \in 0..MaxFaults
      BY <2>2, BoundsAssumption DEF LosesReadiness, Fault, TypeOK
    <3> QED  BY <2>2, <3>1 DEF LosesReadiness, TypeOK, hostVars, seenVars
  <2> QED  BY <1>3, <2>1, <2>2
<1>4. CASE HostCleans
  <2>1. ASSUME NEW o \in Kinds, Purge(o) PROVE TypeOK'
    <3>1. 0 \in 0..MaxSpecs
      BY SpecsAssumption
    <3> QED  BY <2>1, <3>1, WriteType DEF Purge, TypeOK, hostVars, seenVars
  <2>2. CASE NamespaceGone
    BY <2>2 DEF NamespaceGone, WriteNamespace, TypeOK, NamespaceStates, hostVars, seenVars
  <2> QED  BY <1>4, <2>1, <2>2 DEF HostCleans
<1>5. CASE TimerFires
  BY <1>5 DEF TimerFires, TypeOK, hostVars, seenVars
<1>6. CASE Get
  <2>1. worker' \in W /\ (worker'.pc # "idle" => worker'.vc # None)
    BY <1>6, FirstStepType DEF Get, TypeOK
  <2> QED  BY <1>6, <2>1 DEF Get, TypeOK, hostVars, seenVars
<1>7. CASE AddFinalizer
  <2>1. [worker.vc EXCEPT !.finalizer = TRUE] \in Resources
    BY <1>7 DEF AddFinalizer, TypeOK, Resources
  <2> QED  BY <1>7, <2>1, UpdateCrType DEF AddFinalizer
<1>8. CASE UpdateStatus
  <2>1. worker.vc \in Resources /\ worker.phase \in Phases /\ worker.why \in Whys
    BY <1>8 DEF UpdateStatus, TypeOK
  <2>2. (worker.why \in NotReady) \in BOOLEAN
    OBVIOUS
  <2> QED  BY <1>8, <2>1, <2>2, ReportedType, UpdateCrType DEF UpdateStatus
<1>9. CASE Ensure \/ EnsureFails
  <2> DEFINE HostTyped ==
        /\ ns' \in NamespaceStates /\ host' \in [Kinds -> 0..MaxSpecs] /\ ready' \in BOOLEAN
        /\ made' \in [Kinds -> 0..MaxSpecs]
        /\ ns' = "absent" => \A p \in Kinds \ Clusterwide : host'[p] = 0
        /\ ready' => host'["statefulset"] # 0
  <2>1. HostTyped
    <3>1. CASE UNCHANGED hostVars
      BY <3>1 DEF hostVars, TypeOK
    <3>2. CASE EnsureNamespace
      BY <3>2 DEF EnsureNamespace, WriteNamespace, hostVars, TypeOK, NamespaceStates
    <3>3. ASSUME NEW o \in Kinds, NEW spec \in 0..MaxSpecs, Write(o, spec),
                 ns = "absent" /\ o \notin Clusterwide => spec = 0
          PROVE  HostTyped
      BY <3>3, WriteType
    <3>4. worker.vc \in Resources => worker.vc.spec \in 0..MaxSpecs
      BY SpecsAssumption DEF Resources, Specs
    <3>5. ASSUME NEW o \in Objects,
                 CreateObject(o) \/ KeepObject(o) \/ UpdateObject(o) \/ RemoveObject(o)
          PROVE  \/ UNCHANGED hostVars
                 \/ \E spec \in 0..MaxSpecs :
                      Write(o, spec) /\ (ns = "absent" /\ o \notin Clusterwide => spec = 0)
      <4>1. o \in Kinds /\ 0 \in 0..MaxSpecs /\ worker.vc.spec \in 0..MaxSpecs
        BY <1>9, <3>4, EnsureMoves, ObjectsAssumption, SpecsAssumption DEF TypeOK
      <4>2. CASE CreateObject(o)
        BY <4>1, <4>2 DEF CreateObject, CreatableIn
      <4>3. CASE KeepObject(o)
        BY <4>3 DEF KeepObject
      <4>4. CASE UpdateObject(o)
        BY <4>1, <4>4 DEF UpdateObject, TypeOK
      <4>5. CASE RemoveObject(o)
        BY <4>1, <4>5 DEF RemoveObject
      <4> QED  BY <3>5, <4>2, <4>3, <4>4, <4>5
    <3>6. CASE IngressWithoutHost \/ CheckReadiness \/ EnsureFails
      BY <3>1, <3>6 DEF IngressWithoutHost, CheckReadiness, EnsureFails
    <3>7. ASSUME NEW o \in Objects,
                 CreateObject(o) \/ KeepObject(o) \/ UpdateObject(o) \/ RemoveObject(o)
          PROVE  HostTyped
      <4>1. o \in Kinds
        BY ObjectsAssumption
      <4> HIDE DEF HostTyped
      <4> QED  BY <3>1, <3>3, <3>5, <3>7, <4>1
    <3> HIDE DEF HostTyped
    <3> QED  BY <1>9, <3>2, <3>6, <3>7 DEF Ensure
  <2> QED  BY <1>9, <2>1, EnsureMoves DEF TypeOK, EnsureRest
<1>10. CASE Delete
  <2>1. ASSUME NEW step \in {"unbind", "unrole"}, NEW o \in Clusterwide,
               NEW next \in {"unrole", "unspace"}, DeleteClusterwide(step, o, next)
        PROVE  TypeOK'
    <3>1. /\ worker' \in W /\ worker'.vc = worker.vc /\ worker.vc # None
      BY <2>1 DEF DeleteClusterwide, At, TypeOK, Deletes
    <3>2. 0 \in 0..MaxSpecs /\ o \in Kinds
      BY SpecsAssumption DEF Kinds, CreateOnly
    <3>3. CASE seen[o] # 0
      BY <2>1, <3>1, <3>2, <3>3, WriteType DEF DeleteClusterwide, TypeOK, seenVars
    <3>4. CASE seen[o] = 0
      BY <2>1, <3>1, <3>2, <3>4 DEF DeleteClusterwide, TypeOK, hostVars, seenVars
    <3> QED  BY <3>3, <3>4
  <2>2. CASE DeleteNamespace
    <3>1. worker' \in W /\ worker'.vc = worker.vc /\ worker.vc # None
      BY <2>2 DEF DeleteNamespace, At, TypeOK, Deletes
    <3> QED  BY <2>2, <3>1 DEF DeleteNamespace, WriteNamespace, TypeOK, NamespaceStates, hostVars, seenVars
  <2>3. CASE RemoveFinalizer
    BY <2>3, UpdateCrType DEF RemoveFinalizer
  <2> QED  BY <1>10, <2>1, <2>2, <2>3 DEF Delete, DeleteRbac, Clusterwide
<1>11. ASSUME NEW step \in {"unbind", "unrole"}, NEW o \in Clusterwide,
              NEW next \in {"unrole", "unspace"}, DeleteRbacFails(step, o, next)
       PROVE  TypeOK'
  <2>1. /\ worker' \in W /\ worker'.vc = worker.vc /\ worker.vc # None
    BY <1>11 DEF DeleteRbacFails, At, TypeOK, Deletes
  <2> QED  BY <1>11, <2>1, BoundsAssumption
           DEF DeleteRbacFails, Fault, TypeOK, hostVars, seenVars, Kinds, CreateOnly
<1>12. CASE ReconcileFails \/ Restart
  <2>1. Idle \in W
    BY DEF Idle, Phases, Whys
  <2>2. Idle.pc = "idle"
    BY DEF Idle
  <2>3. faults' \in 0..MaxFaults
    BY <1>12, BoundsAssumption DEF ReconcileFails, Restart, Fault, TypeOK
  <2> HIDE DEF W
  <2>4. CASE ReconcileFails
    BY <2>1, <2>2, <2>3, <2>4 DEF ReconcileFails, TypeOK, W, hostVars, seenVars
  <2>5. CASE Restart
    BY <2>1, <2>2, <2>3, <2>5 DEF Restart, TypeOK, W, hostVars, seenVars
  <2> QED  BY <1>12, <2>4, <2>5
<1>13. CASE UNCHANGED vars
  BY <1>13 DEF vars, TypeOK, hostVars, seenVars
<1> QED
  BY <1>1, <1>2, <1>3, <1>4, <1>5, <1>6, <1>7, <1>8, <1>9, <1>10, <1>11, <1>12, <1>13
  DEF Next, Reconcile, Faults, Clusterwide

-----------------------------------------------------------------------------
(* The steps, one group after the other.                                   *)

\* What the types say of the copies that are there.
LEMMA Copies ==
  ASSUME TypeOK
  PROVE  /\ MaxSpecs \in Nat /\ specs \in 0..MaxSpecs
         /\ cr # None => cr \in Resources /\ cr.spec \in Specs /\ cr.observed \in 0..MaxSpecs
         /\ crCache # None => crCache \in Resources /\ crCache.spec \in Specs
         /\ Working => worker.vc \in Resources /\ worker.vc # None /\ worker.vc.spec \in Specs
         /\ \A o \in Kinds : host[o] \in 0..MaxSpecs /\ seen[o] \in 0..MaxSpecs
BY SpecsAssumption DEF TypeOK, Resources, Working

LEMMA Numbers ==
  ASSUME TypeOK
  PROVE  /\ specs \in Nat
         /\ cr # None => cr.spec \in Nat /\ cr.spec > 0 /\ cr.observed \in Nat
         /\ crCache # None => crCache.spec \in Nat /\ crCache.spec > 0
         /\ Working => worker.vc.spec \in Nat /\ worker.vc.spec > 0
         /\ \A o \in Kinds : host[o] \in Nat /\ seen[o] \in Nat
BY Copies DEF Specs

\* What a step of the user makes of the resource.
LEMMA UserMoves ==
  ASSUME TypeOK, User
  PROVE  \/ /\ cr = None /\ specs' = specs + 1
            /\ cr' # None /\ cr'.spec = specs' /\ cr'.deleting = FALSE /\ cr'.finalizer = FALSE
            /\ cr'.observed = 0 /\ cr'.phase = ""
         \/ /\ cr # None /\ specs' = specs + 1
            /\ cr' # None /\ cr'.spec = specs' /\ cr'.deleting = cr.deleting
            /\ cr'.finalizer = cr.finalizer /\ cr'.observed = cr.observed /\ cr'.phase = cr.phase
         \/ /\ cr # None /\ ~cr.deleting /\ cr.finalizer /\ specs' = specs
            /\ cr' # None /\ cr'.spec = cr.spec /\ cr'.deleting = TRUE
            /\ cr'.finalizer = cr.finalizer /\ cr'.observed = cr.observed /\ cr'.phase = cr.phase
         \/ cr # None /\ ~cr.finalizer /\ specs' = specs /\ cr' = None
<1>1. CASE CreateCr
  <2>1. specs' \in Specs /\ specs' = specs + 1 /\ 0 \in 0..MaxSpecs
    <3>1. specs \in 0..MaxSpecs /\ specs < MaxSpecs /\ specs' = specs + 1
      BY <1>1 DEF CreateCr, NewSpec, TypeOK
    <3> QED  BY <3>1, SpecsAssumption DEF Specs
  <2>2. Unset \in Whys /\ "" \in Phases
    BY DEF Whys, Phases
  <2>3. cr' \in Resources
    BY <1>1, <2>1, <2>2 DEF CreateCr, Resources
  <2> QED  BY <1>1, <2>1, <2>3, NoneAssumption DEF CreateCr
<1>2. CASE EditSpec
  <2>1. specs' \in Specs /\ specs' = specs + 1 /\ cr \in Resources
    BY <1>2, SpecsAssumption DEF EditSpec, NewSpec, TypeOK, Specs
  <2>2. cr' \in Resources
    BY <1>2, <2>1 DEF EditSpec, Resources
  <2>3. cr'.spec = specs' /\ cr'.deleting = cr.deleting
        /\ cr'.finalizer = cr.finalizer /\ cr'.observed = cr.observed /\ cr'.phase = cr.phase
    BY <1>2, <2>1 DEF EditSpec, Resources
  <2> QED  BY <1>2, <2>1, <2>2, <2>3, NoneAssumption DEF EditSpec
<1>3. CASE DeleteCr
  <2>1. CASE cr.finalizer
    <3>1. cr \in Resources /\ cr' = [cr EXCEPT !.deleting = TRUE] /\ ~cr.deleting /\ specs' = specs
      BY <1>3, <2>1 DEF DeleteCr, TypeOK
    <3>2. cr' \in Resources
      BY <3>1 DEF Resources
    <3>3. cr'.spec = cr.spec /\ cr'.deleting = TRUE
          /\ cr'.finalizer = cr.finalizer /\ cr'.observed = cr.observed /\ cr'.phase = cr.phase
      BY <3>1 DEF Resources
    <3> QED  BY <1>3, <2>1, <3>1, <3>2, <3>3, NoneAssumption DEF DeleteCr
  <2>2. CASE ~cr.finalizer
    BY <1>3, <2>2 DEF DeleteCr
  <2> QED  BY <2>1, <2>2
<1> QED  BY <1>1, <1>2, <1>3 DEF User

LEMMA UserStep ==
  ASSUME IInv, TypeOK', User
  PROVE  IInv'
<1> USE DEF IInv
<1>1. /\ UNCHANGED <<crCache, queued, delayed, worker, ns, host, ready, seen, skipped>>
      /\ Working' <=> Working
  BY DEF User, CreateCr, EditSpec, DeleteCr, hostVars, seenVars, Working
<1>2. /\ specs \in Nat /\ specs' \in Nat /\ specs <= specs'
      /\ cr' # None => cr'.spec \in Nat /\ cr'.spec <= specs'
      /\ cr # None => cr.spec \in Nat /\ cr.spec <= specs
      /\ cr # None /\ cr' # None =>
           /\ cr.spec <= cr'.spec /\ cr'.observed = cr.observed /\ cr'.phase = cr.phase
           /\ cr.spec = cr'.spec => ~cr.deleting /\ cr'.deleting
  <2>1. specs \in Nat /\ (cr # None => cr.spec \in Nat /\ cr.spec <= specs)
    BY Numbers DEF CopyInv
  <2>2. CASE cr = None
    <3>1. specs' = specs + 1 /\ cr'.spec = specs'
      BY <2>2, UserMoves
    <3> QED  BY <2>1, <2>2, <3>1
  <2>3. CASE cr # None
    <3>1. specs' = specs + 1 \/ specs' = specs
      BY UserMoves
    <3>2. cr' # None => 
           /\ cr'.observed = cr.observed /\ cr'.phase = cr.phase
           /\ \/ cr'.spec = specs' /\ specs' = specs + 1
              \/ cr'.spec = cr.spec /\ ~cr.deleting /\ cr'.deleting
      BY <2>3, UserMoves
    <3> QED  BY <2>1, <2>3, <3>1, <3>2
  <2> QED  BY <2>2, <2>3
<1>3. ASSUME NEW copy \in Resources, copy # None, OlderCopy(copy)
      PROVE  OlderCopy(copy)' /\ copy # cr'
  <2>1. copy.spec \in Nat
    BY SpecsAssumption DEF Resources, Specs
  <2>2. cr' # None /\ cr = None => cr'.spec = specs + 1
    BY UserMoves
  <2>3. cr' # None /\ cr # None /\ cr'.spec = cr.spec => ~cr.deleting /\ cr'.deleting
    BY <1>2
  <2>4. cr' # None /\ cr # None /\ cr'.spec = copy.spec => cr.spec = copy.spec
    BY <1>2, <1>3, <2>1 DEF OlderCopy
  <2>5. OlderCopy(copy)'
    <3>1. copy.spec <= specs'
      BY <1>2, <1>3, <2>1 DEF OlderCopy
    <3>2. cr' # None => copy.spec <= cr'.spec
      BY <1>2, <1>3, <2>1, <2>2 DEF OlderCopy
    <3>3. cr' # None /\ copy.spec = cr'.spec => (copy.deleting => cr'.deleting)
      BY <1>2, <1>3, <2>1, <2>2, <2>3, <2>4 DEF OlderCopy
    <3> QED  BY <3>1, <3>2, <3>3 DEF OlderCopy
  <2>6. copy # cr'
    BY <1>2, <1>3, <2>1, <2>2, <2>3, <2>4 DEF OlderCopy, Resources
  <2> QED  BY <2>5, <2>6
<1>4. (crCache # None => crCache # cr') /\ (Working => worker.vc # cr')
  BY <1>3, Copies DEF CopyInv
<1>5. CopyInv'
  <2>1. OlderCopy(crCache)'
    BY <1>1, <1>3, Copies DEF CopyInv, OlderCopy
  <2>2. Working' => OlderCopy(worker.vc)'
    BY <1>1, <1>3, Copies DEF CopyInv, OlderCopy
  <2> QED  BY <1>1, <1>2, <1>4, <2>1, <2>2 DEF CopyInv
<1>6. StepInv'
  BY <1>1 DEF StepInv
<1>7. Held' = Held
  BY UserMoves DEF Held
<1>8. FinalizerInv'
  BY <1>1, <1>7 DEF FinalizerInv
<1>9. CleanInv'
  BY <1>1, <1>7 DEF CleanInv, BindingGone, RoleGone, NamespaceLeft
<1>10. NewestInv'
  <2>1. Newest \in Nat /\ Newest' \in Nat /\ Newest <= Newest'
    <3>1. CASE crCache # None
      BY <1>1, <3>1, Numbers DEF Newest
    <3>2. CASE crCache = None
      <4>1. crCache' = None
        BY <1>1, <3>2
      <4>2. cr = None => cr'.spec = specs'
        BY UserMoves
      <4> QED  BY <1>2, <3>2, <4>1, <4>2 DEF Newest
    <3> QED  BY <3>1, <3>2
  <2>2. \A n \in Nat : n <= Newest => n <= Newest'
    BY <2>1
  <2> QED  BY <1>1, <2>2, Copies DEF NewestInv, Specs
<1>11. AppliedInv'
  BY <1>1 DEF AppliedInv, Applied, Reported
<1>12. ObservedInv'
  <2>1. CASE cr = None
    <3>1. cr' # None => cr'.observed = 0 /\ cr'.phase = ""
      BY <2>1, UserMoves
    <3>2. crCache # None => 0 <= crCache.spec
      BY Numbers
    <3>3. Working => 0 <= worker.vc.spec
      BY Numbers
    <3>4. cr' # None => 0 <= cr'.spec
      BY <1>2
    <3>5. Working' => cr'.observed <= worker'.vc.spec \/ cr' = None
      BY <1>1, <3>1, <3>3
    <3>6. crCache' # None => cr'.observed <= crCache'.spec \/ cr' = None
      BY <1>1, <3>1, <3>2
    <3> QED  BY <3>1, <3>4, <3>5, <3>6 DEF ObservedInv
  <2>2. CASE cr # None
    <3>1. cr.observed \in Nat /\ (cr' # None => cr.observed <= cr'.spec)
      BY <1>2, <2>2, Numbers DEF ObservedInv
    <3> QED  BY <1>1, <1>2, <2>2, <3>1 DEF ObservedInv
  <2> QED  BY <2>1, <2>2
<1>13. NothingForgotten'
  BY <1>1, <1>4 DEF NothingForgotten
<1>14. RunningIsApplied'
  BY <1>1, UserMoves DEF RunningIsApplied, Reported, Applied
<1> QED  BY <1>5, <1>6, <1>8, <1>9, <1>10, <1>11, <1>12, <1>13, <1>14

\* What no invariant but the types speaks of may change.
LEMMA Frame ==
  ASSUME IInv, TypeOK',
         UNCHANGED <<cr, crCache, worker, ns, host, seen, skipped, specs>>,
         (queued \/ delayed) => (queued' \/ delayed')
  PROVE  IInv'
<1>1. CopyInv'
  BY DEF IInv, CopyInv, OlderCopy, Working
<1>2. StepInv' /\ FinalizerInv'
  BY DEF IInv, StepInv, FinalizerInv, Held
<1>3. CleanInv'
  BY DEF IInv, CleanInv, Held, BindingGone, RoleGone, NamespaceLeft
<1>4. NewestInv'
  BY DEF IInv, NewestInv, Newest, Working
<1>5. AppliedInv'
  BY DEF IInv, AppliedInv, Applied, Reported
<1>6. ObservedInv'
  BY DEF IInv, ObservedInv, Working
<1>7. NothingForgotten'
  BY DEF IInv, NothingForgotten
<1>8. RunningIsApplied'
  BY DEF IInv, RunningIsApplied, Reported, Applied
<1> QED  BY <1>1, <1>2, <1>3, <1>4, <1>5, <1>6, <1>7, <1>8 DEF IInv

\* The informer catches up with the resource: nothing is newer than what it gets.
LEMMA NewestAtServer ==
  ASSUME IInv
  PROVE  /\ cr # None => cr.spec \in Nat /\ Newest <= cr.spec
         /\ cr = None => Newest <= specs
         /\ specs \in Nat /\ Newest \in Nat
<1>1. TypeOK /\ CopyInv
  BY DEF IInv
<1>2. CASE crCache = None
  BY <1>1, <1>2, Numbers DEF Newest
<1>3. CASE crCache # None
  <2>1. Newest = crCache.spec /\ crCache.spec \in Nat
    BY <1>1, <1>3, Numbers DEF Newest
  <2>2. crCache.spec <= specs /\ (cr # None => crCache.spec <= cr.spec)
    BY <1>1, <1>3 DEF CopyInv, OlderCopy
  <2> QED  BY <1>1, <2>1, <2>2, Numbers
<1> QED  BY <1>2, <1>3

LEMMA InformersStep ==
  ASSUME IInv, TypeOK', Informers
  PROVE  IInv'
<1> USE DEF IInv
<1>1. CASE CrEvent
  <2>1. /\ UNCHANGED <<cr, worker, ns, host, seen, skipped, specs>>
        /\ crCache' = cr /\ queued'
    BY <1>1 DEF CrEvent, hostVars, seenVars
  <2>2. CopyInv'
    <3>1. OlderCopy(crCache)'
      BY <2>1, Numbers DEF CopyInv, OlderCopy
    <3>2. Working => OlderCopy(worker.vc)'
      BY <2>1 DEF CopyInv, OlderCopy
    <3> QED  BY <2>1, <3>1, <3>2 DEF CopyInv, Working
  <2>3. Newest' \in Nat /\ Newest <= Newest' /\ Newest \in Nat
    BY <2>1, NewestAtServer DEF Newest
  <2>4. \A n \in Nat : n <= Newest => n <= Newest'
    BY <2>3
  <2>5. NewestInv'
    BY <2>1, <2>4, Numbers DEF NewestInv, Working
  <2>6. FinalizerInv'
    BY <2>1 DEF FinalizerInv, Held
  <2>7. ObservedInv'
    BY <2>1 DEF ObservedInv, Working
  <2> QED
    BY <2>1, <2>2, <2>5, <2>6, <2>7
    DEF StepInv, CleanInv, Held, BindingGone, RoleGone, NamespaceLeft,
        AppliedInv, Applied, Reported, NothingForgotten, RunningIsApplied, Reported, Applied
<1>2. CASE SeeNamespace
  BY <1>2, Frame DEF SeeNamespace, hostVars
<1>3. ASSUME NEW o \in Objects, SeeObject(o) PROVE IInv'
  <2>1. /\ UNCHANGED <<cr, crCache, queued, delayed, worker, ns, host, skipped, specs>>
        /\ seen' = [seen EXCEPT ![o] = host[o]]
    BY <1>3 DEF SeeObject, hostVars
  <2>2. \A p \in Kinds : seen'[p] = seen[p] \/ seen'[p] = host[p]
    BY <2>1 DEF TypeOK
  <2>3. NewestInv'
    BY <2>1, <2>2, Numbers DEF NewestInv, Newest, Working
  <2>4. CopyInv' /\ ObservedInv'
    BY <2>1 DEF CopyInv, OlderCopy, Working, ObservedInv
  <2>5. StepInv' /\ FinalizerInv' /\ CleanInv'
    BY <2>1 DEF StepInv, FinalizerInv, Held, CleanInv, BindingGone, RoleGone, NamespaceLeft
  <2>6. AppliedInv'
    BY <2>1 DEF AppliedInv, Applied, Reported
  <2>7. NothingForgotten' /\ RunningIsApplied'
    BY <2>1 DEF NothingForgotten, RunningIsApplied, Reported, Applied
  <2> QED  BY <2>3, <2>4, <2>5, <2>6, <2>7
<1> QED  BY <1>1, <1>2, <1>3 DEF Informers

LEMMA TimerStep ==
  ASSUME IInv, TypeOK', TimerFires
  PROVE  IInv'
BY Frame DEF TimerFires, hostVars, seenVars

\* Objects go away and nothing is written: what is said of every object there is,
\* is said of what remains.
LEMMA HostShrinks ==
  ASSUME IInv, TypeOK', UNCHANGED <<cr, crCache, seen, specs>>,
         worker'.vc = worker.vc, Working' <=> Working,
         \A o \in Kinds : host'[o] = host[o] \/ host'[o] = 0
  PROVE  /\ CopyInv' /\ NewestInv' /\ ObservedInv' /\ RunningIsApplied'
         /\ Held' <=> Held
         /\ worker' = worker => AppliedInv'
<1> USE DEF IInv
<1>1. CopyInv'
  <2>1. OlderCopy(crCache)' /\ (Working => OlderCopy(worker.vc)')
    BY DEF CopyInv, OlderCopy
  <2> QED  BY <2>1 DEF CopyInv
<1>2. NewestInv'
  <2>1. Newest' = Newest
    BY DEF Newest
  <2>2. Newest \in Nat
    BY NewestAtServer
  <2>3. \A o \in Kinds : host'[o] <= Newest /\ seen'[o] <= Newest
    BY <2>2 DEF NewestInv
  <2>4. Working => /\ worker.vc.spec <= Newest
                   /\ \A o \in Kinds : host'[o] <= worker.vc.spec /\ seen'[o] <= worker.vc.spec
    BY Numbers DEF NewestInv
  <2>5. \A o \in Kinds : host'[o] # 0 => seen'[o] <= host'[o]
    BY DEF NewestInv
  <2>6. \A o \in Kinds \ Objects : host'[o] = 0
    BY DEF NewestInv
  <2> QED  BY <2>1, <2>3, <2>4, <2>5, <2>6 DEF NewestInv
<1>3. ObservedInv'
  BY DEF ObservedInv
<1>4. \A spec \in Specs : Wanted[spec] \subseteq Kinds
  BY SpecsAssumption DEF Kinds, Optional
<1>5. RunningIsApplied'
  <2>1. ASSUME NoReverts, cr # None, cr.phase = "Running", NEW o \in Reported(cr.observed)
        PROVE  Applied(o, cr.observed)'
    <3>1. cr.observed \in Specs
      BY <2>1, Numbers, Copies DEF ObservedInv, Specs
    <3>2. o \in Kinds
      BY <1>4, <2>1, <3>1, ObjectsAssumption DEF Reported
    <3>3. host'[o] = host[o] \/ host'[o] = 0
      BY <3>2
    <3> QED  BY <2>1, <3>3 DEF RunningIsApplied, Applied
  <2> QED  BY <2>1 DEF RunningIsApplied, Reported, Applied
<1>6. ASSUME worker' = worker PROVE AppliedInv'
  <2>1. \A o \in Kinds : Applied(o, worker.vc.spec) => Applied(o, worker.vc.spec)'
    BY <1>6 DEF Applied
  <2>2. worker.pc \in Ensures \/ worker.pc = "status" =>
          Reported(worker.vc.spec) \subseteq Kinds /\ Reported(worker.vc.spec)' = Reported(worker.vc.spec)
    <3>1. worker.pc \in Ensures \/ worker.pc = "status" => Working
      BY StepKinds DEF Working
    <3> QED  BY <1>4, <1>6, <3>1, Copies, ObjectsAssumption DEF Reported
  <2> QED  BY <1>6, <2>1, <2>2 DEF AppliedInv
<1> QED  BY <1>1, <1>2, <1>3, <1>5, <1>6 DEF Held

LEMMA HostStep ==
  ASSUME IInv, TypeOK', BecomesReady \/ LosesReadiness \/ HostCleans
  PROVE  IInv'
<1>1. CASE BecomesReady \/ LosesReadiness
  BY <1>1, Frame DEF BecomesReady, LosesReadiness, seenVars
<1>2. CASE HostCleans
  <2>1. /\ UNCHANGED <<cr, crCache, queued, delayed, worker, seen, skipped, specs>>
        /\ \A o \in Kinds : host'[o] = host[o] \/ (o \notin Clusterwide /\ host'[o] = 0)
        /\ ns' = "active" => ns = "active"
    <3>1. ASSUME NEW o \in Kinds, Purge(o)
          PROVE  /\ UNCHANGED <<cr, crCache, queued, delayed, worker, ns, seen, skipped, specs>>
                 /\ \A p \in Kinds : host'[p] = host[p] \/ (p \notin Clusterwide /\ host'[p] = 0)
      BY <3>1 DEF Purge, Write, seenVars, TypeOK, IInv
    <3>2. CASE NamespaceGone
      BY <3>2 DEF NamespaceGone, WriteNamespace, seenVars
    <3> QED  BY <1>2, <3>1, <3>2 DEF HostCleans
  <2>2. /\ CopyInv' /\ NewestInv' /\ ObservedInv' /\ RunningIsApplied'
        /\ Held' <=> Held
        /\ AppliedInv'
    BY <2>1, HostShrinks DEF Working
  <2>3. \A o \in Clusterwide : host'[o] = host[o]
    BY <2>1 DEF Kinds, CreateOnly
  <2>4. StepInv' /\ FinalizerInv'
    BY <2>1, <2>2 DEF IInv, StepInv, FinalizerInv
  <2>5. CleanInv'
    BY <2>1, <2>2, <2>3 DEF IInv, CleanInv, BindingGone, RoleGone, NamespaceLeft, Clusterwide
  <2>6. NothingForgotten'
    BY <2>1 DEF IInv, NothingForgotten
  <2> QED  BY <2>2, <2>4, <2>5, <2>6 DEF IInv
<1> QED  BY <1>1, <1>2

LEMMA GetStep ==
  ASSUME IInv, TypeOK', Get
  PROVE  IInv'
<1> USE DEF IInv
<1>1. /\ UNCHANGED <<cr, crCache, delayed, ns, host, seen, skipped, specs>>
      /\ worker' = FirstStep(crCache)
  BY DEF Get, hostVars, seenVars
<1>2. /\ worker'.pc # "idle" => crCache # None /\ worker'.vc = crCache
      /\ crCache = None => worker'.pc = "idle"
      /\ \/ crCache = None /\ worker'.pc = "idle"
         \/ worker'.pc = "unbind" /\ crCache.deleting
         \/ worker'.pc = "finalize" /\ ~crCache.deleting
         \/ /\ worker'.pc = "status" /\ ~crCache.deleting /\ crCache.finalizer
            /\ worker'.phase = "Pending" /\ crCache.phase = ""
         \/ worker'.pc = "namespace" /\ ~crCache.deleting /\ crCache.finalizer
  BY <1>1, FirstStepType DEF TypeOK
<1>3. worker'.pc \in {"idle", "unbind", "finalize", "status", "namespace"}
  BY <1>2
<1>4. /\ worker'.pc \in Ensures => worker'.pc = "namespace"
      /\ worker'.pc \in Deletes => worker'.pc = "unbind"
  BY <1>3, StepKinds DEF Deletes
<1>5. CopyInv'
  <2>1. OlderCopy(crCache)'
    BY <1>1 DEF CopyInv, OlderCopy
  <2>2. Working' => OlderCopy(worker.vc)'
    BY <1>1, <1>2, <2>1 DEF OlderCopy, Working
  <2> QED  BY <1>1, <1>2, <2>1, <2>2 DEF CopyInv, Working
<1>6. StepInv'
  BY <1>2, <1>4, StepKinds DEF StepInv, Deletes
<1>7. FinalizerInv'
  BY <1>1, <1>2, <1>4 DEF FinalizerInv, Held
<1>8. CleanInv'
  BY <1>1, <1>3 DEF CleanInv, Held, BindingGone, RoleGone, NamespaceLeft
<1>9. NewestInv'
  <2>1. Newest' = Newest
    BY <1>1 DEF Newest
  <2>2. Working' => worker'.vc.spec = Newest
    BY <1>2 DEF Newest, Working
  <2> QED  BY <1>1, <2>1, <2>2, NewestAtServer DEF NewestInv
<1>10. AppliedInv'
  <2>1. worker'.pc \in Ensures => \A o \in Ensures : ~(Place[o] < Place[worker'.pc])
    BY <1>4, Places, PlacesDiffer
  <2> QED  BY <1>2, <2>1 DEF AppliedInv, Ensures
<1>11. ObservedInv'
  BY <1>1, <1>2 DEF ObservedInv, Working
<1>12. NothingForgotten'
  BY <1>1, <1>2 DEF NothingForgotten
<1>13. RunningIsApplied'
  BY <1>1 DEF RunningIsApplied, Reported, Applied
<1> QED  BY <1>5, <1>6, <1>7, <1>8, <1>9, <1>10, <1>11, <1>12, <1>13

\* A reconcile ends with an error: the backoff timer is set.
LEMMA BackOff ==
  ASSUME IInv, TypeOK', worker' = Idle, delayed',
         UNCHANGED <<cr, crCache, ns, host, seen, skipped, specs>>
  PROVE  IInv'
<1>1. worker'.pc = "idle" /\ ~Working'
  BY DEF Idle, Working
<1>2. worker'.pc \notin Ensures \cup {"status", "finalize"} \cup Deletes
  BY <1>1, StepKinds DEF Deletes
<1>3. CopyInv'
  BY <1>1 DEF IInv, CopyInv, OlderCopy
<1>4. StepInv' /\ FinalizerInv'
  BY <1>2 DEF IInv, StepInv, FinalizerInv, Held
<1>5. CleanInv'
  BY <1>1 DEF IInv, CleanInv, Held, BindingGone, RoleGone, NamespaceLeft
<1>6. NewestInv'
  BY <1>1 DEF IInv, NewestInv, Newest
<1>7. AppliedInv'
  BY <1>2 DEF AppliedInv
<1>8. ObservedInv'
  BY <1>1 DEF IInv, ObservedInv
<1>9. NothingForgotten' /\ RunningIsApplied'
  BY DEF IInv, NothingForgotten, RunningIsApplied, Reported, Applied
<1> QED  BY <1>3, <1>4, <1>5, <1>6, <1>7, <1>8, <1>9 DEF IInv

LEMMA RestartStep ==
  ASSUME IInv, TypeOK', Restart
  PROVE  IInv'
<1> USE DEF IInv
<1>1. /\ UNCHANGED <<cr, ns, host, skipped, specs>>
      /\ worker' = Idle /\ crCache' = cr /\ seen' = host /\ queued' = (cr # None)
  BY DEF Restart, hostVars
<1>2. worker'.pc = "idle" /\ ~Working'
  BY <1>1 DEF Idle, Working
<1>3. worker'.pc \notin Ensures \cup {"status", "finalize"} \cup Deletes
  BY <1>2, StepKinds DEF Deletes
<1>4. CopyInv'
  BY <1>1, <1>2, Numbers DEF CopyInv, OlderCopy
<1>5. StepInv' /\ FinalizerInv'
  BY <1>1, <1>3 DEF StepInv, FinalizerInv, Held
<1>6. CleanInv'
  BY <1>1, <1>2 DEF CleanInv, Held, BindingGone, RoleGone, NamespaceLeft
<1>7. NewestInv'
  <2>1. Newest' \in Nat /\ Newest <= Newest' /\ Newest \in Nat
    BY <1>1, NewestAtServer DEF Newest
  <2>2. \A o \in Kinds : host[o] \in Nat /\ host[o] <= Newest
    BY Numbers DEF NewestInv
  <2> QED  BY <1>1, <1>2, <2>1, <2>2 DEF NewestInv
<1>8. AppliedInv'
  BY <1>3 DEF AppliedInv
<1>9. ObservedInv'
  BY <1>1, <1>2 DEF ObservedInv
<1>10. NothingForgotten' /\ RunningIsApplied'
  BY <1>1 DEF NothingForgotten, RunningIsApplied, Reported, Applied
<1> QED  BY <1>4, <1>5, <1>6, <1>7, <1>8, <1>9, <1>10

\* The resource is written from a copy that is the newest: the worker's copy, the
\* informer's and the server's are the same, and the reconcile is over.
LEMMA Written ==
  ASSUME IInv, TypeOK', Working, cr = worker.vc, worker' = Idle,
         UNCHANGED <<crCache, ns, host, seen, skipped, specs>>,
         cr' # None =>
           cr'.spec = cr.spec /\ cr'.deleting = cr.deleting /\ cr'.finalizer,
         Held' \/ (BindingGone /\ RoleGone /\ NamespaceLeft),
         cr' = None => cr.deleting
  PROVE  CopyInv' /\ StepInv' /\ FinalizerInv' /\ CleanInv' /\ NewestInv' /\ AppliedInv'
<1> USE DEF IInv
<1>1. worker'.pc = "idle" /\ ~Working'
  BY DEF Idle, Working
<1>2. worker'.pc \notin Ensures \cup {"status", "finalize"} \cup Deletes
  BY <1>1, StepKinds DEF Deletes
<1>3. cr # None /\ crCache = cr
  BY Copies DEF CopyInv
<1>4. CopyInv'
  BY <1>1, <1>3, Numbers DEF CopyInv, OlderCopy
<1>5. StepInv'
  BY <1>2 DEF StepInv
<1>6. FinalizerInv'
  BY <1>2, <1>3 DEF FinalizerInv, Held
<1>7. CleanInv'
  BY <1>1 DEF CleanInv, Held, BindingGone, RoleGone, NamespaceLeft
<1>8. NewestInv'
  BY <1>1, <1>3 DEF NewestInv, Newest
<1>9. AppliedInv'
  BY <1>2 DEF AppliedInv
<1> QED  BY <1>4, <1>5, <1>6, <1>7, <1>8, <1>9

\* What a refused update comes to, and what one that is accepted does.
LEMMA UpdateCrMoves ==
  ASSUME NEW new, NEW requeue \in BOOLEAN, UpdateCr(new, requeue)
  PROVE  /\ worker' = Idle /\ UNCHANGED <<crCache, ns, host, seen, skipped, specs>>
         /\ \/ cr' = cr /\ delayed'
            \/ cr = worker.vc /\ cr' = new /\ (requeue => delayed')
BY DEF UpdateCr, hostVars, seenVars

LEMMA AddFinalizerStep ==
  ASSUME IInv, TypeOK', AddFinalizer
  PROVE  IInv'
<1> USE DEF IInv
<1>1. Working /\ ~worker.vc.deleting /\ worker.vc \in Resources
  BY Copies DEF AddFinalizer, Working, StepInv
<1>2. /\ worker' = Idle /\ UNCHANGED <<crCache, ns, host, seen, skipped, specs>>
      /\ delayed'
      /\ \/ cr' = cr
         \/ cr = worker.vc /\ cr' = [worker.vc EXCEPT !.finalizer = TRUE]
  BY UpdateCrMoves DEF AddFinalizer
<1>3. CASE cr' = cr
  BY <1>2, <1>3, BackOff
<1>4. CASE cr = worker.vc /\ cr' = [worker.vc EXCEPT !.finalizer = TRUE]
  <2>1. /\ cr' \in Resources /\ cr'.spec = cr.spec /\ cr'.deleting = cr.deleting /\ cr'.finalizer
        /\ cr'.observed = cr.observed /\ cr'.phase = cr.phase
    BY <1>1, <1>4 DEF Resources
  <2>2. cr' # None
    BY <2>1, NoneAssumption
  <2>3. CopyInv' /\ StepInv' /\ FinalizerInv' /\ CleanInv' /\ NewestInv' /\ AppliedInv'
    BY <1>1, <1>2, <1>4, <2>1, <2>2, Written DEF Held
  <2>4. ObservedInv'
    BY <1>1, <1>2, <1>4, <2>1, Copies DEF ObservedInv, Working, Idle
  <2>5. NothingForgotten' /\ RunningIsApplied'
    BY <1>1, <1>2, <1>4, <2>1, Copies DEF NothingForgotten, RunningIsApplied, Reported, Applied
  <2> QED  BY <2>3, <2>4, <2>5
<1> QED  BY <1>2, <1>3, <1>4

LEMMA UpdateStatusStep ==
  ASSUME IInv, TypeOK', UpdateStatus
  PROVE  IInv'
<1> USE DEF IInv
<1> DEFINE new == [worker.vc EXCEPT !.phase = worker.phase, !.why = worker.why,
                                    !.observed = worker.vc.spec]
<1>1. /\ worker.pc = "status" /\ Working /\ worker.vc \in Resources /\ Held
      /\ ~worker.vc.deleting /\ worker.vc.finalizer
  BY Copies DEF UpdateStatus, Working, StepInv, FinalizerInv
<1>2. /\ worker' = Idle /\ UNCHANGED <<crCache, ns, host, seen, skipped, specs>>
      /\ \/ cr' = cr /\ delayed'
         \/ cr = worker.vc /\ cr' = new /\ (worker.why \in NotReady => delayed')
  <2>1. UpdateCr(new, worker.why \in NotReady) /\ (worker.why \in NotReady) \in BOOLEAN
    BY DEF UpdateStatus
  <2> HIDE DEF new
  <2> QED  BY <2>1, UpdateCrMoves
<1>3. CASE cr' = cr /\ delayed'
  BY <1>2, <1>3, BackOff
<1>4. CASE cr = worker.vc /\ cr' = new /\ (worker.why \in NotReady => delayed')
  <2>1. new \in Resources
    BY <1>1, ReportedType DEF TypeOK
  <2>2. /\ cr' \in Resources /\ cr'.spec = cr.spec /\ cr'.deleting = cr.deleting
        /\ cr'.finalizer = cr.finalizer /\ cr'.phase = worker.phase /\ cr'.observed = cr.spec
    BY <1>1, <1>4, <2>1 DEF Resources
  <2>3. cr' # None /\ cr'.finalizer /\ ~cr'.deleting
    BY <1>1, <1>4, <2>2, NoneAssumption
  <2>4. CopyInv' /\ StepInv' /\ FinalizerInv' /\ CleanInv' /\ NewestInv' /\ AppliedInv'
    BY <1>1, <1>2, <1>4, <2>2, <2>3, Written DEF Held
  <2>5. cr # None /\ crCache = cr
    BY <1>1, <1>4, Copies DEF CopyInv
  <2>6. ObservedInv'
    <3>1. ~Working'
      BY <1>2 DEF Working, Idle
    <3>2. cr.spec \in Nat /\ cr.spec > 0 /\ crCache' = cr
      BY <1>2, <2>5, Numbers
    <3> QED  BY <2>2, <3>1, <3>2 DEF ObservedInv
  <2>7. NothingForgotten'
    BY <1>1, <1>2, <1>4, <2>2, <2>3, <2>5 DEF NothingForgotten, StepInv
  <2>8. RunningIsApplied'
    BY <1>1, <1>2, <1>4, <2>2 DEF RunningIsApplied, AppliedInv, Reported, Applied
  <2> QED  BY <2>4, <2>6, <2>7, <2>8
<1> QED  BY <1>2, <1>3, <1>4

LEMMA RemoveFinalizerStep ==
  ASSUME IInv, TypeOK', RemoveFinalizer
  PROVE  IInv'
<1> USE DEF IInv
<1>1. /\ Working /\ worker.vc \in Resources /\ worker.vc.deleting
      /\ BindingGone /\ RoleGone /\ NamespaceLeft
  BY Copies DEF RemoveFinalizer, At, Working, StepInv, CleanInv, Deletes
<1>2. /\ worker' = Idle /\ UNCHANGED <<crCache, ns, host, seen, skipped, specs>>
      /\ \/ cr' = cr /\ delayed'
         \/ cr = worker.vc /\ cr' = None
  BY UpdateCrMoves DEF RemoveFinalizer
<1>3. CASE cr' = cr /\ delayed'
  BY <1>2, <1>3, BackOff
<1>4. CASE cr = worker.vc /\ cr' = None
  <2>1. CopyInv' /\ StepInv' /\ FinalizerInv' /\ CleanInv' /\ NewestInv' /\ AppliedInv'
    BY <1>1, <1>2, <1>4, Written
  <2> QED  BY <1>4, <2>1 DEF ObservedInv, NothingForgotten, RunningIsApplied, Reported, Applied
<1> QED  BY <1>2, <1>3, <1>4

\* What the optional objects and the ones every cluster has are.
LEMMA ReportedKinds ==
  ASSUME NEW spec \in Specs
  PROVE  /\ Reported(spec) \subseteq Kinds
         /\ \A o \in Reported(spec) : o \notin CreateOnly /\ (o \in Optional => o \in Wanted[spec])
         /\ Wanted[spec] \subseteq Reported(spec)
<1>1. Wanted[spec] \subseteq Optional
  BY SpecsAssumption
<1> QED  BY <1>1 DEF Reported, Kinds, CreateOnly, Clusterwide, Optional

\* What an ensure function leaves its object at.
AppliedTo(o) ==
  host'[o] # 0 =>
    host'[o] >= worker.vc.spec \/ InPlace[o][host'[o]] = InPlace[o][worker.vc.spec]

\* An ensure function writes its own object and no other, to the worker's spec or
\* away, and does not pass an object that a report is about and left outdated.
LEMMA EnsureHost ==
  ASSUME IInv, Ensure \/ EnsureFails
  PROVE  /\ \A o \in Kinds : \/ host'[o] = host[o]
                             \/ o \in Objects /\ o = worker.pc /\ host'[o] \in {0, worker.vc.spec}
         /\ NoReverts /\ worker.pc \in Objects /\ worker.pc \in Reported(worker.vc.spec)
              /\ worker'.pc \in Ensures =>
                AppliedTo(worker.pc)
         /\ worker'.pc = "status" /\ worker'.phase = "Running" => host' = host
<1> USE DEF IInv, hostVars
<1>1. worker.pc \in Ensures /\ Working /\ worker.vc \in Resources /\ worker.vc.spec \in Specs
  BY EnsureMoves, Copies, StepKinds DEF Working
<1>2. CASE EnsureNamespace
  BY <1>1, <1>2, ObjectsAssumption DEF EnsureNamespace, WriteNamespace, At, Kinds, CreateOnly, Clusterwide, Optional
<1>3. CASE IngressWithoutHost \/ CheckReadiness \/ EnsureFails
  <2>1. host' = host
    BY <1>3 DEF IngressWithoutHost, CheckReadiness, EnsureFails
  <2>2. worker.pc = "readiness" \/ worker'.pc = "status"
    BY <1>3 DEF IngressWithoutHost, CheckReadiness, EnsureFails, At, Fail, Report, TypeOK
  <2>3. worker.pc \in Objects => worker.pc # "readiness"
    BY ObjectsAssumption DEF Kinds, CreateOnly, Clusterwide, Optional
  <2> QED  BY <2>1, <2>2, <2>3, StepKinds
<1>4. ASSUME NEW o \in Objects, CreateObject(o) \/ KeepObject(o) \/ UpdateObject(o) \/ RemoveObject(o)
      PROVE  /\ worker.pc = o
             /\ \A p \in Kinds : \/ host'[p] = host[p]
                                 \/ p = o /\ host'[p] \in {0, worker.vc.spec}
             /\ NoReverts /\ o \in Reported(worker.vc.spec) /\ worker'.pc # "status" =>
                  AppliedTo(o)
  <2>1. o \in Kinds /\ worker.vc.spec \in Nat /\ host[o] \in Nat /\ worker'.vc = worker.vc
    BY <1>1, <1>4, ObjectsAssumption, Numbers, EnsureMoves DEF Ensure
  <2>2. ASSUME NEW spec \in {0, worker.vc.spec}, Write(o, spec)
        PROVE  /\ host'[o] = spec /\ \A p \in Kinds \ {o} : host'[p] = host[p]
               /\ AppliedTo(o)
    BY <2>1, <2>2 DEF Write, TypeOK, AppliedTo
  <2>3. CASE CreateObject(o)
    BY <2>1, <2>2, <2>3 DEF CreateObject, Building, At, Fail, Report, TypeOK
  <2>4. CASE UpdateObject(o)
    BY <2>1, <2>2, <2>4 DEF UpdateObject, Building, At, Fail, Report, TypeOK
  <2>5. CASE RemoveObject(o)
    <3>1. o \notin Reported(worker.vc.spec)
      BY <1>1, <2>5, ReportedKinds DEF RemoveObject, Asked
    <3> QED  BY <2>2, <2>5, <3>1 DEF RemoveObject, At
  <2>6. CASE KeepObject(o)
    <3>1. worker.pc = o /\ host' = host /\ seen[o] # 0 /\ ~NeedsUpdate(o)
      BY <2>6 DEF KeepObject, Building, At
    <3>2. o \in Reported(worker.vc.spec) => InPlace[o][seen[o]] = InPlace[o][worker.vc.spec]
      BY <1>1, <3>1, ReportedKinds DEF NeedsUpdate, Outdated
    <3>3. host[o] # 0 => seen[o] \in Specs /\ host[o] \in seen[o]..worker.vc.spec
      BY <1>1, <2>1, <3>1, Copies DEF NewestInv, Specs
    <3>4. NoReverts /\ o \in Reported(worker.vc.spec) /\ host[o] # 0 =>
            InPlace[o][host[o]] = InPlace[o][worker.vc.spec]
      BY <1>1, <2>1, <3>2, <3>3 DEF NoReverts
    <3> QED  BY <3>1, <3>4 DEF AppliedTo
  <2> QED  BY <1>4, <2>3, <2>4, <2>5, <2>6
<1>5. ASSUME NEW o \in Objects, CreateObject(o) \/ KeepObject(o) \/ UpdateObject(o) \/ RemoveObject(o)
      PROVE  worker'.pc = "status" => worker'.phase = "Failed"
  <2>1. o # "readiness"
    BY ObjectsAssumption DEF Kinds, CreateOnly, Clusterwide, Optional
  <2>2. worker.pc = o /\ (Continue \/ Fail("refused"))
    BY <1>5 DEF CreateObject, KeepObject, UpdateObject, RemoveObject, Building, At
  <2>3. StepAfter[worker.pc] \in Ensures
    BY <1>1, <2>1, <2>2, StepAfterIsNext
  <2> QED  BY <2>2, <2>3, StepKinds DEF Continue, Fail, Report, TypeOK
<1>6. ASSUME NEW o \in Objects, CreateObject(o) \/ KeepObject(o) \/ UpdateObject(o) \/ RemoveObject(o)
      PROVE  /\ \A p \in Kinds : \/ host'[p] = host[p]
                                 \/ p \in Objects /\ p = worker.pc /\ host'[p] \in {0, worker.vc.spec}
             /\ NoReverts /\ worker.pc \in Objects /\ worker.pc \in Reported(worker.vc.spec)
                  /\ worker'.pc \in Ensures => AppliedTo(worker.pc)
             /\ worker'.pc = "status" /\ worker'.phase = "Running" => host' = host
  <2>1. worker.pc = o
    BY <1>4, <1>6
  <2>2. \A p \in Kinds : host'[p] = host[p] \/ (p = o /\ host'[p] \in {0, worker.vc.spec})
    BY <1>4, <1>6
  <2>3. NoReverts /\ o \in Reported(worker.vc.spec) /\ worker'.pc # "status" => AppliedTo(o)
    BY <1>4, <1>6
  <2>4. worker'.pc = "status" => worker'.phase = "Failed"
    BY <1>5, <1>6
  <2>5. worker'.vc = worker.vc
    BY <1>6, EnsureMoves DEF Ensure
  <2> QED  BY <2>1, <2>2, <2>3, <2>4, <2>5, StepKinds
<1> QED  BY <1>2, <1>3, <1>6 DEF Ensure

LEMMA EnsureStep ==
  ASSUME IInv, TypeOK', Ensure \/ EnsureFails
  PROVE  IInv'
<1> USE DEF IInv
<1>1. /\ worker.pc \in Ensures /\ UNCHANGED <<cr, crCache, seen, skipped, specs>>
      /\ worker'.vc = worker.vc
      /\ \/ worker.pc # "readiness" /\ worker'.pc = StepAfter[worker.pc] /\ worker'.pc \in Ensures
         \/ worker'.pc = "status" /\ worker'.phase = "Failed"
         \/ worker'.pc = "status" /\ worker'.phase = "Pending" /\ worker'.why \in NotReady
         \/ worker.pc = "readiness" /\ worker'.pc = "status" /\ worker'.phase = "Running"
  BY EnsureMoves DEF EnsureRest
<1>2. /\ Working /\ Working' /\ worker.vc \in Resources /\ worker.vc.spec \in Specs
      /\ worker.vc.spec \in Nat /\ worker.vc.spec > 0
      /\ worker'.pc \in Ensures \cup {"status"} /\ worker'.pc \notin Deletes \cup {"finalize"}
  <2>1. worker'.pc \in Ensures \cup {"status"}
    BY <1>1
  <2>2. worker'.pc \notin Deletes \cup {"finalize", "idle"}
    BY <2>1, StepKinds DEF Deletes
  <2>3. Working
    BY <1>1, StepKinds DEF Working
  <2> QED  BY <2>1, <2>2, <2>3, Copies, Numbers DEF Working
<1>3. Held /\ (Held' <=> Held)
  BY <1>1 DEF FinalizerInv, Held
<1>4. CopyInv'
  BY <1>1, <1>2 DEF CopyInv, OlderCopy
<1>5. StepInv'
  <2>1. ~worker.vc.deleting /\ worker.vc.finalizer
    BY <1>1 DEF StepInv
  <2>2. worker'.pc = "status" =>
          \/ worker'.phase = "Pending" /\ worker'.why \in NotReady
          \/ worker'.phase \in {"Running", "Failed"}
    BY <1>1, StepKinds
  <2> QED  BY <1>1, <1>2, <2>1, <2>2 DEF StepInv
<1>6. FinalizerInv'
  BY <1>1, <1>3 DEF FinalizerInv
<1>7. CleanInv'
  BY <1>2, <1>3, StepKinds DEF CleanInv, Deletes
<1>8. NewestInv'
  <2>1. Newest' = Newest /\ Newest \in Nat /\ worker.vc.spec <= Newest
    BY <1>1, <1>2, NewestAtServer DEF Newest, NewestInv
  <2>2. \A o \in Kinds : /\ seen[o] \in Nat /\ seen[o] <= worker.vc.spec
                         /\ host'[o] = host[o] \/ host'[o] \in {0, worker.vc.spec}
                         /\ host[o] \in Nat /\ host[o] <= worker.vc.spec
                         /\ host[o] # 0 => seen[o] <= host[o]
    BY <1>2, Numbers, EnsureHost DEF NewestInv
  <2>3. \A o \in Kinds : /\ host'[o] <= worker.vc.spec
                         /\ host'[o] # 0 => seen[o] <= host'[o]
    BY <1>2, <2>2
  <2>4. \A o \in Kinds : /\ host'[o] \in Nat /\ host'[o] <= Newest /\ seen[o] <= Newest
    BY <1>2, <2>1, <2>2
  <2>5. \A o \in Kinds \ Objects : host'[o] = 0
    BY EnsureHost DEF NewestInv
  <2> QED  BY <1>1, <1>2, <2>1, <2>2, <2>3, <2>4, <2>5 DEF NewestInv
<1>9. AppliedInv'
  <2>1. Reported(worker.vc.spec)' = Reported(worker.vc.spec)
    BY <1>1 DEF Reported
  <2>9. Reported(worker.vc.spec) \subseteq Kinds
    BY <1>2, ReportedKinds
  <2>2. ASSUME NoReverts, worker'.pc \in Ensures, worker'.pc = StepAfter[worker.pc], worker.pc # "readiness",
               NEW o \in Reported(worker.vc.spec) \cap Objects, Place[o] < Place[worker'.pc]
        PROVE  Applied(o, worker.vc.spec)'
    <3>1. o = worker.pc \/ Place[o] < Place[worker.pc]
      BY <1>1, <2>2, StepAfterIsNext DEF Ensures
    <3>2. CASE o = worker.pc
      <4>1. AppliedTo(worker.pc)
        BY <2>2, <3>2, EnsureHost
      <4> QED  BY <1>1, <3>2, <4>1 DEF Applied, AppliedTo
    <3>3. CASE o # worker.pc
      <4>1. Applied(o, worker.vc.spec) /\ o \in Kinds
        BY <1>1, <2>9, <2>2, <3>1, <3>3 DEF AppliedInv
      <4>2. host'[o] = host[o]
        BY <3>3, <4>1, EnsureHost
      <4> QED  BY <1>1, <4>1, <4>2 DEF Applied
    <3> QED  BY <3>2, <3>3
  <2>3. ASSUME NoReverts, worker'.pc = "status", worker'.phase = "Running",
               NEW o \in Reported(worker.vc.spec)
        PROVE  Applied(o, worker.vc.spec)'
    <3>1. host' = host /\ worker.pc = "readiness" /\ o \in Kinds
      BY <1>1, <2>9, <2>3, EnsureHost, StepKinds
    <3>2. CASE o \in Objects
      <4>1. Place[o] < Place["readiness"]
        BY <3>1, <3>2, Places DEF Kinds, CreateOnly, Clusterwide, Optional
      <4>2. Applied(o, worker.vc.spec)
        BY <1>1, <2>3, <3>1, <3>2, <4>1 DEF AppliedInv
      <4> QED  BY <1>1, <3>1, <4>2 DEF Applied
    <3>3. CASE o \notin Objects
      BY <3>1, <3>3 DEF Applied, NewestInv
    <3> QED  BY <3>2, <3>3
  <2> QED
    <3>1. worker'.pc = "status" => worker'.pc \notin Ensures
      BY StepKinds
    <3>2. worker'.pc \in Ensures => worker'.pc = StepAfter[worker.pc] /\ worker.pc # "readiness"
      BY <1>1, <3>1
    <3> QED  BY <1>1, <2>1, <2>2, <2>3, <3>2 DEF AppliedInv, Applied
<1>10. ObservedInv'
  BY <1>1, <1>2 DEF ObservedInv
<1>11. NothingForgotten'
  BY <1>2 DEF NothingForgotten, Working
<1>12. RunningIsApplied'
  <2>1. ASSUME NoReverts, cr # None, cr.phase = "Running", NEW o \in Reported(cr.observed)
        PROVE  Applied(o, cr.observed)'
    <3>1. cr.observed \in Specs /\ cr.observed <= worker.vc.spec /\ cr.observed \in Nat
      BY <1>2, <2>1, Numbers, Copies DEF ObservedInv, Specs
    <3>2. o \in Kinds
      BY <2>1, <3>1, ReportedKinds
    <3>3. CASE host'[o] = host[o]
      BY <1>1, <2>1, <3>3 DEF RunningIsApplied, Applied
    <3>4. CASE host'[o] \in {0, worker.vc.spec}
      BY <1>1, <1>2, <3>1, <3>4 DEF Applied
    <3> QED  BY <3>2, <3>3, <3>4, EnsureHost
  <2> QED  BY <1>1, <2>1 DEF RunningIsApplied, Reported, Applied
<1> QED  BY <1>4, <1>5, <1>6, <1>7, <1>8, <1>9, <1>10, <1>11, <1>12

\* A deletion leaves what it removes out of "skipped", and puts in what it does not
\* see or cannot remove.
LEMMA DeleteRbacStep ==
  ASSUME IInv, TypeOK',
         NEW step \in {"unbind", "unrole"}, NEW o \in Clusterwide,
         NEW next \in {"unrole", "unspace"},
         \/ step = "unbind" /\ o = "clusterrolebinding" /\ next = "unrole"
         \/ step = "unrole" /\ o = "clusterrole" /\ next = "unspace",
         DeleteClusterwide(step, o, next) \/ DeleteRbacFails(step, o, next)
  PROVE  IInv'
<1> USE DEF IInv
<1>1. /\ worker.pc = step /\ worker'.pc = next /\ worker'.vc = worker.vc
      /\ UNCHANGED <<cr, crCache, ns, seen, specs>>
  BY DEF DeleteClusterwide, DeleteRbacFails, At, Write, hostVars, seenVars, TypeOK
<1>2. /\ \A p \in Kinds : host'[p] = host[p] \/ (p = o /\ host'[p] = 0)
      /\ host'[o] # 0 => o \in skipped'
      /\ \A p \in Kinds \cup {"namespace"} : p # o /\ p \in skipped => p \in skipped'
  BY DEF DeleteClusterwide, DeleteRbacFails, Write, hostVars, TypeOK, Kinds, CreateOnly
<1>3. /\ {"clusterrole", "clusterrolebinding"} \subseteq Kinds /\ o # "namespace"
      /\ step \in Deletes /\ next \in Deletes
  BY DEF Kinds, CreateOnly, Clusterwide, Deletes
<1>4. /\ worker'.pc \notin Ensures \cup {"status", "finalize"} /\ worker.vc.deleting
      /\ Working /\ Working'
  BY <1>1, <1>3, StepKinds DEF StepInv, Working, Deletes
<1>5. /\ CopyInv' /\ NewestInv' /\ ObservedInv' /\ RunningIsApplied'
      /\ Held' <=> Held
  BY <1>1, <1>2, <1>4, HostShrinks
<1>6. StepInv' /\ AppliedInv'
  BY <1>1, <1>4 DEF StepInv, AppliedInv
<1>7. FinalizerInv'
  BY <1>1, <1>4, <1>5 DEF FinalizerInv
<1>8. /\ BindingGone \/ o = "clusterrolebinding" => BindingGone'
      /\ RoleGone \/ o = "clusterrole" => RoleGone'
      /\ NamespaceLeft => NamespaceLeft'
  BY <1>1, <1>2, <1>3 DEF BindingGone, RoleGone, NamespaceLeft
<1>9. CleanInv'
  <2>1. worker.pc = "unrole" => BindingGone
    BY DEF CleanInv
  <2>2. worker'.pc \in {"unrole", "unspace"} /\ worker'.pc # "release"
    BY <1>1
  <2>3. BindingGone'
    BY <1>1, <1>8, <2>1
  <2>4. worker'.pc = "unspace" => RoleGone'
    BY <1>1, <1>8
  <2>5. ~Held' => BindingGone' /\ RoleGone' /\ NamespaceLeft'
    BY <1>5, <1>8 DEF CleanInv
  <2> QED  BY <2>2, <2>3, <2>4, <2>5 DEF CleanInv
<1>10. NothingForgotten'
  BY <1>4 DEF NothingForgotten, Working
<1> QED  BY <1>5, <1>6, <1>7, <1>9, <1>10

LEMMA DeleteNamespaceStep ==
  ASSUME IInv, TypeOK', DeleteNamespace
  PROVE  IInv'
<1> USE DEF IInv
<1>1. /\ worker.pc = "unspace" /\ worker'.pc = "release" /\ worker'.vc = worker.vc
      /\ UNCHANGED <<cr, crCache, host, seen, specs>>
      /\ ns' = "active" => ns = "active" /\ "namespace" \in skipped'
      /\ \A p \in Kinds : p \in skipped => p \in skipped'
  BY DEF DeleteNamespace, WriteNamespace, At, hostVars, seenVars, TypeOK, Kinds, CreateOnly,
         Clusterwide, Optional
<1>2. /\ worker'.pc \notin Ensures \cup {"status", "finalize"} /\ worker.vc.deleting
      /\ Working /\ Working'
  BY <1>1, StepKinds DEF StepInv, Working, Deletes
<1>3. /\ CopyInv' /\ NewestInv' /\ ObservedInv' /\ RunningIsApplied'
      /\ Held' <=> Held
  BY <1>1, <1>2, HostShrinks
<1>4. StepInv' /\ AppliedInv'
  BY <1>1, <1>2 DEF StepInv, AppliedInv
<1>5. FinalizerInv'
  BY <1>1, <1>2, <1>3 DEF FinalizerInv
<1>6. CleanInv'
  <2>1. {"clusterrole", "clusterrolebinding"} \subseteq Kinds
    BY DEF Kinds, CreateOnly, Clusterwide
  <2>2. BindingGone /\ RoleGone
    BY <1>1 DEF CleanInv
  <2>3. BindingGone' /\ RoleGone' /\ NamespaceLeft'
    BY <1>1, <2>1, <2>2 DEF BindingGone, RoleGone, NamespaceLeft
  <2> QED  BY <2>3 DEF CleanInv
<1>7. NothingForgotten'
  BY <1>2 DEF NothingForgotten, Working
<1> QED  BY <1>3, <1>4, <1>5, <1>6, <1>7

LEMMA Invariance ==
  ASSUME IInv, [Next]_vars
  PROVE  IInv'
<1>1. TypeOK'
  BY TypeStep DEF IInv
<1>2. CASE Delete
  BY <1>1, <1>2, DeleteRbacStep, DeleteNamespaceStep, RemoveFinalizerStep
  DEF Delete, DeleteRbac, Clusterwide
<1>3. CASE Faults
  <2>1. CASE ReconcileFails
    BY <1>1, <2>1, BackOff DEF ReconcileFails, hostVars, seenVars
  <2>2. CASE DeleteRbacFails("unbind", "clusterrolebinding", "unrole")
    BY <1>1, <2>2, DeleteRbacStep DEF Clusterwide
  <2>3. CASE DeleteRbacFails("unrole", "clusterrole", "unspace")
    BY <1>1, <2>3, DeleteRbacStep DEF Clusterwide
  <2> QED  BY <1>1, <1>3, <2>1, <2>2, <2>3, HostStep, EnsureStep, RestartStep DEF Faults
<1>4. CASE UNCHANGED vars
  BY <1>1, <1>4, Frame DEF vars, hostVars, seenVars
<1> QED
  BY <1>1, <1>2, <1>3, <1>4, UserStep, HostStep, InformersStep, TimerStep, GetStep,
     AddFinalizerStep, UpdateStatusStep, EnsureStep
  DEF Next, Reconcile

LEMMA Initially == Init => IInv
<1> SUFFICES ASSUME Init PROVE IInv
  OBVIOUS
<1>1. TypeOK
  <2>1. 0 \in 0..MaxSpecs /\ 0 \in 0..MaxFaults
    BY SpecsAssumption, BoundsAssumption
  <2> QED  BY <2>1 DEF Init, Idle, TypeOK, NamespaceStates, Phases, Whys
<1>2. worker.pc = "idle" /\ ~Working /\ worker.pc \notin Ensures \cup {"status", "finalize"} \cup Deletes
  BY StepKinds DEF Init, Idle, Working, Deletes
<1>3. CopyInv /\ StepInv /\ FinalizerInv /\ ObservedInv /\ NothingForgotten /\ RunningIsApplied
  BY <1>2 DEF Init, CopyInv, OlderCopy, StepInv, FinalizerInv, ObservedInv, NothingForgotten,
              RunningIsApplied
<1>4. CleanInv /\ AppliedInv
  BY <1>2 DEF Init, CleanInv, Held, BindingGone, RoleGone, NamespaceLeft, AppliedInv, Kinds,
              CreateOnly, Clusterwide
<1>5. NewestInv
  BY <1>2 DEF Init, NewestInv, Newest
<1> QED  BY <1>1, <1>3, <1>4, <1>5 DEF IInv

-----------------------------------------------------------------------------
(* The theorems.                                                           *)

\* The inductive invariant holds in every state of the operator.
THEOREM Invariant == Spec => []IInv
BY Initially, Invariance, PTL DEF Spec

\* Every variable has its type, a reconcile under way has a resource to work on, and
\* a namespace that is gone has taken its objects with it.
THEOREM TypesHold == Spec => []TypeOK
<1>1. IInv => TypeOK
  BY DEF IInv
<1> QED  BY <1>1, Invariant, PTL

\* A resource that has to go, lacks its finalizer or is not known to run or to have
\* failed is always in the queue, on a timer, in a reconcile or about to be queued:
\* every return of Reconcile requeues it, or leaves the informer an event to deliver.
THEOREM NeverForgotten == Spec => []NothingForgotten
<1>1. IInv => NothingForgotten
  BY DEF IInv
<1> QED  BY <1>1, Invariant, PTL

\* A status of Running is about objects that are as new as the spec it names, or say what it
\* says in every field reconciled in place, however stale the copies were that Reconcile read
\* and wherever a call of it failed, as long as no value comes back.
THEOREM SuccessIsApplied == Spec => []RunningIsApplied
<1>1. IInv => RunningIsApplied
  BY DEF IInv
<1> QED  BY <1>1, Invariant, PTL

\* reconcileDelete lets a resource go only once it has removed the namespace and the
\* cluster-wide RBAC, except what its cache did not show or an ignored error kept.
THEOREM DeletionsAreComplete == Spec => []DeletionIsComplete
<1>1. IInv => DeletionIsComplete
  BY DEF IInv, CleanInv, Held, BindingGone, RoleGone, NamespaceLeft, DeletionIsComplete, Clusterwide
<1> QED  BY <1>1, Invariant, PTL
=============================================================================
