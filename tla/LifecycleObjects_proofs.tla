----------------------- MODULE LifecycleObjects_proofs -----------------------
(***************************************************************************)
(* Theorems about Lifecycle, for every set of plans, of hosts and of       *)
(* namespaces, and any number of faults: types, the certificate of an      *)
(* advertised host, the mode of server and agents, what a delete leaves.   *)
(*                                                                         *)
(* The properties speak of moments when nothing is under way; the          *)
(* inductive invariant says what holds until then.  CertInv, AgentsInv and *)
(* ModeInv say of two objects that they agree or that somebody is still to *)
(* bring them together: the command that changed one of them, or a         *)
(* reconcile that is to come and has not passed its step (Pends).  They    *)
(* rest on ServerInv, what a reconcile has done so far is what its copy of *)
(* the resource asks for, and on MakerInv, who makes a cluster without a   *)
(* resource is alone.                                                      *)
(*                                                                         *)
(* The steps are first summed up by what they do to the resources and the  *)
(* operator's queue: Touched for commands and the host, and Advances,      *)
(* Reports, Drops for the worker, so that most lemmas have a few cases and *)
(* not one for each action.                                                *)
(***************************************************************************)
EXTENDS Lifecycle, FiniteSetTheorems, TLAPS

\* A command that makes the cluster directly is past its namespace.
Making(c) == c.op = "create" /\ pc[c] \in {"account", "rbac", "services", "server", "agents"}

\* Nothing went wrong of these sorts.
Clean(sorts) == lapses \cap sorts = {}

\* What a step relies on.
CommandInv ==
  \A c \in Commands :
    /\ pc[c] = "san" => c.op = "expose" /\ c.opts.host # NoHost
    /\ pc[c] = "deleteCR" => found[c] \in CrNamespaces

\* The finalizer comes first, and what the worker has in hand keeps it.
ResourceInv ==
  /\ \A n \in Existing : crs[n].deleting \/ crs[n].phase # "" => crs[n].finalizer
  /\ schema = "manifests" => \A n \in Existing : crs[n].asked = crs[n].spec.vnode
  /\ work # Idle => /\ crs[work.n].finalizer /\ work.cr.finalizer
                    /\ crs[work.n].spec = work.cr.spec \/ work.n \in queued
  /\ work.step \in Ensures \cup {"status"} => ~work.cr.deleting
  /\ work.step \in {"unbind", "unspace", "release"} => work.cr.deleting /\ crs[work.n].deleting

\* A resource that is being deleted waits for the operator or is in its hands.
DeletingInv ==
  pod => \A n \in CrNamespaces :
    Deleting(n) => n \in queued \/ (work.n = n /\ work.step \in {"unbind", "unspace", "release"})

\* A reconcile of the resource is to come, or under way and not past these steps.
Pends(n, steps) ==
  /\ crs[n] # None /\ crs[n].finalizer
  /\ \/ ~pod \/ n \in queued \/ crs[n].deleting
     \/ IF work.n = n THEN work.step \in steps ELSE crs[n].phase # "Running"

\* One of these is to come for some resource.  The Ingress is made by the last of ToIngress.
Pending(steps) == \E n \in CrNamespaces : Pends(n, steps)
ToIngress == Ensures \ {"agents"}

\* Expose is about to add the host to the server's certificate.
SanPending == \E c \in Commands : pc[c] = "san" /\ c.opts.host = host.ing

\* Who makes a cluster directly is alone with what it has made.
MakerInv ==
  Clean({"mixed"}) => \A c \in Commands : Making(c) =>
    /\ Existing = {}
    /\ \A d \in Commands : Making(d) => d = c
    /\ pc[c] # "agents" =>
         /\ host.sts = None /\ ~host.agents
         /\ Clean({"unread"}) /\ host.ing \in Hosts =>
              SanPending \/ (pc[c] = "server" /\ c.opts.host = host.ing)
    /\ pc[c] = "agents" /\ host.sts # None => host.sts.args.vnode

\* What reconcileDelete has passed is going away, or was not there.
ReleaseInv ==
  /\ Clean({"mixed"}) /\ work.step = "release" => host.ns # "present"
  /\ Clean({"mixed", "rights"}) /\ work.step \in {"unspace", "release"} => ~host.role

\* What a reconcile has passed is as its copy asks for.
ServerInv ==
  Clean({"stale", "mixed"}) /\ host.sts # None =>
    /\ work.step \in {"ingress", "agents"} =>
         /\ host.sts.args.vnode = work.cr.spec.vnode
         /\ work.cr.spec.host \in Hosts => HasSan(host.sts.args, work.cr.spec.host)
    /\ work.step = "status" => host.agents = work.cr.spec.vnode

\* An Ingress without its host in the certificate has somebody who brings it there.
CertInv ==
  /\ Clean({"unread", "stale", "mixed"})
  /\ host.sts # None /\ host.ing \in Hosts /\ ~HasSan(host.sts.args, host.ing)
  => host.ns = "terminating" \/ SanPending \/ Pending(ToIngress)

\* A create stopped half-way.
CreateFailed == \E c \in Commands : c.op = "create" /\ pc[c] = "failed"

\* The syncer follows the server, but for the environment the operator leaves as it was.
EnvInv == host.sts # None => host.sts.env.vnode = host.sts.args.vnode \/ "flipped" \in lapses

\* A server whose agents are of the other mode has somebody who makes or removes them.
AgentsInv ==
  /\ Clean({"stale", "mixed"}) /\ ~CreateFailed
  /\ host.sts # None /\ host.agents # host.sts.args.vnode
  => \/ host.ns = "terminating" \/ Pending(Ensures)
     \/ \E c \in Commands : c.op = "create" /\ pc[c] = "agents"

\* So have agents that are not of the mode of a resource that says it runs.
ModeInv ==
  Clean({"stale", "mixed"}) /\ host.sts # None =>
    \A n \in Existing : crs[n].phase = "Running" /\ host.agents # crs[n].spec.vnode =>
      \/ host.ns = "terminating" \/ Pends(n, Ensures)
      \/ \E m \in Existing \ {n} : crs[m].finalizer

ObjectsInv ==
  /\ TypeOK /\ CommandInv /\ ResourceInv /\ DeletingInv /\ MakerInv /\ ReleaseInv /\ ServerInv
  /\ CertInv /\ EnvInv /\ AgentsInv /\ ModeInv

\* From the time a delete is asked for nobody makes a cluster.
DeleteInv ==
  /\ \A d \in deleted.asked : d.op = "delete"
  /\ deleted.done => deleted.asked # {}
  /\ deleted.asked # {} => ~Running("create")
  /\ Clean({"rights", "lookup", "bare", "twins", "mixed"}) =>
       /\ \A d \in deleted.asked :
            /\ pc[d] = "deleteCR" => Existing \subseteq {found[d]}
            /\ pc[d] = "unbind" => Existing = {}
            /\ pc[d] = "deleteNs" => Existing = {} /\ ~host.role
       /\ deleted.done =>
            \/ Existing = {} /\ host.ns # "present" /\ ~host.role
            \/ \E n \in CrNamespaces : Existing = {n} /\ crs[n].deleting

-----------------------------------------------------------------------------
(* Types.                                                                  *)

PlaceTypes ==
  /\ Commands \in Plans /\ pc \in [Commands -> CommandSteps]
  /\ found \in [Commands -> CrNamespaces \cup {0}]

InstallTypes ==
  /\ crd \in ObjectStates /\ schema \in {"cli", "manifests"}
  /\ opNs \in ObjectStates /\ parts \subseteq Parts
  /\ opNs = "absent" => parts \subseteq {"rbac"}
  /\ alone \in BOOLEAN /\ faults \in 0..MaxFaults

ResourceTypes ==
  /\ crs \in [CrNamespaces -> VirtualClusters \cup {None}] /\ queued \subseteq CrNamespaces
  /\ crd = "absent" => Existing = {}

HostTypes ==
  /\ host \in HostObjects
  /\ host.ns = "absent" => host = Emptied(host.role)

WorkTypes ==
  /\ DOMAIN seen = Cached
  /\ work = Idle \/ (/\ work \in [step : WorkSteps, n : CrNamespaces, cr : VirtualClusters]
                      /\ crs[work.n] # None)
  /\ pod \in BOOLEAN /\ (~pod => work = Idle /\ queued = {})

HistoryTypes == deleted \in [asked : SUBSET Commands, done : BOOLEAN] /\ lapses \subseteq Lapses

LEMMA TypeParts ==
  TypeOK <=> /\ FileTypeOK /\ PlaceTypes /\ InstallTypes /\ ResourceTypes /\ HostTypes
             /\ WorkTypes /\ HistoryTypes
BY DEF TypeOK, PlaceTypes, InstallTypes, ResourceTypes, HostTypes, WorkTypes, HistoryTypes

LEMMA TypePartsNext ==
  TypeOK' <=> /\ FileTypeOK' /\ PlaceTypes' /\ InstallTypes' /\ ResourceTypes' /\ HostTypes'
              /\ WorkTypes' /\ HistoryTypes'
BY DEF TypeOK, PlaceTypes, InstallTypes, ResourceTypes, HostTypes, WorkTypes, HistoryTypes

LEMMA CommandTyped ==
  ASSUME TypeOK, NEW c \in Commands
  PROVE  /\ c.op \in Ops /\ c.at \in CrNamespaces /\ c.opts \in Options
         /\ pc[c] \in CommandSteps
<1>1. Commands \in Plans /\ pc \in [Commands -> CommandSteps]
  BY DEF TypeOK
<1>2. c \in UNION Plans
  BY <1>1
<1> QED  BY <1>1, <1>2, CommandsAssumption

LEMMA Moves ==
  ASSUME TypeOK, NEW c \in Commands, NEW step \in CommandSteps, GoTo(c, step)
  PROVE  /\ Commands' = Commands /\ pc' \in [Commands -> CommandSteps]
         /\ pc'[c] = step /\ \A d \in Commands \ {c} : pc'[d] = pc[d]
BY DEF TypeOK, GoTo, Commands

\* Which step a command goes to.
LEMMA CommandMoves ==
  ASSUME NEW c \in Commands, Command(c)
  PROVE  \E step \in CommandSteps : GoTo(c, step)
<1>1. CASE Install(c)
  BY <1>1 DEF Install, InstallCRD, EnsureNamespaceExists, EnsureOperatorServiceAccount,
              EnsureOperatorRBAC, EnsureOperatorDeployment, EnsurePart, CommandSteps, Resting
<1>2. CASE Uninstall(c)
  BY <1>2 DEF Uninstall, DeleteDeployment, DeleteRights, DeleteOperatorNamespace, UninstallCRD,
              CommandSteps, Resting
<1>3. CASE Create(c)
  BY <1>3 DEF Create, ResolveCreateMode, CreateVirtualClusterCR, CreateNamespace,
              CreateServiceAccount, CreateRBAC, CreateServices, CreateStatefulSet,
              CreateVNodeStatefulSet, OnHost, CommandSteps, Resting
<1>4. CASE Delete(c)
  BY <1>4 DEF Delete, CheckOperator, FindVirtualClusterCR, DeleteVirtualClusterCR,
              DeleteClusterRBAC, DeleteNamespace, OnHost, CommandSteps, Resting
<1>5. CASE Expose(c)
  BY <1>5 DEF Expose, ExposeService, ExposeIngress, AfterIngress, ExposeTlsSan, OnHost, CommandSteps,
              Resting
<1>6. CASE ConnectStarts(c) \/ AwaitReady(c) \/ AwaitAddress(c) \/ GiveUp(c)
  BY <1>6 DEF ConnectStarts, AwaitReady, AwaitAddress, GiveUp, OnHost, CommandSteps, Resting
<1>7. CASE Load(c) \/ Write(c)
  BY <1>7 DEF Load, Write, OnFile, CommandSteps, Resting
<1>8. CASE EditSpec(c) \/ FailCommand(c)
  BY <1>8 DEF EditSpec, FailCommand, OnHost, CommandSteps, Resting
<1> QED  BY <1>1, <1>2, <1>3, <1>4, <1>5, <1>6, <1>7, <1>8 DEF Command, Installing

\* The namespace a delete found its resource in is its own.
LEMMA FoundMoves ==
  ASSUME NEW c \in Commands, Command(c)
  PROVE  \/ FindVirtualClusterCR(c)
         \/ found' = found
<1>1. CASE Create(c)
  BY <1>1 DEF Create, ResolveCreateMode, CreateVirtualClusterCR, CreateNamespace,
              CreateServiceAccount, CreateRBAC, CreateServices, CreateStatefulSet,
              CreateVNodeStatefulSet, OnHost
<1>2. CASE Delete(c)
  BY <1>2 DEF Delete, CheckOperator, DeleteVirtualClusterCR,
              DeleteClusterRBAC, DeleteNamespace, OnHost
<1>3. CASE Expose(c)
  BY <1>3 DEF Expose, ExposeService, ExposeIngress, ExposeTlsSan, OnHost
<1> QED  BY <1>1, <1>2, <1>3 DEF Command, Installing, lifeVars, ConnectStarts, AwaitReady,
              AwaitAddress, GiveUp, Load, Write, EditSpec, FailCommand, OnHost, OnFile

LEMMA CommandPlaces ==
  ASSUME TypeOK, NEW c \in Commands, Command(c)
  PROVE  PlaceTypes'
<1>1. Commands' = Commands /\ pc' \in [Commands -> CommandSteps]
  BY CommandMoves, Moves
<1>2. found' \in [Commands -> CrNamespaces \cup {0}]
  BY FoundMoves DEF FindVirtualClusterCR, TypeOK, Existing
<1> QED  BY <1>1, <1>2 DEF PlaceTypes, TypeOK

\* The file and its copies.
LEMMA CommandFile ==
  ASSUME TypeOK, NEW c \in Commands, Command(c)
  PROVE  FileTypeOK'
<1>1. Commands' = Commands
  BY CommandMoves, Moves
<1>2. FileTypeOK
  BY DEF TypeOK
<1>3. CASE UNCHANGED fileVars
  BY <1>1, <1>2, <1>3 DEF FileTypeOK, fileVars
<1>4. CASE Load(c)
  BY <1>1, <1>2, <1>4 DEF Load, LoadAndMerge, LoadAndRemove, NothingToRemove, Loaded,
                          fileVars, FileTypeOK, Contexts
<1>5. CASE Write(c)
  <2>1. CASE Truncate
    BY <1>1, <1>2, <2>1 DEF Truncate, FileTypeOK
  <2>2. CASE WriteContexts(c)
    <3>1. copy[c] \in SUBSET Contexts
      BY <1>2 DEF FileTypeOK
    <3>2. file' \in [contexts : SUBSET Contexts, partial : BOOLEAN]
      BY <2>2, <3>1 DEF WriteContexts
    <3>3. copy' \in [Commands -> SUBSET Contexts]
      BY <1>2, <2>2 DEF WriteContexts, FileTypeOK
    <3> QED  BY <1>1, <3>2, <3>3 DEF FileTypeOK
  <2> QED  BY <1>5, <2>1, <2>2 DEF Write
<1>6. CASE Create(c)
  <2>1. UNCHANGED fileVars
    BY <1>6 DEF Create, ResolveCreateMode, CreateVirtualClusterCR, CreateNamespace,
                CreateServiceAccount, CreateRBAC, CreateServices, CreateStatefulSet,
                CreateVNodeStatefulSet, OnHost, fileVars
  <2> QED  BY <1>3, <2>1
<1>7. CASE Delete(c)
  <2>1. UNCHANGED fileVars
    BY <1>7 DEF Delete, CheckOperator, FindVirtualClusterCR, DeleteVirtualClusterCR,
                DeleteClusterRBAC, DeleteNamespace, OnHost, fileVars
  <2> QED  BY <1>3, <2>1
<1>8. CASE Expose(c)
  <2>1. UNCHANGED fileVars
    BY <1>8 DEF Expose, ExposeService, ExposeIngress, ExposeTlsSan, OnHost, fileVars
  <2> QED  BY <1>3, <2>1
<1> QED  BY <1>3, <1>4, <1>5, <1>6, <1>7, <1>8 DEF Command, Installing, lifeVars, ConnectStarts,
              AwaitReady, AwaitAddress, GiveUp, EditSpec, FailCommand, OnHost, fileVars

\* What installing is about, and the faults.
LEMMA InstallTyped ==
  ASSUME TypeOK, Step
  PROVE  InstallTypes'
<1>1. InstallTypes /\ MaxFaults \in Nat
  BY FaultsAssumption DEF TypeOK, InstallTypes
<1>2. ASSUME UNCHANGED installVars, UNCHANGED faults \/ Fault
      PROVE  InstallTypes'
  BY <1>1, <1>2 DEF InstallTypes, installVars, Fault
<1>3. ASSUME NEW c \in Commands, Command(c)
      PROVE  InstallTypes'
  <2>1. CASE Install(c)
    <3>1. CASE InstallCRD(c)
      BY <1>1, <3>1 DEF InstallTypes, InstallCRD, ObjectStates
    <3>2. CASE EnsureNamespaceExists(c)
      BY <1>1, <3>2 DEF InstallTypes, EnsureNamespaceExists, ObjectStates
    <3>3. CASE EnsureOperatorRBAC(c)
      BY <1>1, <3>3 DEF InstallTypes, EnsureOperatorRBAC, Parts
    <3>4. ASSUME NEW part \in Parts, NEW next, EnsurePart(c, part, next)
          PROVE  InstallTypes'
      BY <1>1, <3>4 DEF InstallTypes, EnsurePart
    <3> QED  BY <2>1, <3>1, <3>2, <3>3, <3>4 DEF Install, EnsureOperatorServiceAccount,
                                              EnsureOperatorDeployment, Parts
  <2>2. CASE Uninstall(c)
    <3>1. parts' \subseteq parts /\ (UNCHANGED faults \/ Fault) /\ UNCHANGED schema /\ alone' \in BOOLEAN
      BY <1>1, <2>2 DEF Uninstall, DeleteDeployment, DeleteRights, DeleteOperatorNamespace,
                        UninstallCRD, InstallTypes
    <3>2. crd' \in ObjectStates
      BY <1>1, <2>2 DEF Uninstall, DeleteDeployment, DeleteRights, DeleteOperatorNamespace,
                        UninstallCRD, InstallTypes, ObjectStates
    <3>3. opNs' \in ObjectStates /\ (opNs' = "absent" => opNs = "absent")
      BY <1>1, <2>2 DEF Uninstall, DeleteDeployment, DeleteRights, DeleteOperatorNamespace,
                        UninstallCRD, InstallTypes, ObjectStates
    <3> QED  BY <1>1, <3>1, <3>2, <3>3 DEF InstallTypes, Fault
  <2>3. CASE Create(c)
    BY <1>2, <2>3 DEF Create, ResolveCreateMode, CreateVirtualClusterCR, CreateNamespace,
                CreateServiceAccount, CreateRBAC, CreateServices, CreateStatefulSet,
                CreateVNodeStatefulSet, OnHost
  <2>4. CASE Delete(c)
    BY <1>2, <2>4 DEF Delete, CheckOperator, FindVirtualClusterCR, DeleteVirtualClusterCR,
                DeleteClusterRBAC, DeleteNamespace, OnHost
  <2>5. CASE Expose(c)
    BY <1>2, <2>5 DEF Expose, ExposeService, ExposeIngress, ExposeTlsSan, OnHost
  <2> QED  BY <1>2, <1>3, <2>1, <2>2, <2>3, <2>4, <2>5 DEF Command, Installing, ConnectStarts,
              AwaitReady, AwaitAddress, GiveUp, Load, Write, EditSpec, FailCommand, OnHost, OnFile
<1>4. CASE Operator
  <2>1. UNCHANGED installVars
    BY <1>4 DEF Operator, Take, Apply, EnsureNamespace, EnsureRBAC, EnsureServices,
                EnsureStatefulSet, EnsureIngress, EnsureVNodeDeployment, CheckReadiness,
                FailEnsure, Release, ReleaseRBAC, ReleaseNamespace, RemoveFinalizer, LoseWork,
                CatchUp, OperatorStep
  <2>2. UNCHANGED faults \/ Fault
    BY <1>4 DEF Operator, Take, Apply, EnsureNamespace, EnsureRBAC, EnsureServices,
                EnsureStatefulSet, EnsureIngress, EnsureVNodeDeployment, CheckReadiness,
                FailEnsure, Release, ReleaseRBAC, ReleaseNamespace, RemoveFinalizer, LoseWork,
                CatchUp
  <2> QED  BY <1>2, <2>1, <2>2
<1>5. CASE EmptyNamespace \/ OperatorProcess
  BY <1>2, <1>5 DEF EmptyNamespace, OperatorProcess, OperatorStarts, OperatorStops,
                    OperatorCrashes, installVars
<1>6. CASE HostStep
  BY <1>1, <1>6 DEF HostStep, CrdRemoved, OperatorNamespaceRemoved, InstallTypes, ObjectStates, Parts
<1> QED  BY <1>3, <1>4, <1>5, <1>6 DEF Step

\* What goes wrong is never taken back.
LEMMA LapsesGrow ==
  ASSUME Step
  PROVE  lapses \subseteq lapses'
<1>1. ASSUME NEW c \in Commands, Command(c)
      PROVE  lapses \subseteq lapses'
  <2>1. CASE Create(c)
    BY <2>1 DEF Create, ResolveCreateMode, CreateVirtualClusterCR, CreateNamespace,
                CreateServiceAccount, CreateRBAC, CreateServices, CreateStatefulSet,
                CreateVNodeStatefulSet, Lapse
  <2>2. CASE Delete(c)
    BY <2>2 DEF Delete, CheckOperator, FindVirtualClusterCR, DeleteVirtualClusterCR,
                DeleteClusterRBAC, DeleteNamespace, Lapse
  <2>3. CASE Expose(c)
    BY <2>3 DEF Expose, ExposeService, ExposeIngress, ExposeTlsSan, Lapse
  <2> QED  BY <1>1, <2>1, <2>2, <2>3 DEF Command, Installing, lifeVars, historyVars, ConnectStarts,
              AwaitReady, AwaitAddress, GiveUp, Load, Write, EditSpec, FailCommand, Lapse
<1>2. CASE Operator
  <2>1. CASE Apply
    BY <2>1 DEF Apply, EnsureNamespace, EnsureRBAC, EnsureServices, EnsureStatefulSet,
                EnsureIngress, EnsureVNodeDeployment, CheckReadiness, Lapse
  <2>2. CASE Release
    BY <2>2 DEF Release, ReleaseRBAC, ReleaseNamespace, RemoveFinalizer, Lapse
  <2> QED  BY <1>2, <2>1, <2>2 DEF Operator, Take, FailEnsure, LoseWork, CatchUp
<1>3. CASE EmptyNamespace \/ OperatorProcess \/ HostStep
  BY <1>3 DEF EmptyNamespace, OperatorProcess, HostStep, lifeVars, historyVars
<1> QED  BY <1>1, <1>2, <1>3 DEF Step

LEMMA StaysClean ==
  ASSUME Step, NEW sorts, Clean(sorts)'
  PROVE  Clean(sorts)
BY LapsesGrow DEF Clean

\* A delete that starts or ends, or a create that starts, is what the history of deletes is about.
LEMMA DeletedBy ==
  ASSUME NEW c \in Commands, Command(c)
  PROVE  \/ deleted' = deleted
         \/ ResolveCreateMode(c) \/ CheckOperator(c) \/ DeleteVirtualClusterCR(c) \/ DeleteNamespace(c)
<1>1. CASE Create(c)
  BY <1>1 DEF Create, CreateVirtualClusterCR, CreateNamespace,
            CreateServiceAccount, CreateRBAC, CreateServices, CreateStatefulSet,
            CreateVNodeStatefulSet, OnHost
<1>2. CASE Delete(c)
  BY <1>2 DEF Delete, FindVirtualClusterCR, DeleteClusterRBAC, OnHost
<1>3. CASE Expose(c)
  BY <1>3 DEF Expose, ExposeService, ExposeIngress, ExposeTlsSan, OnHost
<1> QED  BY <1>1, <1>2, <1>3 DEF Command, Installing, lifeVars, historyVars, ConnectStarts,
          AwaitReady, AwaitAddress, GiveUp, Load, Write, EditSpec, FailCommand, OnHost, OnFile

LEMMA HistoryTyped ==
  ASSUME TypeOK, Step
  PROVE  HistoryTypes'
<1>1. deleted \in [asked : SUBSET Commands, done : BOOLEAN] /\ lapses \subseteq Lapses
  BY DEF TypeOK
<1>2. deleted' \in [asked : SUBSET Commands', done : BOOLEAN]
  <2>1. ASSUME NEW c \in Commands, Command(c)
        PROVE  deleted' \in [asked : SUBSET Commands, done : BOOLEAN]
    <3>1. CASE deleted' = deleted
      BY <1>1, <3>1
    <3>2. CASE ResolveCreateMode(c)
      BY <3>2 DEF ResolveCreateMode, Undeleted
    <3>3. CASE CheckOperator(c)
      BY <1>1, <3>3 DEF CheckOperator
    <3>4. CASE DeleteVirtualClusterCR(c) \/ DeleteNamespace(c)
      BY <1>1, <3>4 DEF DeleteVirtualClusterCR, DeleteNamespace
    <3> QED  BY <2>1, <3>1, <3>2, <3>3, <3>4, DeletedBy
  <2>2. ASSUME NEW c \in Commands, Command(c)
        PROVE  Commands' = Commands
    BY <2>2, CommandMoves, Moves
  <2>3. CASE Operator
    <3>1. UNCHANGED <<pc, deleted>>
      BY <2>3 DEF Operator, Take, Apply, EnsureNamespace, EnsureRBAC, EnsureServices,
                  EnsureStatefulSet, EnsureIngress, EnsureVNodeDeployment, CheckReadiness,
                  FailEnsure, Release, ReleaseRBAC, ReleaseNamespace, RemoveFinalizer, LoseWork,
                  CatchUp, OperatorStep
    <3> QED  BY <1>1, <3>1 DEF Commands
  <2>4. CASE EmptyNamespace \/ OperatorProcess \/ HostStep
    <3>1. UNCHANGED <<pc, deleted>>
      BY <2>4 DEF EmptyNamespace, OperatorProcess, OperatorStarts, OperatorStops, OperatorCrashes,
                  HostStep, CrdRemoved, OperatorNamespaceRemoved, lifeVars, historyVars
    <3> QED  BY <1>1, <3>1 DEF Commands
  <2> QED  BY <2>1, <2>2, <2>3, <2>4 DEF Step
<1>3. lapses' \subseteq Lapses
  <2>1. ASSUME NEW c \in Commands, Command(c)
        PROVE  lapses' \subseteq Lapses
    <3>1. CASE Create(c)
      BY <1>1, <3>1 DEF Create, ResolveCreateMode, CreateVirtualClusterCR, CreateNamespace,
                CreateServiceAccount, CreateRBAC, CreateServices, CreateStatefulSet,
                CreateVNodeStatefulSet, Lapse, Lapses
    <3>2. CASE Delete(c)
      BY <1>1, <3>2 DEF Delete, CheckOperator, FindVirtualClusterCR, DeleteVirtualClusterCR,
                DeleteClusterRBAC, DeleteNamespace, Lapse, Lapses
    <3>3. CASE Expose(c)
      BY <1>1, <3>3 DEF Expose, ExposeService, ExposeIngress, ExposeTlsSan, Lapse, Lapses
    <3> QED  BY <1>1, <2>1, <3>1, <3>2, <3>3 DEF Command, Installing, lifeVars, historyVars,
              ConnectStarts, AwaitReady, AwaitAddress, GiveUp, Load, Write, EditSpec, FailCommand,
              Lapse, Lapses
  <2>2. CASE Operator
    <3>1. CASE Apply
      BY <1>1, <3>1 DEF Apply, EnsureNamespace, EnsureRBAC, EnsureServices, EnsureStatefulSet,
                  EnsureIngress, EnsureVNodeDeployment, CheckReadiness, Lapse, Lapses
    <3>2. CASE Release
      BY <1>1, <3>2 DEF Release, ReleaseRBAC, ReleaseNamespace, RemoveFinalizer, Lapse, Lapses
    <3> QED  BY <1>1, <2>2, <3>1, <3>2 DEF Operator, Take, FailEnsure, LoseWork, CatchUp
  <2> QED  BY <1>1, <2>1, <2>2 DEF Step, EmptyNamespace, OperatorProcess, HostStep, lifeVars, historyVars
<1> QED  BY <1>2, <1>3 DEF HistoryTypes

-----------------------------------------------------------------------------
(* The objects on the host.                                                *)

LEMMA HostFields ==
  ASSUME TypeOK
  PROVE  /\ host \in HostObjects
         /\ host.ns \in ObjectStates /\ host.role \in BOOLEAN /\ host.agents \in BOOLEAN
         /\ host.svc \in ServiceTypes \cup {"none"}
         /\ host.ing \in Hosts \cup {NoHost, None}
         /\ host.sts \in StatefulSets \cup {None}
         /\ host.ns = "absent" =>
              host.svc = "none" /\ host.ing = None /\ host.sts = None /\ ~host.agents
<1>1. HostTypes
  BY DEF TypeOK, HostTypes
<1> QED  BY <1>1 DEF HostTypes, HostObjects, Emptied

LEMMA HostTypedBy ==
  ASSUME host' \in HostObjects,
         host'.ns = "absent" =>
           host'.svc = "none" /\ host'.ing = None /\ host'.sts = None /\ ~host'.agents
  PROVE  HostTypes'
<1>1. host' = [ns |-> host'.ns, role |-> host'.role, svc |-> host'.svc, ing |-> host'.ing,
               sts |-> host'.sts, agents |-> host'.agents]
  BY DEF HostObjects
<1>2. host'.agents \in BOOLEAN
  BY DEF HostObjects
<1> QED  BY <1>1, <1>2 DEF HostTypes, Emptied

\* What the builders make.
LEMMA Built ==
  ASSUME NEW opts \in Options
  PROVE  /\ BuildStatefulSet(opts) \in StatefulSets /\ newStatefulSet(opts) \in StatefulSets
         /\ BuildService(opts) \in ServiceTypes /\ serviceType(opts) \in ServiceTypes
         /\ BuildIngress(opts.host) \in Hosts \cup {NoHost}
         /\ BuildStatefulSet(opts).args.vnode = opts.vnode
         /\ BuildStatefulSet(opts).env.vnode = opts.vnode
         /\ newStatefulSet(opts).args.vnode = opts.vnode
         /\ newStatefulSet(opts).env.vnode = opts.vnode
         /\ opts.host \in Hosts => HasSan(BuildStatefulSet(opts).args, opts.host)
                                   /\ HasSan(newStatefulSet(opts).args, opts.host)
<1>1. opts.vnode \in BOOLEAN /\ opts.expose \in Exposures /\ opts.host \in Hosts \cup {NoHost}
  BY DEF Options
<1>2. Sans(opts.host) \in Seq(Hosts)
  BY <1>1 DEF Sans
<1>3. opts.host \in Hosts => Len(Sans(opts.host)) = 1 /\ Sans(opts.host)[1] = opts.host
  BY <1>1, HostsAssumption DEF Sans
<1>4. BuildStatefulSet(opts) = [args |-> [vnode |-> opts.vnode, sans |-> Sans(opts.host)],
                                env |-> [vnode |-> opts.vnode]]
  BY DEF BuildStatefulSet, k3sArgs, syncerEnv
<1>5. newStatefulSet(opts) = [args |-> [vnode |-> opts.vnode, sans |-> Sans(opts.host)],
                              env |-> [vnode |-> opts.vnode]]
  BY DEF newStatefulSet, buildK3sServerArgs, buildSyncerEnv
<1>6. BuildStatefulSet(opts) \in StatefulSets /\ newStatefulSet(opts) \in StatefulSets
  BY <1>1, <1>2, <1>4, <1>5 DEF StatefulSets
<1>7. opts.host \in Hosts => HasSan(BuildStatefulSet(opts).args, opts.host)
                             /\ HasSan(newStatefulSet(opts).args, opts.host)
  BY <1>3, <1>4, <1>5 DEF HasSan
<1> QED  BY <1>1, <1>4, <1>5, <1>6, <1>7 DEF BuildService, serviceType, ServiceTypes, BuildIngress

LEMMA CreateHost ==
  ASSUME TypeOK, NEW c \in Commands, Create(c)
  PROVE  HostTypes'
<1> USE HostFields
<1>1. c.opts \in Options /\ c.opts.host \in Hosts \cup {NoHost}
  BY CommandTyped DEF Options
<1>2. CASE UNCHANGED host
  BY <1>2, HostTypedBy
<1>3. CASE CreateNamespace(c) \/ CreateRBAC(c) \/ CreateVNodeStatefulSet(c)
  <2>1. host' \in HostObjects /\ (host'.ns = "absent" =>
           host'.svc = "none" /\ host'.ing = None /\ host'.sts = None /\ ~host'.agents)
    BY <1>3 DEF CreateNamespace, CreateRBAC, CreateVNodeStatefulSet, Accepts, HostObjects, ObjectStates
  <2> QED  BY <2>1, HostTypedBy
<1>4. CASE CreateServices(c)
  <2> DEFINE ing == IF c.opts.expose = "Ingress" /\ host.ing = None THEN BuildIngress(c.opts.host)
                    ELSE host.ing
  <2>1. serviceType(c.opts) \in ServiceTypes /\ BuildIngress(c.opts.host) \in Hosts \cup {NoHost}
    BY <1>1, Built
  <2>2. ing \in Hosts \cup {NoHost, None}
    BY <2>1
  <2>3. \/ host' = host
        \/ host.ns = "present" /\ host' = [host EXCEPT !.svc = serviceType(c.opts), !.ing = ing]
    BY <1>4 DEF CreateServices, Accepts
  <2> HIDE DEF ing
  <2>4. host' \in HostObjects /\ (host'.ns = "absent" =>
           host'.svc = "none" /\ host'.ing = None /\ host'.sts = None /\ ~host'.agents)
    BY <2>1, <2>2, <2>3 DEF HostObjects
  <2> QED  BY <2>4, HostTypedBy
<1>5. CASE CreateStatefulSet(c)
  <2>1. newStatefulSet(c.opts) \in StatefulSets
    BY <1>1, Built
  <2>2. \/ host' = host
        \/ host.ns = "present" /\ host' = [host EXCEPT !.sts = newStatefulSet(c.opts)]
    BY <1>5 DEF CreateStatefulSet, Accepts
  <2>3. host' \in HostObjects /\ (host'.ns = "absent" =>
           host'.svc = "none" /\ host'.ing = None /\ host'.sts = None /\ ~host'.agents)
    BY <2>1, <2>2 DEF HostObjects
  <2> QED  BY <2>3, HostTypedBy
<1> QED  BY <1>2, <1>3, <1>4, <1>5 DEF Create, ResolveCreateMode, CreateVirtualClusterCR,
                                      CreateServiceAccount

LEMMA ExposeHost ==
  ASSUME TypeOK, CommandInv, NEW c \in Commands, Expose(c)
  PROVE  HostTypes'
<1> USE HostFields
<1>1. c.opts \in Options /\ c.opts.host \in Hosts \cup {NoHost}
  BY CommandTyped DEF Options
<1>2. CASE ExposeService(c) \/ ExposeIngress(c)
  <2>1. serviceType(c.opts) \in ServiceTypes /\ BuildIngress(c.opts.host) \in Hosts \cup {NoHost}
    BY <1>1, Built
  <2>2. \/ host' = host
        \/ host.svc # "none" /\ host' = [host EXCEPT !.svc = serviceType(c.opts)]
        \/ /\ host.ing # None \/ host.ns = "present"
           /\ host' = [host EXCEPT !.ing = BuildIngress(c.opts.host)]
        \/ host' = [host EXCEPT !.ing = None]
    BY <1>2 DEF ExposeService, ExposeIngress, Accepts
  <2>3. host' \in HostObjects /\ (host'.ns = "absent" =>
           host'.svc = "none" /\ host'.ing = None /\ host'.sts = None /\ ~host'.agents)
    BY <2>1, <2>2 DEF HostObjects
  <2> QED  BY <2>3, HostTypedBy
<1>3. CASE ExposeTlsSan(c)
  <2>1. c.opts.host \in Hosts
    BY <1>1, <1>3 DEF ExposeTlsSan, At, CommandInv
  <2>2. CASE host' = host
    BY <2>2, HostTypedBy
  <2>3. CASE host' # host
    <3> DEFINE sts == [host.sts EXCEPT !.args.sans = Append(@, c.opts.host)]
    <3>1. host.sts \in StatefulSets /\ host' = [host EXCEPT !.sts = sts]
      BY <1>3, <2>3 DEF ExposeTlsSan, HostObjects
    <3>2. sts \in StatefulSets
      <4> DEFINE sans == Append(host.sts.args.sans, c.opts.host)
      <4>1. /\ host.sts.args \in [vnode : BOOLEAN, sans : Seq(Hosts)]
            /\ host.sts.env \in [vnode : BOOLEAN]
        BY <3>1 DEF StatefulSets
      <4>2. sans \in Seq(Hosts)
        BY <2>1, <4>1
      <4>3. sts = [host.sts EXCEPT !.args = [host.sts.args EXCEPT !.sans = sans]]
        BY <3>1 DEF StatefulSets
      <4> HIDE DEF sans, sts
      <4>4. [host.sts.args EXCEPT !.sans = sans] \in [vnode : BOOLEAN, sans : Seq(Hosts)]
        BY <4>1, <4>2
      <4> QED  BY <3>1, <4>3, <4>4 DEF StatefulSets
    <3> HIDE DEF sts
    <3>3. host' \in HostObjects /\ (host'.ns = "absent" =>
             host'.svc = "none" /\ host'.ing = None /\ host'.sts = None /\ ~host'.agents)
      BY <3>1, <3>2, NoneAssumption DEF HostObjects
    <3> QED  BY <3>3, HostTypedBy
  <2> QED  BY <2>2, <2>3
<1> QED  BY <1>2, <1>3 DEF Expose

LEMMA OperatorHost ==
  ASSUME TypeOK, Operator
  PROVE  HostTypes'
<1> USE HostFields
<1>1. CASE UNCHANGED host
  BY <1>1, HostTypedBy
<1>2. CASE EnsureNamespace \/ EnsureRBAC \/ ReleaseRBAC \/ ReleaseNamespace
  <2>1. host' \in HostObjects /\ (host'.ns = "absent" =>
           host'.svc = "none" /\ host'.ing = None /\ host'.sts = None /\ ~host'.agents)
    BY <1>2 DEF EnsureNamespace, EnsureRBAC, ReleaseRBAC, ReleaseNamespace, Refused, Terminated,
                Accepts, HostObjects, ObjectStates
  <2> QED  BY <2>1, HostTypedBy
<1> DEFINE spec == work.cr.spec
<1>3. work # Idle => spec \in Options /\ spec.vnode \in BOOLEAN /\ spec.host \in Hosts \cup {NoHost}
  BY DEF TypeOK, VirtualClusters, Options
<1>4. work # Idle => /\ BuildStatefulSet(spec) \in StatefulSets /\ BuildService(spec) \in ServiceTypes
                     /\ BuildIngress(spec.host) \in Hosts \cup {NoHost}
  BY <1>3, Built
<1>5. CASE EnsureServices
  <2>1. work # Idle
    BY <1>5 DEF EnsureServices, Doing, Idle
  <2>2. \/ host' = host
        \/ host.ns = "present" /\ host' = [host EXCEPT !.svc = BuildService(spec)]
        \/ host.svc # "none" /\ host' = [host EXCEPT !.svc = BuildService(spec)]
    BY <1>5 DEF EnsureServices, Refused, Accepts
  <2>3. host' \in HostObjects /\ (host'.ns = "absent" =>
           host'.svc = "none" /\ host'.ing = None /\ host'.sts = None /\ ~host'.agents)
    BY <1>4, <2>1, <2>2 DEF HostObjects
  <2> QED  BY <2>3, HostTypedBy
<1>6. CASE EnsureStatefulSet
  <2> DEFINE desired == BuildStatefulSet(spec)
             kept == [host.sts EXCEPT !.args = desired.args]
  <2>1. work # Idle
    BY <1>6 DEF EnsureStatefulSet, Doing, Idle
  <2>2. \/ host' = host
        \/ host.ns = "present" /\ host' = [host EXCEPT !.sts = desired]
        \/ host.sts # None /\ host' = [host EXCEPT !.sts = kept]
    BY <1>6 DEF EnsureStatefulSet, Refused, Accepts
  <2>3. host.sts # None => kept \in StatefulSets
    BY <1>4, <2>1 DEF StatefulSets
  <2> HIDE DEF desired, kept
  <2>4. desired \in StatefulSets
    BY <1>4, <2>1 DEF desired
  <2>5. host' \in HostObjects /\ (host'.ns = "absent" =>
           host'.svc = "none" /\ host'.ing = None /\ host'.sts = None /\ ~host'.agents)
    BY <2>2, <2>3, <2>4 DEF HostObjects
  <2> QED  BY <2>5, HostTypedBy
<1>7. CASE EnsureIngress
  <2>1. work # Idle
    BY <1>7 DEF EnsureIngress, Doing, Idle
  <2>2. \/ host' = host
        \/ host' = [host EXCEPT !.ing = None]
        \/ host.ns = "present" /\ host' = [host EXCEPT !.ing = BuildIngress(spec.host)]
        \/ host.ing # None /\ host' = [host EXCEPT !.ing = BuildIngress(spec.host)]
    BY <1>7 DEF EnsureIngress, Refused, Accepts
  <2>3. host' \in HostObjects /\ (host'.ns = "absent" =>
           host'.svc = "none" /\ host'.ing = None /\ host'.sts = None /\ ~host'.agents)
    BY <1>4, <2>1, <2>2 DEF HostObjects
  <2> QED  BY <2>3, HostTypedBy
<1>8. CASE EnsureVNodeDeployment
  <2>1. work # Idle
    BY <1>8 DEF EnsureVNodeDeployment, Doing, Idle
  <2>2. \/ host' = host
        \/ /\ spec.vnode => host.agents \/ host.ns = "present"
           /\ host' = [host EXCEPT !.agents = spec.vnode]
    BY <1>8 DEF EnsureVNodeDeployment, Refused, Accepts
  <2>3. host' \in HostObjects /\ (host'.ns = "absent" =>
           host'.svc = "none" /\ host'.ing = None /\ host'.sts = None /\ ~host'.agents)
    BY <1>3, <2>1, <2>2 DEF HostObjects
  <2> QED  BY <2>3, HostTypedBy
<1> QED  BY <1>1, <1>2, <1>5, <1>6, <1>7, <1>8 DEF Operator, Apply, Release, Take, FailEnsure,
              Refused, CheckReadiness, RemoveFinalizer, LoseWork, CatchUp

LEMMA HostTyped ==
  ASSUME TypeOK, CommandInv, Step
  PROVE  HostTypes'
<1> USE HostFields
<1>1. CASE UNCHANGED host
  BY <1>1, HostTypedBy
<1>2. ASSUME NEW c \in Commands, Command(c)
      PROVE  HostTypes'
  <2>1. CASE Delete(c)
    <3>1. host' \in HostObjects /\ (host'.ns = "absent" =>
             host'.svc = "none" /\ host'.ing = None /\ host'.sts = None /\ ~host'.agents)
      BY <2>1 DEF Delete, CheckOperator, FindVirtualClusterCR, DeleteVirtualClusterCR,
                  DeleteClusterRBAC, DeleteNamespace, Terminated, HostObjects, ObjectStates
    <3> QED  BY <3>1, HostTypedBy
  <2>2. CASE UNCHANGED host
    BY <2>2, HostTypedBy
  <2> QED  BY <1>2, <2>1, <2>2, CreateHost, ExposeHost DEF Command, Installing, lifeVars,
              ConnectStarts, AwaitReady, AwaitAddress, GiveUp, Load, Write, EditSpec, FailCommand,
              OnFile
<1>3. CASE EmptyNamespace
  <2>1. host' \in HostObjects /\ host'.svc = "none" /\ host'.ing = None /\ host'.sts = None
        /\ ~host'.agents
    BY <1>3 DEF EmptyNamespace, Emptied, HostObjects, ObjectStates
  <2> QED  BY <2>1, HostTypedBy
<1> QED  BY <1>1, <1>2, <1>3, OperatorHost DEF Step, OperatorProcess, HostStep, lifeVars


-----------------------------------------------------------------------------
(* The resources.                                                          *)

\* What a command, or the API server, makes of a resource.
Rewritten(old, new) ==
  \/ new = old
  \/ /\ old = None /\ new # None
     /\ ~new.finalizer /\ ~new.deleting /\ new.phase = ""
     /\ schema = "cli" \/ new.asked = new.spec.vnode
  \/ new = None /\ ~old.finalizer
  \/ old # None /\ old.finalizer /\ new = [old EXCEPT !.deleting = TRUE]
  \/ /\ old # None /\ new # None /\ ~old.deleting /\ ~new.deleting
     /\ new.finalizer = old.finalizer /\ new.phase = old.phase
     /\ schema = "cli" \/ new.asked = new.spec.vnode

\* A step that is not the operator's: it tells the operator what it changes.
Touched ==
  /\ UNCHANGED <<work, pod>>
  /\ queued \subseteq queued' /\ queued' \subseteq CrNamespaces /\ (pod \/ queued' = queued)
  /\ schema' = schema \/ (Existing = {} /\ crs' = crs)
  /\ schema' \in {"cli", "manifests"}
  /\ crs' \in [CrNamespaces -> VirtualClusters \cup {None}]
  /\ \A n \in CrNamespaces : /\ Rewritten(crs[n], crs'[n])
                             /\ pod /\ crs'[n] # crs[n] => n \in queued'
  /\ crd' = "absent" => Existing' = {}

LEMMA NoneIsNoResource == None \notin VirtualClusters
BY NoneAssumption

LEMMA Resource ==
  ASSUME TypeOK, NEW n \in CrNamespaces
  PROVE  /\ crs[n] \in VirtualClusters \cup {None}
         /\ n \in Existing => crs[n] \in VirtualClusters
         /\ n \in Existing <=> crs[n] # None
BY DEF TypeOK, Existing

LEMMA CommandTouches ==
  ASSUME TypeOK, CommandInv, NEW c \in Commands, Command(c)
  PROVE  Touched
<1>1. /\ crs \in [CrNamespaces -> VirtualClusters \cup {None}] /\ queued \subseteq CrNamespaces
      /\ crd = "absent" => Existing = {}
      /\ schema \in {"cli", "manifests"} /\ pod \in BOOLEAN
      /\ c.at \in CrNamespaces /\ c.opts \in Options
  BY CommandTyped DEF TypeOK
<1>2. ASSUME UNCHANGED <<resourceVars, work, pod, crd, schema>>
      PROVE  Touched
  BY <1>1, <1>2 DEF Touched, Rewritten, resourceVars, Existing
<1>3. CASE Install(c) /\ UNCHANGED lifeVars
  <2>1. UNCHANGED <<resourceVars, work, pod>>
    BY <1>3 DEF Install, InstallCRD, EnsureNamespaceExists, EnsureOperatorServiceAccount,
              EnsureOperatorRBAC, EnsureOperatorDeployment, EnsurePart, lifeVars, workVars
  <2>2. CASE crd' = crd /\ schema' = schema
    BY <1>2, <2>1, <2>2
  <2>3. CASE crd = "absent" /\ crd' = "present" /\ schema' = "cli"
    BY <1>1, <2>1, <2>3 DEF Touched, Rewritten, resourceVars
  <2> QED  BY <1>3, <2>2, <2>3 DEF Install, InstallCRD, EnsureNamespaceExists,
              EnsureOperatorServiceAccount, EnsureOperatorRBAC, EnsureOperatorDeployment, EnsurePart
<1>4. CASE Uninstall(c) /\ UNCHANGED lifeVars
  <2>1. CASE UninstallCRD(c)
    <3> DEFINE kept == {n \in Existing : crs[n].finalizer}
    <3>1. /\ \A n \in CrNamespaces : crs'[n] = IF n \in kept THEN [crs[n] EXCEPT !.deleting = TRUE]
                                               ELSE None
          /\ crs' = [n \in CrNamespaces |-> crs'[n]]
          /\ crd' = IF crd = "absent" \/ kept = {} THEN "absent" ELSE "terminating"
          /\ queued' = IF pod THEN queued \cup Existing ELSE queued
          /\ UNCHANGED <<schema, work, pod>>
      BY <1>4, <2>1 DEF UninstallCRD, lifeVars, workVars
    <3>2. \A n \in kept : crs[n] \in VirtualClusters /\ [crs[n] EXCEPT !.deleting = TRUE] \in VirtualClusters
      BY <1>1 DEF Existing, VirtualClusters
    <3>3. crs' \in [CrNamespaces -> VirtualClusters \cup {None}]
      BY <3>1, <3>2
    <3>4. crd = "absent" => kept = {}
      BY <1>1
    <3>5. crd' = "absent" => Existing' = {}
      BY <3>1, <3>4 DEF Existing
    <3>6. \A n \in CrNamespaces : Rewritten(crs[n], crs'[n])
      BY <3>1 DEF Rewritten, Existing
    <3>7. \A n \in CrNamespaces : crs'[n] # crs[n] => n \in Existing
      BY <3>1 DEF Existing
    <3>8. Existing \subseteq CrNamespaces
      BY DEF Existing
    <3> QED  BY <1>1, <3>1, <3>3, <3>5, <3>6, <3>7, <3>8 DEF Touched
  <2>2. CASE ~UninstallCRD(c)
    BY <1>2, <1>4, <2>2 DEF Uninstall, DeleteDeployment, DeleteRights, DeleteOperatorNamespace,
                            lifeVars, workVars
  <2> QED  BY <2>1, <2>2
<1>5. CASE CreateVirtualClusterCR(c)
  <2> DEFINE n == c.at
             new == [spec |-> Pruned(c.opts), asked |-> c.opts.vnode, finalizer |-> FALSE,
                     deleting |-> FALSE, phase |-> "", observed |-> FALSE]
  <2>1. UNCHANGED <<installVars, pod, workVars>>
    BY <1>5 DEF CreateVirtualClusterCR
  <2>2. CASE UNCHANGED resourceVars
    BY <1>2, <2>1, <2>2 DEF installVars, workVars
  <2>3. CASE ~UNCHANGED resourceVars
    <3>1. /\ crd = "present" /\ crs[n] = None /\ crs' = [crs EXCEPT ![n] = new]
          /\ queued' = IF pod THEN queued \cup {n} ELSE queued
      BY <1>5, <2>3 DEF CreateVirtualClusterCR
    <3>2. Pruned(c.opts) \in Options /\ (schema = "cli" \/ Pruned(c.opts).vnode = c.opts.vnode)
          /\ c.opts.vnode \in BOOLEAN
      BY <1>1 DEF Pruned, Options
    <3>3. new \in VirtualClusters
      BY <3>2 DEF VirtualClusters, Phases
    <3>4. Rewritten(None, new)
      BY <3>2, <3>3, NoneIsNoResource DEF Rewritten
    <3> HIDE DEF new
    <3>5. \A m \in CrNamespaces : crs'[m] = IF m = n THEN new ELSE crs[m]
      BY <1>1, <3>1
    <3>6. \A m \in CrNamespaces : Rewritten(crs[m], crs'[m])
      BY <3>1, <3>4, <3>5 DEF Rewritten
    <3>7. crd' # "absent"
      BY <2>1, <3>1 DEF installVars
    <3>8. \A m \in CrNamespaces : pod /\ crs'[m] # crs[m] => m \in queued'
      BY <3>1, <3>5
    <3>9. crs' \in [CrNamespaces -> VirtualClusters \cup {None}] /\ queued' \subseteq CrNamespaces
      BY <1>1, <3>1, <3>3
    <3>10. schema' = schema /\ UNCHANGED <<work, pod>>
      BY <2>1 DEF installVars, workVars
    <3>11. queued \subseteq queued' /\ (pod \/ queued' = queued)
      BY <3>1
    <3> QED  BY <1>1, <3>6, <3>7, <3>8, <3>9, <3>10, <3>11 DEF Touched
  <2> QED  BY <2>2, <2>3
<1>6. CASE DeleteVirtualClusterCR(c)
  <2> DEFINE n == found[c]
  <2>1. n \in CrNamespaces /\ UNCHANGED <<installVars, pod, workVars>>
    BY <1>6 DEF DeleteVirtualClusterCR, At, CommandInv
  <2>2. /\ crs' = [crs EXCEPT ![n] = IF crs[n] # None /\ crs[n].finalizer
                                     THEN [crs[n] EXCEPT !.deleting = TRUE] ELSE None]
        /\ queued' = IF pod /\ crs' # crs THEN queued \cup {n} ELSE queued
    BY <1>6 DEF DeleteVirtualClusterCR
  <2>3. \A m \in CrNamespaces : crs'[m] = IF m # n THEN crs[m]
                                          ELSE IF crs[n] # None /\ crs[n].finalizer
                                          THEN [crs[n] EXCEPT !.deleting = TRUE] ELSE None
    BY <1>1, <2>2
  <2>4. \A m \in CrNamespaces : Rewritten(crs[m], crs'[m])
    BY <2>3 DEF Rewritten
  <2>5. crs[n] # None => [crs[n] EXCEPT !.deleting = TRUE] \in VirtualClusters
    BY <1>1, <2>1 DEF VirtualClusters
  <2>6. crs' \in [CrNamespaces -> VirtualClusters \cup {None}] /\ queued' \subseteq CrNamespaces
    BY <1>1, <2>1, <2>2, <2>5
  <2>7. crd' = "absent" => Existing' = {}
    <3>1. \A m \in CrNamespaces : crs'[m] # None => crs[m] # None
      BY <2>3
    <3> QED  BY <1>1, <2>1, <3>1 DEF Existing, installVars
  <2>8. \A m \in CrNamespaces : pod /\ crs'[m] # crs[m] => m \in queued'
    BY <2>2, <2>3
  <2>9. schema' = schema /\ UNCHANGED <<work, pod>>
    BY <2>1 DEF installVars, workVars
  <2>10. queued \subseteq queued' /\ (pod \/ queued' = queued)
    BY <2>2
  <2> QED  BY <1>1, <2>4, <2>6, <2>7, <2>8, <2>9, <2>10 DEF Touched
<1>7. CASE EditSpec(c)
  <2> DEFINE n == c.at
             old == crs[n]
             new == crs'[n]
             seenAs == old.observed /\ Pruned(c.opts) = old.spec
  <2>1. /\ old # None /\ ~old.deleting /\ UNCHANGED <<installVars, pod, workVars>>
        /\ crs' = [crs EXCEPT ![n].spec = Pruned(c.opts), ![n].asked = c.opts.vnode,
                              ![n].observed = @ /\ Pruned(c.opts) = crs[n].spec]
        /\ queued' = IF pod THEN queued \cup {n} ELSE queued
    BY <1>7 DEF EditSpec
  <2>2. old \in VirtualClusters
    BY <1>1, <2>1
  <2>3. /\ new = [old EXCEPT !.spec = Pruned(c.opts), !.asked = c.opts.vnode,
                             !.observed = @ /\ Pruned(c.opts) = old.spec]
        /\ \A m \in CrNamespaces : m # n => crs'[m] = crs[m]
        /\ DOMAIN crs' = CrNamespaces /\ crs' = [m \in CrNamespaces |-> crs'[m]]
    BY <1>1, <2>1
  <2>4. Pruned(c.opts) \in Options /\ (schema = "cli" \/ Pruned(c.opts).vnode = c.opts.vnode)
        /\ c.opts.vnode \in BOOLEAN
    BY <1>1 DEF Pruned, Options
  <2>5. new \in VirtualClusters /\ new.finalizer = old.finalizer /\ new.deleting = old.deleting
        /\ new.phase = old.phase /\ (schema = "cli" \/ new.asked = new.spec.vnode)
    BY <2>2, <2>3, <2>4 DEF VirtualClusters
  <2>6. Rewritten(old, new)
    BY <2>1, <2>5, NoneIsNoResource DEF Rewritten
  <2>7. \A m \in CrNamespaces : Rewritten(crs[m], crs'[m])
    BY <2>3, <2>6 DEF Rewritten
  <2>8. crs' \in [CrNamespaces -> VirtualClusters \cup {None}] /\ queued' \subseteq CrNamespaces
    <3>1. \A m \in CrNamespaces : crs'[m] \in VirtualClusters \cup {None}
      BY <1>1, <2>3, <2>5
    <3>2. queued' \subseteq CrNamespaces
      BY <1>1, <2>1
    <3> QED  BY <2>3, <3>1, <3>2
  <2>9. crd' = "absent" => Existing' = {}
    BY <1>1, <2>1 DEF Existing, installVars
  <2>10. \A m \in CrNamespaces : pod /\ crs'[m] # crs[m] => m \in queued'
    BY <2>1, <2>3
  <2>11. schema' = schema /\ UNCHANGED <<work, pod>>
    BY <2>1 DEF installVars, workVars
  <2>12. queued \subseteq queued' /\ (pod \/ queued' = queued)
    BY <2>1
  <2> QED  BY <1>1, <2>7, <2>8, <2>9, <2>10, <2>11, <2>12 DEF Touched
<1>8. CASE Create(c) /\ ~CreateVirtualClusterCR(c)
  <2>1. UNCHANGED <<installVars, resourceVars, pod, workVars>>
    BY <1>8 DEF Create, ResolveCreateMode, CreateNamespace, CreateServiceAccount, CreateRBAC,
                CreateServices, CreateStatefulSet, CreateVNodeStatefulSet, OnHost
  <2> QED  BY <1>2, <2>1 DEF installVars, workVars
<1>9. CASE Delete(c) /\ ~DeleteVirtualClusterCR(c)
  <2>1. UNCHANGED <<installVars, resourceVars, pod, workVars>>
    BY <1>9 DEF Delete, CheckOperator, FindVirtualClusterCR, DeleteClusterRBAC, DeleteNamespace, OnHost
  <2> QED  BY <1>2, <2>1 DEF installVars, workVars
<1>10. CASE Expose(c)
  <2>1. UNCHANGED <<installVars, resourceVars, pod, workVars>>
    BY <1>10 DEF Expose, ExposeService, ExposeIngress, ExposeTlsSan, OnHost
  <2> QED  BY <1>2, <2>1 DEF installVars, workVars
<1>11. CASE ConnectStarts(c) \/ AwaitReady(c) \/ AwaitAddress(c) \/ GiveUp(c) \/ Load(c) \/ Write(c)
            \/ FailCommand(c)
  <2>1. UNCHANGED <<installVars, resourceVars, pod, workVars>>
    BY <1>11 DEF ConnectStarts, AwaitReady, AwaitAddress, GiveUp, Load, Write, FailCommand,
                 OnHost, OnFile
  <2> QED  BY <1>2, <2>1 DEF installVars, workVars
<1> QED  BY <1>3, <1>4, <1>5, <1>6, <1>7, <1>8, <1>9, <1>10, <1>11 DEF Command, Installing

LEMMA HostTouches ==
  ASSUME TypeOK, HostStep \/ EmptyNamespace
  PROVE  Touched
<1>1. /\ crs \in [CrNamespaces -> VirtualClusters \cup {None}] /\ queued \subseteq CrNamespaces
      /\ crd = "absent" => Existing = {}
      /\ schema \in {"cli", "manifests"}
  BY DEF TypeOK
<1>2. UNCHANGED <<crs, queued, work, pod, schema>> /\ (crd' = crd \/ Existing = {})
  BY DEF HostStep, CrdRemoved, OperatorNamespaceRemoved, EmptyNamespace, lifeVars, workVars,
         resourceVars, installVars
<1> QED  BY <1>1, <1>2 DEF Touched, Rewritten, Existing

\* What has a finalizer stays, and what waits for the operator goes on waiting.
LEMMA TouchedStays ==
  ASSUME TypeOK, Touched, NEW n \in CrNamespaces, crs[n] # None, crs[n].finalizer
  PROVE  /\ crs'[n] # None /\ crs'[n].finalizer
         /\ crs[n].deleting => crs'[n].deleting
         /\ crs'[n] = crs[n] \/ crs'[n].deleting \/ crs'[n].phase = crs[n].phase
<1>1. Rewritten(crs[n], crs'[n]) /\ crs[n] \in VirtualClusters
  BY Resource DEF Touched
<1>2. CASE crs'[n] = [crs[n] EXCEPT !.deleting = TRUE]
  <2>1. crs'[n] \in VirtualClusters
    BY <1>1, <1>2 DEF VirtualClusters
  <2> QED  BY <1>1, <1>2, <2>1, NoneIsNoResource DEF VirtualClusters
<1> QED  BY <1>1, <1>2 DEF Rewritten

LEMMA TouchedTypes ==
  ASSUME TypeOK, ResourceInv, Touched, UNCHANGED seen
  PROVE  ResourceTypes' /\ WorkTypes'
<1>1. ResourceTypes'
  BY DEF Touched, ResourceTypes
<1>2. WorkTypes
  BY TypeParts
<1>3. work # Idle => crs'[work.n] # None
  BY <1>2, TouchedStays DEF ResourceInv, WorkTypes
<1>4. (~pod => queued' = {})
  BY <1>2 DEF WorkTypes, Touched
<1> QED  BY <1>1, <1>2, <1>3, <1>4 DEF WorkTypes, Touched

LEMMA TouchedResource ==
  ASSUME TypeOK, ResourceInv, Touched
  PROVE  ResourceInv'
<1>1. WorkTypes
  BY TypeParts
<1>2. \A n \in CrNamespaces : Rewritten(crs[n], crs'[n]) /\ (pod /\ crs'[n] # crs[n] => n \in queued')
  BY DEF Touched
<1>3. ASSUME NEW n \in CrNamespaces, crs'[n] # None
      PROVE  /\ crs'[n].deleting \/ crs'[n].phase # "" => crs'[n].finalizer
             /\ schema' = "manifests" => crs'[n].asked = crs'[n].spec.vnode
  <2>1. crs[n] # None => /\ crs[n].deleting \/ crs[n].phase # "" => crs[n].finalizer
                         /\ schema = "manifests" => crs[n].asked = crs[n].spec.vnode
    BY DEF ResourceInv, Existing
  <2>2. schema' = schema \/ (Existing = {} /\ crs' = crs)
    BY DEF Touched
  <2>3. Existing # {}  \/ crs' # crs
    BY <1>3 DEF Existing
  <2>4. schema' = schema
    BY <2>2, <2>3
  <2>5. CASE crs[n] # None /\ crs[n].finalizer /\ crs'[n] = [crs[n] EXCEPT !.deleting = TRUE]
    <3>1. crs[n] \in VirtualClusters
      BY <2>5, Resource
    <3>2. crs'[n].finalizer /\ crs'[n].asked = crs[n].asked /\ crs'[n].spec = crs[n].spec
      BY <2>5, <3>1 DEF VirtualClusters
    <3> QED  BY <2>1, <2>4, <2>5, <3>2
  <2> QED  BY <1>2, <1>3, <2>1, <2>4, <2>5 DEF Rewritten
<1>4. ASSUME work # Idle
      PROVE  /\ crs'[work.n].finalizer
             /\ crs[work.n].deleting => crs'[work.n].deleting
             /\ crs'[work.n].spec = work.cr.spec \/ work.n \in queued'
  <2>1. pod /\ work.n \in CrNamespaces /\ crs[work.n] # None /\ crs[work.n].finalizer
    BY <1>1, <1>4 DEF WorkTypes, ResourceInv
  <2>2. crs[work.n].spec = work.cr.spec \/ work.n \in queued
    BY <1>4 DEF ResourceInv
  <2> QED  BY <1>2, <2>1, <2>2, TouchedStays DEF Touched
<1>5. work' = work /\ (work.step \in {"unbind", "unspace", "release"} => work # Idle)
  BY DEF Touched, Idle
<1> QED  BY <1>3, <1>4, <1>5 DEF ResourceInv, Existing

LEMMA TouchedDeleting ==
  ASSUME TypeOK, DeletingInv, Touched
  PROVE  DeletingInv'
BY DEF DeletingInv, Touched, Deleting

LEMMA TouchedPends ==
  ASSUME TypeOK, Touched, NEW n \in CrNamespaces, NEW steps, Pends(n, steps)
  PROVE  Pends(n, steps)'
<1>1. crs[n] # None /\ crs[n].finalizer /\ pod \in BOOLEAN /\ crs[n] \in VirtualClusters
  BY Resource DEF Pends, TypeOK
<1>2. /\ crs'[n] # None /\ crs'[n].finalizer
      /\ crs[n].deleting => crs'[n].deleting
      /\ crs'[n] = crs[n] \/ crs'[n].deleting \/ crs'[n].phase = crs[n].phase
  BY <1>1, TouchedStays
<1>3. queued \subseteq queued' /\ UNCHANGED <<work, pod>>
  BY DEF Touched
<1> QED  BY <1>1, <1>2, <1>3 DEF Pends

-----------------------------------------------------------------------------
(* The operator's steps, by what they do to the resources and their queue.  *)

Follows == {<<"namespace", "roles">>, <<"roles", "services">>, <<"services", "server">>,
            <<"server", "ingress">>, <<"ingress", "agents">>, <<"agents", "status">>,
            <<"unbind", "unspace">>, <<"unspace", "release">>}

\* The worker goes from one step to the next.
Advances(next) ==
  /\ <<work.step, next>> \in Follows
  /\ GoOn(next) /\ UNCHANGED resourceVars

\* It ends with a status.
Reports(phase) ==
  /\ work.step \in Ensures \cup {"status"} /\ phase \in Phases \ {""}
  /\ phase = "Running" => work.step = "status"
  /\ \E again \in BOOLEAN : UpdateStatus(phase, again)

\* It gives up, to come again.
Drops ==
  /\ work # Idle /\ work' = Idle
  /\ queued' = queued \cup {work.n} /\ UNCHANGED crs

LEMMA OperatorMoves ==
  ASSUME TypeOK, Operator
  PROVE  /\ OperatorStep /\ UNCHANGED <<installVars, pod>>
         /\ DOMAIN seen' = Cached
         /\ \/ \E n \in CrNamespaces : Take(n)
            \/ \E next \in WorkSteps : Advances(next)
            \/ \E phase \in Phases : Reports(phase)
            \/ Drops
            \/ RemoveFinalizer
            \/ UNCHANGED <<crs, queued, work, host>>
<1>1. WorkTypes
  BY TypeParts
<1>2. CASE \E n \in CrNamespaces : Take(n)
  BY <1>1, <1>2 DEF Take, OperatorStep, WorkTypes
<1>3. CASE Refused /\ OperatorStep /\ UNCHANGED seen /\ work.step \in Ensures
  <2>1. Reports(work.step) /\ work.step \in Phases
    BY <1>3 DEF Reports, Refused, Phases, Ensures
  <2> QED  BY <1>1, <1>3, <2>1 DEF OperatorStep, WorkTypes
<1>4. ASSUME NEW next \in WorkSteps, Ensured(next), OperatorStep, UNCHANGED seen,
             <<work.step, next>> \in Follows
      PROVE  /\ OperatorStep /\ UNCHANGED <<installVars, pod>>
             /\ DOMAIN seen' = Cached /\ Advances(next)
  BY <1>1, <1>4 DEF Ensured, Advances, OperatorStep, WorkTypes
<1>5. CASE EnsureNamespace
  <2>1. Ensured("roles") /\ work.step = "namespace" /\ OperatorStep /\ UNCHANGED seen
    BY <1>5 DEF EnsureNamespace, Doing
  <2> QED  BY <1>4, <2>1 DEF WorkSteps, Ensures, Follows
<1>6. CASE EnsureRBAC
  <2>1. work.step = "roles" /\ OperatorStep /\ UNCHANGED seen
    BY <1>6 DEF EnsureRBAC, Doing
  <2>2. CASE Ensured("services")
    BY <1>4, <2>1, <2>2 DEF WorkSteps, Ensures, Follows
  <2>3. CASE UpdateStatus("roles", FALSE)
    <3>1. Reports("roles") /\ "roles" \in Phases
      BY <2>1, <2>3 DEF Reports, Phases, Ensures
    <3> QED  BY <1>1, <2>1, <3>1 DEF OperatorStep, WorkTypes
  <2>4. Ensured("services") \/ UpdateStatus("roles", FALSE)
    BY <1>6, <2>1 DEF EnsureRBAC, Refused
  <2> QED  BY <2>2, <2>3, <2>4
<1>7. CASE EnsureServices
  <2>1. /\ work.step = "services" /\ OperatorStep /\ UNCHANGED seen
        /\ Ensured("server") \/ Refused
    BY <1>7 DEF EnsureServices, Doing
  <2> QED  BY <1>3, <1>4, <2>1 DEF WorkSteps, Ensures, Follows
<1>8. CASE EnsureStatefulSet
  <2>1. /\ work.step = "server" /\ OperatorStep /\ UNCHANGED seen
        /\ Ensured("ingress") \/ Refused
    BY <1>8 DEF EnsureStatefulSet, Doing
  <2> QED  BY <1>3, <1>4, <2>1 DEF WorkSteps, Ensures, Follows
<1>9. CASE EnsureIngress
  <2>1. /\ work.step = "ingress" /\ OperatorStep /\ UNCHANGED seen
        /\ Ensured("agents") \/ Refused
    BY <1>9 DEF EnsureIngress, Doing
  <2> QED  BY <1>3, <1>4, <2>1 DEF WorkSteps, Ensures, Follows
<1>10. CASE EnsureVNodeDeployment
  <2>1. /\ work.step = "agents" /\ OperatorStep /\ UNCHANGED seen
        /\ Ensured("status") \/ Refused
    BY <1>10 DEF EnsureVNodeDeployment, Doing
  <2> QED  BY <1>3, <1>4, <2>1 DEF WorkSteps, Ensures, Follows
<1>11. CASE CheckReadiness
  <2>1. /\ work.step = "status" /\ OperatorStep /\ UNCHANGED seen
        /\ UpdateStatus("Pending", TRUE) \/ UpdateStatus("Running", FALSE)
    BY <1>11 DEF CheckReadiness, Doing
  <2>2. (Reports("Pending") \/ Reports("Running")) /\ {"Pending", "Running"} \subseteq Phases
    BY <2>1 DEF Reports, Phases
  <2> QED  BY <1>1, <2>1, <2>2 DEF OperatorStep, WorkTypes
<1>12. CASE FailEnsure
  BY <1>3, <1>12 DEF FailEnsure
<1>13. CASE ReleaseRBAC
  <2>1. Ensured("unspace") /\ work.step = "unbind" /\ OperatorStep /\ UNCHANGED seen
    BY <1>13 DEF ReleaseRBAC, Doing
  <2> QED  BY <1>4, <2>1 DEF WorkSteps, Ensures, Follows
<1>14. CASE ReleaseNamespace
  <2>1. work.step = "unspace" /\ OperatorStep /\ UNCHANGED seen
    BY <1>14 DEF ReleaseNamespace, Doing
  <2>2. CASE Ensured("release")
    BY <1>4, <2>1, <2>2 DEF WorkSteps, Ensures, Follows
  <2>3. CASE ~Ensured("release")
    <3>1. Drops
      BY <1>14, <2>1, <2>3 DEF ReleaseNamespace, Drops, Idle
    <3> QED  BY <1>1, <2>1, <3>1 DEF OperatorStep, WorkTypes
  <2> QED  BY <2>2, <2>3
<1>15. CASE RemoveFinalizer
  BY <1>1, <1>15 DEF RemoveFinalizer, OperatorStep, WorkTypes
<1>16. CASE LoseWork
  <2>1. Drops
    BY <1>16 DEF LoseWork, Drops
  <2> QED  BY <1>1, <1>16, <2>1 DEF LoseWork, OperatorStep, WorkTypes
<1>17. CASE \E kind \in Cached : CatchUp(kind)
  BY <1>1, <1>17 DEF CatchUp, OperatorStep, resourceVars, WorkTypes
<1> QED  BY <1>2, <1>5, <1>6, <1>7, <1>8, <1>9, <1>10, <1>11, <1>12, <1>13, <1>14, <1>15, <1>16,
            <1>17 DEF Operator, Apply, Release

\* What the worker has in hand.
LEMMA InHand ==
  ASSUME TypeOK, ResourceInv, work # Idle
  PROVE  /\ pod /\ work.n \in CrNamespaces /\ work.cr \in VirtualClusters /\ work.step \in WorkSteps
         /\ work \in [step : WorkSteps, n : CrNamespaces, cr : VirtualClusters]
         /\ crs[work.n] \in VirtualClusters /\ crs[work.n] # None
         /\ crs[work.n].finalizer /\ work.cr.finalizer
         /\ work.step \in Ensures \cup {"status"} => ~work.cr.deleting
         /\ work.step \notin Ensures \cup {"status"} => work.cr.deleting /\ crs[work.n].deleting
<1>1. WorkTypes
  BY TypeParts
<1>2. pod /\ work \in [step : WorkSteps, n : CrNamespaces, cr : VirtualClusters] /\ crs[work.n] # None
  BY <1>1 DEF WorkTypes
<1>3. crs[work.n] \in VirtualClusters
  BY <1>2, Resource
<1> QED  BY <1>2, <1>3 DEF ResourceInv, WorkSteps

LEMMA IdleTyped == Idle.step = "idle" /\ Idle.n = 0 /\ 0 \notin CrNamespaces /\ "idle" \notin WorkSteps
BY NamespacesAssumption DEF Idle, WorkSteps, Ensures

\* What a report does to the resource.
LEMMA Reported ==
  ASSUME TypeOK, ResourceInv, NEW phase, Reports(phase)
  PROVE  /\ work # Idle /\ work' = Idle /\ work.n \in CrNamespaces
         /\ crs' \in [CrNamespaces -> VirtualClusters \cup {None}]
         /\ \A m \in CrNamespaces \ {work.n} : crs'[m] = crs[m]
         /\ queued \subseteq queued' /\ queued' \subseteq queued \cup {work.n}
         /\ crs'[work.n] # None /\ crs'[work.n].finalizer
         /\ \/ crs[work.n] # work.cr /\ crs' = crs /\ work.n \in queued'
            \/ /\ crs[work.n] = work.cr /\ ~crs'[work.n].deleting
               /\ crs'[work.n].spec = work.cr.spec /\ crs'[work.n].asked = work.cr.asked
               /\ crs'[work.n].phase = phase
               /\ crs' = crs \/ work.n \in queued'
<1> DEFINE new == [work.cr EXCEPT !.phase = phase, !.observed = TRUE]
<1>1. work # Idle
  <2>1. work.step \in Ensures \cup {"status"}
    BY DEF Reports
  <2> QED  BY <2>1, IdleTyped DEF Ensures
<1>2. /\ work.n \in CrNamespaces /\ work.cr \in VirtualClusters /\ crs[work.n] \in VirtualClusters
      /\ crs[work.n].finalizer /\ work.cr.finalizer /\ ~work.cr.deleting
      /\ crs \in [CrNamespaces -> VirtualClusters \cup {None}]
  BY <1>1, InHand DEF Reports, TypeOK
<1>3. PICK again \in BOOLEAN :
        /\ crs' = IF crs[work.n] = work.cr THEN [crs EXCEPT ![work.n] = new] ELSE crs
        /\ queued' = IF again \/ crs[work.n] # work.cr \/ new # work.cr
                     THEN queued \cup {work.n} ELSE queued
        /\ work' = Idle
  BY DEF Reports, UpdateStatus
<1>4. /\ new \in VirtualClusters /\ new.finalizer /\ ~new.deleting /\ new.spec = work.cr.spec
      /\ new.asked = work.cr.asked /\ new.phase = phase
  BY <1>2 DEF Reports, VirtualClusters
<1> HIDE DEF new
<1>5. CASE crs[work.n] = work.cr
  <2>1. crs' = [crs EXCEPT ![work.n] = new] /\ crs'[work.n] = new
    BY <1>2, <1>3, <1>5
  <2>2. new = work.cr => crs' = crs
    BY <1>2, <1>5, <2>1
  <2> QED  BY <1>1, <1>2, <1>3, <1>4, <1>5, <2>1, <2>2, NoneIsNoResource
<1>6. CASE crs[work.n] # work.cr
  BY <1>1, <1>2, <1>3, <1>6, NoneIsNoResource
<1> QED  BY <1>5, <1>6

\* What Take does.
LEMMA Taken ==
  ASSUME TypeOK, ResourceInv, NEW n \in CrNamespaces, Take(n)
  PROVE  /\ pod /\ work = Idle /\ n \in queued
         /\ crs' \in [CrNamespaces -> VirtualClusters \cup {None}]
         /\ \A m \in CrNamespaces \ {n} : crs'[m] = crs[m] /\ (m \in queued' <=> m \in queued)
         /\ queued' \subseteq queued
         /\ \/ crs[n] = None /\ crs' = crs /\ work' = Idle
            \/ /\ crs[n] # None /\ ~crs[n].deleting /\ n \in queued' /\ work' = Idle
               /\ crs'[n] # None /\ crs'[n].finalizer /\ ~crs'[n].deleting
               /\ crs'[n].phase # "Running" \/ crs'[n].phase = crs[n].phase
               /\ crs'[n].spec = crs[n].spec /\ crs'[n].asked = crs[n].asked
            \/ /\ crs[n] # None /\ crs[n].finalizer /\ crs' = crs
               /\ work' = [step |-> IF crs[n].deleting THEN "unbind" ELSE "namespace",
                           n |-> n, cr |-> crs[n]]
<1>1. crs \in [CrNamespaces -> VirtualClusters \cup {None}] /\ queued \subseteq CrNamespaces
  BY DEF TypeOK
<1>2. pod /\ work = Idle /\ n \in queued
  BY DEF Take, Alive
<1>3. CASE crs[n] = None
  BY <1>1, <1>2, <1>3 DEF Take
<1>4. CASE crs[n] # None
  <2>1. crs[n] \in VirtualClusters /\ (crs[n].deleting => crs[n].finalizer)
    BY <1>1, <1>4 DEF ResourceInv, Existing
  <2>2. CASE crs[n].deleting
    BY <1>1, <1>2, <1>4, <2>1, <2>2 DEF Take
  <2>3. CASE ~crs[n].deleting /\ ~crs[n].finalizer
    <3>1. crs' = [crs EXCEPT ![n] = [crs[n] EXCEPT !.finalizer = TRUE]] /\ UNCHANGED <<queued, work>>
      BY <1>1, <1>4, <2>3 DEF Take, ContainsFinalizer
    <3>2. [crs[n] EXCEPT !.finalizer = TRUE] \in VirtualClusters
      BY <2>1 DEF VirtualClusters
    <3> QED  BY <1>1, <1>2, <1>4, <2>1, <2>3, <3>1, <3>2, NoneIsNoResource DEF VirtualClusters
  <2>4. CASE ~crs[n].deleting /\ crs[n].finalizer /\ crs[n].phase = ""
    <3> DEFINE reset == [crs[n] EXCEPT !.phase = "Pending", !.observed = TRUE]
    <3>1. crs' = [crs EXCEPT ![n] = reset] /\ UNCHANGED <<queued, work>>
      BY <1>4, <2>4 DEF Take, ContainsFinalizer
    <3>2. /\ reset \in VirtualClusters /\ reset.finalizer /\ ~reset.deleting /\ reset.phase = "Pending"
          /\ reset.spec = crs[n].spec /\ reset.asked = crs[n].asked
      BY <2>1, <2>4 DEF VirtualClusters, Phases
    <3> HIDE DEF reset
    <3> QED  BY <1>1, <1>2, <1>4, <2>4, <3>1, <3>2, NoneIsNoResource
  <2>5. CASE ~crs[n].deleting /\ crs[n].finalizer /\ crs[n].phase # ""
    BY <1>1, <1>2, <1>4, <2>5 DEF Take, ContainsFinalizer
  <2> QED  BY <2>2, <2>3, <2>4, <2>5
<1> QED  BY <1>3, <1>4

LEMMA OperatorTypes ==
  ASSUME TypeOK, ResourceInv, Operator
  PROVE  ResourceTypes' /\ WorkTypes'
<1>1. ResourceTypes /\ WorkTypes
  BY TypeParts
<1>2. UNCHANGED <<crd, pod>> /\ DOMAIN seen' = Cached
  BY OperatorMoves DEF installVars
<1>3. ASSUME crs' \in [CrNamespaces -> VirtualClusters \cup {None}], queued' \subseteq CrNamespaces,
             \A n \in CrNamespaces : crs'[n] # None => crs[n] # None
      PROVE  ResourceTypes'
  BY <1>1, <1>2, <1>3 DEF ResourceTypes, Existing
<1>4. ASSUME NEW n \in CrNamespaces, Take(n)
      PROVE  ResourceTypes' /\ WorkTypes'
  <2>1. ResourceTypes'
    BY <1>1, <1>3, <1>4, Taken DEF ResourceTypes
  <2>2. CASE work' = Idle
    <3>1. pod
      BY <1>4, Taken
    <3> QED  BY <1>2, <2>1, <2>2, <3>1 DEF WorkTypes
  <2>3. CASE work' # Idle
    <3>1. /\ crs[n] # None /\ crs' = crs /\ pod
          /\ work' = [step |-> IF crs[n].deleting THEN "unbind" ELSE "namespace", n |-> n, cr |-> crs[n]]
      BY <1>4, <2>3, Taken
    <3>2. crs[n] \in VirtualClusters
      BY <3>1, Resource
    <3>3. work' \in [step : WorkSteps, n : CrNamespaces, cr : VirtualClusters]
      BY <3>1, <3>2 DEF WorkSteps, Ensures
    <3>4. crs'[work'.n] # None
      BY <3>1
    <3>5. pod' = pod /\ pod
      BY <1>2, <3>1
    <3> QED  BY <1>2, <2>1, <3>3, <3>4, <3>5 DEF WorkTypes
  <2> QED  BY <2>1, <2>2, <2>3
<1>5. ASSUME NEW next \in WorkSteps, Advances(next)
      PROVE  ResourceTypes' /\ WorkTypes'
  <2>1. UNCHANGED <<crs, queued>> /\ work' = [work EXCEPT !.step = next] /\ work # Idle
    BY <1>5, IdleTyped DEF Advances, GoOn, resourceVars, Follows
  <2>2. work' \in [step : WorkSteps, n : CrNamespaces, cr : VirtualClusters] /\ crs'[work'.n] # None
    BY <2>1, InHand
  <2>3. pod
    BY <2>1, InHand
  <2> QED  BY <1>1, <1>2, <1>3, <2>1, <2>2, <2>3 DEF ResourceTypes, WorkTypes
<1>6. ASSUME NEW phase \in Phases, Reports(phase)
      PROVE  ResourceTypes' /\ WorkTypes'
  <2>1. /\ crs' \in [CrNamespaces -> VirtualClusters \cup {None}]
        /\ queued' \subseteq queued \cup {work.n} /\ work.n \in CrNamespaces /\ work' = Idle
        /\ \A n \in CrNamespaces : crs'[n] # None => crs[n] # None
        /\ work # Idle
    BY <1>6, Reported, InHand
  <2>2. pod
    BY <2>1, InHand
  <2> QED  BY <1>1, <1>2, <1>3, <2>1, <2>2 DEF ResourceTypes, WorkTypes
<1>7. CASE Drops
  <2>1. pod /\ work.n \in CrNamespaces
    BY <1>7, InHand DEF Drops
  <2> QED  BY <1>1, <1>2, <1>3, <1>7, <2>1 DEF Drops, ResourceTypes, WorkTypes
<1>8. CASE RemoveFinalizer
  <2>1. work # Idle
    BY <1>8, IdleTyped DEF RemoveFinalizer, Doing
  <2>2. pod /\ work.n \in CrNamespaces
    BY <2>1, InHand
  <2>3. /\ crs' = IF crs[work.n] = work.cr THEN [crs EXCEPT ![work.n] = None] ELSE crs
        /\ queued' = queued \cup {work.n} /\ work' = Idle
    BY <1>8 DEF RemoveFinalizer
  <2>4. ResourceTypes'
    <3>1. crs' \in [CrNamespaces -> VirtualClusters \cup {None}]
      BY <1>1, <2>3 DEF ResourceTypes
    <3>2. \A n \in CrNamespaces : crs'[n] # None => crs[n] # None
      BY <1>1, <2>3 DEF ResourceTypes
    <3>3. queued' \subseteq CrNamespaces
      BY <1>1, <2>2, <2>3 DEF ResourceTypes
    <3> QED  BY <1>3, <3>1, <3>2, <3>3
  <2> QED  BY <1>1, <1>2, <2>2, <2>3, <2>4 DEF WorkTypes
<1>9. CASE UNCHANGED <<crs, queued, work>>
  BY <1>1, <1>2, <1>3, <1>9 DEF ResourceTypes, WorkTypes
<1> QED  BY <1>4, <1>5, <1>6, <1>7, <1>8, <1>9, OperatorMoves

LEMMA ProcessTypes ==
  ASSUME TypeOK, OperatorProcess
  PROVE  ResourceTypes' /\ WorkTypes'
<1>1. ResourceTypes /\ WorkTypes /\ Existing \subseteq CrNamespaces
  BY TypeParts DEF Existing
<1>2. UNCHANGED <<crs, crd>> /\ queued' \in {Existing, {}} /\ work' = Idle /\ pod' \in BOOLEAN
      /\ (pod' \/ queued' = {})
  BY <1>1 DEF OperatorProcess, OperatorStarts, OperatorStops, OperatorCrashes, WorkTypes
<1>3. DOMAIN seen' = Cached
  BY DEF OperatorProcess, Seen
<1> QED  BY <1>1, <1>2, <1>3 DEF ResourceTypes, WorkTypes, Existing

\* Every resource's invariant, apart from what the worker has in hand.
EachResource ==
  \A n \in CrNamespaces : crs[n] # None =>
    /\ crs[n].deleting \/ crs[n].phase # "" => crs[n].finalizer
    /\ schema = "manifests" => crs[n].asked = crs[n].spec.vnode

LEMMA EachOfResourceInv ==
  /\ ResourceInv => EachResource
  /\ EachResource /\ work = Idle => ResourceInv
BY IdleTyped DEF ResourceInv, EachResource, Existing, Ensures

LEMMA EachOfResourceInvNext ==
  ASSUME EachResource', work' = Idle
  PROVE  ResourceInv'
BY IdleTyped DEF ResourceInv, EachResource, Existing, Ensures

LEMMA OperatorResource ==
  ASSUME TypeOK, ResourceInv, Operator
  PROVE  ResourceInv'
<1>1. EachResource /\ schema' = schema
  BY EachOfResourceInv, OperatorMoves DEF installVars
<1>2. ASSUME UNCHANGED crs
      PROVE  EachResource'
  BY <1>1, <1>2 DEF EachResource
<1>3. ASSUME NEW n \in CrNamespaces, Take(n)
      PROVE  ResourceInv'
  <2>1. EachResource'
    <3> SUFFICES ASSUME NEW m \in CrNamespaces, crs'[m] # None
                 PROVE  /\ crs'[m].deleting \/ crs'[m].phase # "" => crs'[m].finalizer
                        /\ schema = "manifests" => crs'[m].asked = crs'[m].spec.vnode
      BY <1>1 DEF EachResource
    <3>1. CASE m # n
      <4>1. crs'[m] = crs[m]
        BY <1>3, <3>1, Taken
      <4> QED  BY <1>1, <4>1 DEF EachResource
    <3>2. CASE m = n
      <4>1. crs'[n] = crs[n] \/ (/\ crs[n] # None /\ crs'[n].finalizer
                                 /\ crs'[n].spec = crs[n].spec /\ crs'[n].asked = crs[n].asked)
        BY <1>3, Taken
      <4> QED  BY <1>1, <3>2, <4>1 DEF EachResource
    <3> QED  BY <3>1, <3>2
  <2>2. CASE work' = Idle
    BY <2>1, <2>2, EachOfResourceInvNext
  <2>3. CASE work' # Idle
    <3>1. /\ crs[n] # None /\ crs[n].finalizer /\ crs' = crs
          /\ work' = [step |-> IF crs[n].deleting THEN "unbind" ELSE "namespace", n |-> n, cr |-> crs[n]]
      BY <1>3, <2>3, Taken
    <3>2. crs[n].deleting \in BOOLEAN
      BY <3>1, Resource DEF VirtualClusters
    <3> QED  BY <2>1, <3>1, <3>2 DEF ResourceInv, EachResource, Existing, Ensures
  <2> QED  BY <2>2, <2>3
<1>4. ASSUME NEW next \in WorkSteps, Advances(next)
      PROVE  ResourceInv'
  <2>1. UNCHANGED <<crs, queued>> /\ work' = [work EXCEPT !.step = next] /\ work # Idle
    BY <1>4, IdleTyped DEF Advances, GoOn, resourceVars, Follows
  <2>2. work'.step = next /\ work'.n = work.n /\ work'.cr = work.cr
    BY <2>1, InHand
  <2>3. next \in Ensures \cup {"status"} <=> work.step \in Ensures \cup {"status"}
    BY <1>4 DEF Advances, Follows, Ensures
  <2>4. /\ next \in Ensures \cup {"status"} => ~work.cr.deleting
        /\ next \in {"unbind", "unspace", "release"} => work.cr.deleting /\ crs[work.n].deleting
    BY <2>1, <2>3, InHand DEF Ensures
  <2>5. /\ crs[work.n].finalizer /\ work.cr.finalizer
        /\ crs[work.n].spec = work.cr.spec \/ work.n \in queued
    BY <2>1 DEF ResourceInv
  <2>6. EachResource'
    BY <1>2, <2>1
  <2>7. /\ (\A n \in Existing : crs[n].deleting \/ crs[n].phase # "" => crs[n].finalizer)'
        /\ (schema = "manifests" => \A n \in Existing : crs[n].asked = crs[n].spec.vnode)'
    BY <2>6 DEF EachResource, Existing
  <2>8. (work # Idle => /\ crs[work.n].finalizer /\ work.cr.finalizer
                        /\ crs[work.n].spec = work.cr.spec \/ work.n \in queued)'
    BY <2>1, <2>2, <2>5
  <2>9. /\ (work.step \in Ensures \cup {"status"} => ~work.cr.deleting)'
        /\ (work.step \in {"unbind", "unspace", "release"} => work.cr.deleting /\ crs[work.n].deleting)'
    BY <2>1, <2>2, <2>4
  <2> QED  BY <2>7, <2>8, <2>9 DEF ResourceInv
<1>5. ASSUME NEW phase \in Phases, Reports(phase)
      PROVE  ResourceInv'
  <2>1. EachResource'
    <3> SUFFICES ASSUME NEW m \in CrNamespaces, crs'[m] # None
                 PROVE  /\ crs'[m].deleting \/ crs'[m].phase # "" => crs'[m].finalizer
                        /\ schema = "manifests" => crs'[m].asked = crs'[m].spec.vnode
      BY <1>1 DEF EachResource
    <3>1. CASE m # work.n
      <4>1. crs'[m] = crs[m]
        BY <1>5, <3>1, Reported
      <4> QED  BY <1>1, <4>1 DEF EachResource
    <3>2. CASE m = work.n
      <4>1. /\ crs'[m].finalizer
            /\ \/ crs'[m] = crs[m]
               \/ /\ crs[m] = work.cr /\ crs[m] # None
                  /\ crs'[m].spec = work.cr.spec /\ crs'[m].asked = work.cr.asked
        BY <1>5, <3>2, Reported, InHand
      <4> QED  BY <1>1, <4>1 DEF EachResource
    <3> QED  BY <3>1, <3>2
  <2> QED  BY <1>5, <2>1, Reported, EachOfResourceInvNext
<1>6. CASE Drops
  BY <1>2, <1>6, EachOfResourceInvNext DEF Drops
<1>7. CASE RemoveFinalizer
  <2>1. work' = Idle /\ crs' = IF crs[work.n] = work.cr THEN [crs EXCEPT ![work.n] = None] ELSE crs
    BY <1>7 DEF RemoveFinalizer
  <2>2. EachResource'
    <3>1. \A n \in CrNamespaces : crs'[n] = crs[n] \/ crs'[n] = None
      BY <2>1 DEF TypeOK
    <3> QED  BY <1>1, <3>1 DEF EachResource
  <2> QED  BY <2>1, <2>2, EachOfResourceInvNext
<1>8. CASE UNCHANGED <<crs, queued, work>>
  BY <1>1, <1>8 DEF ResourceInv, Existing
<1> QED  BY <1>3, <1>4, <1>5, <1>6, <1>7, <1>8, OperatorMoves

LEMMA ProcessResource ==
  ASSUME ResourceInv, OperatorProcess
  PROVE  ResourceInv'
<1>1. UNCHANGED <<crs, schema>> /\ work' = Idle
  BY DEF OperatorProcess, OperatorStarts, OperatorStops, OperatorCrashes
<1> QED  BY <1>1, EachOfResourceInv, EachOfResourceInvNext DEF EachResource

LEMMA CommandSteady ==
  ASSUME TypeOK, CommandInv, Step
  PROVE  CommandInv'
<1>1. ASSUME UNCHANGED <<pc, found>>
      PROVE  CommandInv'
  BY <1>1 DEF CommandInv, Commands
<1>2. ASSUME NEW c \in Commands, Command(c)
      PROVE  CommandInv'
  <2>1. PICK step \in CommandSteps : GoTo(c, step)
    BY <1>2, CommandMoves
  <2>2. /\ Commands' = Commands /\ pc'[c] = step /\ \A d \in Commands \ {c} : pc'[d] = pc[d]
    BY <2>1, Moves
  <2>3. CASE FindVirtualClusterCR(c)
    <3>1. found \in [Commands -> CrNamespaces \cup {0}] /\ pc' \in [Commands -> CommandSteps]
      BY <2>1, Moves DEF TypeOK
    <3>2. /\ pc'[c] = "unbind" \/ (pc'[c] = "deleteCR" /\ found'[c] \in CrNamespaces)
          /\ \A d \in Commands \ {c} : found'[d] = found[d]
      BY <2>2, <2>3, <3>1 DEF FindVirtualClusterCR, GoTo, Existing, TypeOK
    <3> QED  BY <2>2, <3>2 DEF CommandInv
  <2>4. CASE ~FindVirtualClusterCR(c)
    <3>1. found' = found
      BY <1>2, <2>4, FoundMoves
    <3>2. pc'[c] = "san" => c.op = "expose" /\ c.opts.host # NoHost
      <4>1. CASE ExposeIngress(c)
        <5>1. c.op = "expose"
          BY <4>1 DEF ExposeIngress, At
        <5>2. c.opts.host = NoHost => \E other : other # "san" /\ pc' = [pc EXCEPT ![c] = other]
          BY <4>1 DEF ExposeIngress, AfterIngress, OnHost, GoTo
        <5>3. c.opts.host = NoHost => pc'[c] # "san"
          BY <5>2 DEF TypeOK
        <5> QED  BY <5>1, <5>3
      <4>2. CASE ~ExposeIngress(c)
        <5>1. \E other : other # "san" /\ pc' = [pc EXCEPT ![c] = other]
          <6>1. CASE Install(c) \/ Uninstall(c)
            BY <6>1 DEF Install, InstallCRD, EnsureNamespaceExists, EnsureOperatorServiceAccount,
              EnsureOperatorRBAC, EnsureOperatorDeployment, EnsurePart, Uninstall, DeleteDeployment,
              DeleteRights, DeleteOperatorNamespace, UninstallCRD, GoTo
          <6>2. CASE Create(c)
            BY <6>2 DEF Create, ResolveCreateMode, CreateVirtualClusterCR, CreateNamespace,
              CreateServiceAccount, CreateRBAC, CreateServices, CreateStatefulSet,
              CreateVNodeStatefulSet, OnHost, GoTo
          <6>3. CASE Delete(c)
            BY <6>3 DEF Delete, CheckOperator, FindVirtualClusterCR, DeleteVirtualClusterCR,
              DeleteClusterRBAC, DeleteNamespace, OnHost, GoTo
          <6>4. CASE ExposeService(c) \/ ExposeTlsSan(c)
            BY <6>4 DEF ExposeService, ExposeTlsSan, OnHost, GoTo
          <6>5. CASE ConnectStarts(c) \/ AwaitReady(c) \/ AwaitAddress(c) \/ GiveUp(c)
            BY <6>5 DEF ConnectStarts, AwaitReady, AwaitAddress, GiveUp, OnHost, GoTo
          <6>6. CASE Load(c) \/ Write(c) \/ EditSpec(c) \/ FailCommand(c)
            BY <6>6 DEF Load, Write, EditSpec, FailCommand, OnHost, OnFile, GoTo
          <6> QED  BY <1>2, <4>2, <6>1, <6>2, <6>3, <6>4, <6>5, <6>6 DEF Command, Installing, Expose
        <5> QED  BY <2>2, <5>1 DEF TypeOK
      <4> QED  BY <4>1, <4>2
    <3>3. pc'[c] # "deleteCR"
      <4>1. \E other : other # "deleteCR" /\ pc' = [pc EXCEPT ![c] = other]
        <5>1. CASE Install(c) \/ Uninstall(c)
          BY <5>1 DEF Install, InstallCRD, EnsureNamespaceExists, EnsureOperatorServiceAccount,
            EnsureOperatorRBAC, EnsureOperatorDeployment, EnsurePart, Uninstall, DeleteDeployment,
            DeleteRights, DeleteOperatorNamespace, UninstallCRD, GoTo
        <5>2. CASE Create(c)
          BY <5>2 DEF Create, ResolveCreateMode, CreateVirtualClusterCR, CreateNamespace,
            CreateServiceAccount, CreateRBAC, CreateServices, CreateStatefulSet,
            CreateVNodeStatefulSet, OnHost, GoTo
        <5>3. CASE Delete(c)
          BY <2>4, <5>3 DEF Delete, CheckOperator, DeleteVirtualClusterCR,
            DeleteClusterRBAC, DeleteNamespace, OnHost, GoTo
        <5>4. CASE Expose(c)
          BY <5>4 DEF Expose, ExposeService, ExposeIngress, AfterIngress, ExposeTlsSan, OnHost, GoTo
        <5>5. CASE ConnectStarts(c) \/ AwaitReady(c) \/ AwaitAddress(c) \/ GiveUp(c)
          BY <5>5 DEF ConnectStarts, AwaitReady, AwaitAddress, GiveUp, OnHost, GoTo
        <5>6. CASE Load(c) \/ Write(c) \/ EditSpec(c) \/ FailCommand(c)
          BY <5>6 DEF Load, Write, EditSpec, FailCommand, OnHost, OnFile, GoTo
        <5> QED  BY <1>2, <5>1, <5>2, <5>3, <5>4, <5>5, <5>6 DEF Command, Installing
      <4> QED  BY <2>2, <4>1 DEF TypeOK
    <3> QED  BY <2>2, <3>1, <3>2, <3>3 DEF CommandInv
  <2> QED  BY <2>3, <2>4
<1>3. CASE Operator
  BY <1>1, <1>3, OperatorMoves DEF OperatorStep
<1>4. CASE EmptyNamespace \/ OperatorProcess \/ HostStep
  BY <1>1, <1>4 DEF EmptyNamespace, OperatorProcess, OperatorStarts, OperatorStops,
                    OperatorCrashes, HostStep, CrdRemoved, OperatorNamespaceRemoved, lifeVars
<1> QED  BY <1>2, <1>3, <1>4 DEF Step

-----------------------------------------------------------------------------
(* Type correctness.                                                       *)

BaseInv == TypeOK /\ CommandInv /\ ResourceInv

LEMMA NextBaseInv ==
  ASSUME BaseInv, Step
  PROVE  BaseInv'
<1>1. TypeOK /\ CommandInv /\ ResourceInv
  BY DEF BaseInv
<1>2. InstallTypes' /\ HistoryTypes' /\ HostTypes' /\ CommandInv'
  BY <1>1, InstallTyped, HistoryTyped, HostTyped, CommandSteady
<1>3. ASSUME NEW c \in Commands, Command(c)
      PROVE  FileTypeOK' /\ PlaceTypes' /\ ResourceTypes' /\ WorkTypes' /\ ResourceInv'
  <2>1. UNCHANGED seen
    <3>1. CASE Create(c)
      BY <3>1 DEF Create, ResolveCreateMode, CreateVirtualClusterCR, CreateNamespace,
            CreateServiceAccount, CreateRBAC, CreateServices, CreateStatefulSet,
            CreateVNodeStatefulSet, OnHost, workVars
    <3>2. CASE Delete(c)
      BY <3>2 DEF Delete, CheckOperator, FindVirtualClusterCR, DeleteVirtualClusterCR,
            DeleteClusterRBAC, DeleteNamespace, OnHost, workVars
    <3>3. CASE Expose(c)
      BY <3>3 DEF Expose, ExposeService, ExposeIngress, ExposeTlsSan, OnHost, workVars
    <3> QED  BY <1>3, <3>1, <3>2, <3>3 DEF Command, Installing, lifeVars, ConnectStarts, AwaitReady,
                AwaitAddress, GiveUp, Load, Write, EditSpec, FailCommand, OnHost, OnFile, workVars
  <2> QED  BY <1>1, <1>3, <2>1, CommandFile, CommandPlaces, CommandTouches, TouchedTypes, TouchedResource
<1>4. ASSUME UNCHANGED <<pc, found, fileVars>>
      PROVE  FileTypeOK' /\ PlaceTypes'
  <2>1. Commands' = Commands
    BY <1>4 DEF Commands
  <2>2. FileTypeOK /\ PlaceTypes
    BY <1>1, TypeParts
  <2> QED  BY <1>4, <2>1, <2>2 DEF FileTypeOK, PlaceTypes, fileVars
<1>5. CASE Operator
  <2>1. FileTypeOK' /\ PlaceTypes'
    BY <1>1, <1>4, <1>5, OperatorMoves DEF OperatorStep
  <2> QED  BY <1>1, <1>2, <1>5, <2>1, OperatorTypes, OperatorResource, TypePartsNext DEF BaseInv
<1>6. CASE EmptyNamespace \/ HostStep
  <2>1. UNCHANGED <<pc, found, fileVars, seen>>
    BY <1>6 DEF EmptyNamespace, HostStep, CrdRemoved, OperatorNamespaceRemoved, lifeVars, workVars
  <2> QED  BY <1>1, <1>2, <1>4, <1>6, <2>1, HostTouches, TouchedTypes, TouchedResource, TypePartsNext
              DEF BaseInv
<1>7. CASE OperatorProcess
  <2>1. UNCHANGED <<pc, found, fileVars>>
    BY <1>7 DEF OperatorProcess, OperatorStarts, OperatorStops, OperatorCrashes
  <2> QED  BY <1>1, <1>2, <1>4, <1>7, <2>1, ProcessTypes, ProcessResource, TypePartsNext DEF BaseInv
<1> QED  BY <1>2, <1>3, <1>5, <1>6, <1>7, TypePartsNext DEF Step, BaseInv

LEMMA InitBaseInv ==
  ASSUME Init
  PROVE  BaseInv
<1>1. PICK plan \in Plans : pc = [c \in plan |-> "planned"]
  BY DEF Init
<1>2. Commands = plan /\ \A c \in Commands : pc[c] = "planned"
  BY <1>1 DEF Commands
<1>3. Existing = {} /\ work = Idle /\ queued = {} /\ lapses = {} /\ host = Gone
  BY DEF Init, Existing
<1>4. PlaceTypes
  BY <1>1, <1>2 DEF Init, PlaceTypes, CommandSteps, Resting
<1>5. InstallTypes
  <2>1. faults = 0 /\ alone = FALSE
    BY DEF Init
  <2>2. \/ crd = "absent" /\ opNs = "absent" /\ parts = {} /\ schema = "cli"
        \/ crd = "present" /\ opNs = "present" /\ parts = Parts /\ schema \in {"cli", "manifests"}
    BY DEF Init
  <2>3. faults \in 0..MaxFaults
    BY <2>1, FaultsAssumption
  <2>5. alone \in BOOLEAN
    BY <2>1
  <2>4. /\ crd \in ObjectStates /\ schema \in {"cli", "manifests"} /\ opNs \in ObjectStates
        /\ parts \subseteq Parts /\ (opNs = "absent" => parts \subseteq {"rbac"})
    BY <2>2 DEF ObjectStates
  <2> QED  BY <2>3, <2>4, <2>5 DEF InstallTypes
<1>6. ResourceTypes
  BY <1>3 DEF Init, ResourceTypes
<1>7. HostTypes
  BY <1>3 DEF Gone, Emptied, HostTypes, HostObjects, ObjectStates
<1>8. WorkTypes /\ HistoryTypes
  BY <1>3 DEF Init, WorkTypes, HistoryTypes, Seen, Undeleted
<1>9. FileTypeOK
  BY <1>2 DEF Init, FileInit, FileTypeOK, Contexts
<1>10. CommandInv
  BY <1>2 DEF CommandInv
<1>11. ResourceInv
  BY <1>3, EachOfResourceInv DEF EachResource, Existing
<1> QED  BY <1>4, <1>5, <1>6, <1>7, <1>8, <1>9, <1>10, <1>11, TypeParts DEF BaseInv

\* Nothing of it is about what stutters.
LEMMA StutterBaseInv ==
  ASSUME BaseInv, UNCHANGED vars
  PROVE  BaseInv'
<1>1. UNCHANGED <<pc, faults, crd, schema, crs, queued, opNs, parts, pod, alone, file, copy, host,
                  work, seen, found, deleted, lapses>>
  BY DEF vars, installVars, resourceVars, lifeVars, fileVars, workVars, historyVars
<1>2. TypeOK'
  BY <1>1, TypeParts, TypePartsNext DEF BaseInv, FileTypeOK, PlaceTypes, InstallTypes, ResourceTypes,
     HostTypes, WorkTypes, HistoryTypes, Commands, Existing
<1>3. CommandInv' /\ ResourceInv'
  BY <1>1 DEF BaseInv, CommandInv, ResourceInv, Commands, Existing
<1> QED  BY <1>2, <1>3 DEF BaseInv

LEMMA SpecBaseInv == Spec => []BaseInv
<1>1. Init => BaseInv
  BY InitBaseInv
<1>2. BaseInv /\ [Step]_vars => BaseInv'
  BY NextBaseInv, StutterBaseInv
<1> QED  BY <1>1, <1>2, PTL DEF Spec

\* Every variable keeps its type, what is in a namespace goes with it, no resource is there without
\* its CRD, a process that is not there works on nothing, and a resource being applied stays until
\* its finalizer is removed (controller.go:76).
THEOREM TypesHold == Spec => []TypeOK
<1>1. BaseInv => TypeOK
  BY DEF BaseInv
<1> QED  BY <1>1, SpecBaseInv, PTL

-----------------------------------------------------------------------------
(* What is being deleted or waits for the operator.                        *)

\* How the worker goes on, for what it has in hand.
LEMMA Advanced ==
  ASSUME TypeOK, ResourceInv, NEW next \in WorkSteps, Advances(next)
  PROVE  /\ work # Idle /\ UNCHANGED <<crs, queued>>
         /\ work'.step = next /\ work'.n = work.n /\ work'.cr = work.cr
         /\ <<work.step, next>> \in Follows
<1>1. UNCHANGED <<crs, queued>> /\ work' = [work EXCEPT !.step = next] /\ work # Idle
      /\ <<work.step, next>> \in Follows
  BY IdleTyped DEF Advances, GoOn, resourceVars, Follows
<1>2. work'.step = next /\ work'.n = work.n /\ work'.cr = work.cr
  BY <1>1, InHand
<1> QED  BY <1>1, <1>2

LEMMA OperatorDeleting ==
  ASSUME TypeOK, ResourceInv, DeletingInv, Operator
  PROVE  DeletingInv'
<1> SUFFICES ASSUME pod', NEW n \in CrNamespaces, crs'[n] # None, crs'[n].deleting
             PROVE  n \in queued' \/ (work'.n = n /\ work'.step \in {"unbind", "unspace", "release"})
  BY DEF DeletingInv, Deleting
<1>1. pod /\ (crs[n] # None /\ crs[n].deleting
              => n \in queued \/ (work.n = n /\ work.step \in {"unbind", "unspace", "release"}))
  BY OperatorMoves DEF DeletingInv, Deleting
<1>2. ASSUME NEW m \in CrNamespaces, Take(m)
      PROVE  n \in queued' \/ (work'.n = n /\ work'.step \in {"unbind", "unspace", "release"})
  <2>1. work.step = "idle"
    BY <1>2, Taken, IdleTyped
  <2>2. CASE m # n
    BY <1>1, <1>2, <2>1, <2>2, Taken
  <2>3. CASE m = n
    BY <1>2, <2>3, Taken
  <2> QED  BY <2>2, <2>3
<1>3. ASSUME NEW next \in WorkSteps, Advances(next)
      PROVE  n \in queued' \/ (work'.n = n /\ work'.step \in {"unbind", "unspace", "release"})
  <2>1. work.step \in {"unbind", "unspace", "release"} => next \in {"unbind", "unspace", "release"}
    BY <1>3, Advanced DEF Follows
  <2> QED  BY <1>1, <1>3, <2>1, Advanced
<1>4. ASSUME NEW phase \in Phases, Reports(phase)
      PROVE  n \in queued'
  <2>1. work.step \notin {"unbind", "unspace", "release"}
    BY <1>4 DEF Reports, Ensures
  <2>2. CASE n # work.n
    BY <1>1, <1>4, <2>1, <2>2, Reported
  <2>3. CASE n = work.n
    BY <1>1, <1>4, <2>1, <2>3, Reported
  <2> QED  BY <2>2, <2>3
<1>5. CASE Drops
  BY <1>1, <1>5 DEF Drops
<1>6. CASE RemoveFinalizer
  <2>1. /\ crs' = IF crs[work.n] = work.cr THEN [crs EXCEPT ![work.n] = None] ELSE crs
        /\ queued' = queued \cup {work.n}
    BY <1>6 DEF RemoveFinalizer
  <2>2. crs'[n] = crs[n] \/ n = work.n
    BY <2>1 DEF TypeOK
  <2> QED  BY <1>1, <2>1, <2>2
<1>7. CASE UNCHANGED <<crs, queued, work>>
  BY <1>1, <1>7
<1> QED  BY <1>2, <1>3, <1>4, <1>5, <1>6, <1>7, OperatorMoves

LEMMA ProcessDeleting ==
  ASSUME TypeOK, OperatorProcess
  PROVE  DeletingInv'
<1>1. crs' = crs /\ (pod' => queued' = Existing)
  BY DEF OperatorProcess, OperatorStarts, OperatorStops, OperatorCrashes
<1> QED  BY <1>1 DEF DeletingInv, Deleting, Existing

LEMMA ProcessPends ==
  ASSUME TypeOK, OperatorProcess, NEW n \in CrNamespaces, NEW steps, Pends(n, steps)
  PROVE  Pends(n, steps)'
<1>1. crs' = crs /\ (pod' => queued' = Existing)
  BY DEF OperatorProcess, OperatorStarts, OperatorStops, OperatorCrashes
<1> QED  BY <1>1 DEF Pends, Existing

\* What is to come goes on being to come, until the worker passes the steps it is about, or the
\* resource goes.
LEMMA OperatorPends ==
  ASSUME TypeOK, ResourceInv, Operator, NEW n \in CrNamespaces,
         NEW steps \in SUBSET Ensures, "namespace" \in steps, Pends(n, steps)
  PROVE  \/ Pends(n, steps)'
         \/ /\ work # Idle /\ work.n = n /\ work.step \in steps
            /\ \E next \in WorkSteps \ steps : Advances(next)
         \/ RemoveFinalizer /\ work.n = n
<1>1. crs[n] # None /\ crs[n].finalizer /\ pod' = pod /\ crs[n] \in VirtualClusters /\ n # 0
  BY OperatorMoves, Resource, IdleTyped DEF Pends
<1>2. ASSUME NEW m \in CrNamespaces, Take(m)
      PROVE  Pends(n, steps)'
  <2>1. work.n = 0 /\ work = Idle
    BY <1>2, Taken, IdleTyped
  <2>2. n \in queued \/ crs[n].deleting \/ crs[n].phase # "Running"
    BY <1>1, <1>2, <2>1, Taken DEF Pends
  <2>3. CASE m # n
    <3>1. crs'[n] = crs[n] /\ (n \in queued => n \in queued') /\ work'.n # n
      BY <1>1, <1>2, <2>1, <2>3, Taken
    <3> QED  BY <1>1, <2>2, <3>1 DEF Pends
  <2>4. CASE m = n
    <3>1. CASE work' = Idle
      BY <1>1, <1>2, <2>4, <3>1, Taken DEF Pends
    <3>2. CASE work' # Idle
      <4>1. crs' = crs /\ work'.n = n
            /\ work'.step = IF crs[n].deleting THEN "unbind" ELSE "namespace"
        BY <1>1, <1>2, <2>4, <3>2, Taken
      <4> QED  BY <1>1, <4>1 DEF Pends
    <3> QED  BY <3>1, <3>2
  <2> QED  BY <2>3, <2>4
<1>3. ASSUME NEW next \in WorkSteps, Advances(next)
      PROVE  \/ Pends(n, steps)'
             \/ work # Idle /\ work.n = n /\ work.step \in steps /\ next \notin steps
  BY <1>1, <1>3, Advanced DEF Pends
<1>4. ASSUME NEW phase \in Phases, Reports(phase)
      PROVE  Pends(n, steps)'
  <2>1. work # Idle /\ work'.n = 0 /\ queued \subseteq queued'
    BY <1>4, Reported, IdleTyped
  <2>2. CASE n # work.n
    <3>1. crs'[n] = crs[n]
      BY <1>4, <2>2, Reported
    <3> QED  BY <1>1, <2>1, <2>2, <3>1 DEF Pends
  <2>3. CASE n = work.n
    <3>1. crs'[n] # None /\ crs'[n].finalizer
      BY <1>4, <2>3, Reported
    <3>2. CASE n \in queued'
      BY <3>1, <3>2 DEF Pends
    <3>3. CASE n \notin queued'
      <4>1. /\ crs[n] = work.cr /\ crs' = crs /\ crs'[n].phase = phase /\ ~crs'[n].deleting
        BY <1>4, <2>3, <3>3, Reported
      <4>2. pod /\ work.step \in steps
        BY <2>1, <2>3, <3>3, <4>1, InHand DEF Pends
      <4>3. phase # "Running"
        BY <1>4, <4>2 DEF Reports, Ensures
      <4> QED  BY <1>1, <2>1, <3>1, <4>1, <4>3 DEF Pends
    <3> QED  BY <3>2, <3>3
  <2> QED  BY <2>2, <2>3
<1>5. CASE Drops
  BY <1>1, <1>5, IdleTyped DEF Drops, Pends
<1>6. CASE RemoveFinalizer
  <2>1. /\ crs' = IF crs[work.n] = work.cr THEN [crs EXCEPT ![work.n] = None] ELSE crs
        /\ queued' = queued \cup {work.n} /\ work' = Idle
    BY <1>6 DEF RemoveFinalizer
  <2>2. CASE work.n # n
    <3>1. crs'[n] = crs[n]
      BY <2>1, <2>2 DEF TypeOK
    <3> QED  BY <1>1, <2>1, <2>2, <3>1, IdleTyped DEF Pends
  <2> QED  BY <1>6, <2>2
<1>7. CASE UNCHANGED <<crs, queued, work>>
  BY <1>1, <1>7 DEF Pends
<1> QED  BY <1>2, <1>3, <1>4, <1>5, <1>6, <1>7, OperatorMoves

\* A step of the host or of a command leaves all of it, and so does a process that ends or starts.
LEMMA Keeps ==
  ASSUME BaseInv, Step, ~Operator
  PROVE  \A n \in CrNamespaces : \A steps :
           /\ Pends(n, steps) => Pends(n, steps)'
           /\ crs[n] # None /\ crs[n].finalizer => crs'[n] # None /\ crs'[n].finalizer
<1>1. TypeOK /\ CommandInv
  BY DEF BaseInv
<1>2. CASE Touched
  BY <1>1, <1>2, TouchedPends, TouchedStays
<1>3. CASE OperatorProcess
  <2>1. crs' = crs
    BY <1>3 DEF OperatorProcess, OperatorStarts, OperatorStops, OperatorCrashes
  <2> QED  BY <1>1, <1>3, <2>1, ProcessPends
<1> QED  BY <1>1, <1>2, <1>3, CommandTouches, HostTouches DEF Step

LEMMA NextDeletingInv ==
  ASSUME BaseInv, DeletingInv, Step
  PROVE  DeletingInv'
<1>1. TypeOK /\ CommandInv /\ ResourceInv
  BY DEF BaseInv
<1> QED  BY <1>1, CommandTouches, HostTouches, TouchedDeleting, OperatorDeleting, ProcessDeleting DEF Step

-----------------------------------------------------------------------------
(* Who changes which object on the host.                                   *)

LEMMA CommandHost ==
  ASSUME TypeOK, NEW c \in Commands, Command(c)
  PROVE  /\ \/ host'.ing = host.ing /\ host'.sts = host.sts /\ host'.agents = host.agents
            \/ CreateServices(c) \/ CreateStatefulSet(c) \/ CreateVNodeStatefulSet(c)
            \/ ExposeIngress(c) \/ ExposeTlsSan(c)
         /\ host'.ns = host.ns \/ CreateNamespace(c) \/ host'.ns = "terminating"
         /\ host.ns = "terminating" => host'.ns = "terminating"
         /\ host'.role = host.role \/ CreateRBAC(c) \/ host'.role = FALSE
<1>0. host \in HostObjects
  BY HostFields
<1>1. CASE host' = host
  BY <1>1
<1>2. CASE CreateNamespace(c) \/ CreateRBAC(c)
  BY <1>0, <1>2 DEF CreateNamespace, CreateRBAC, HostObjects
<1>3. CASE CreateServices(c)
  BY <1>0, <1>3 DEF CreateServices, HostObjects
<1>4. CASE CreateStatefulSet(c) \/ CreateVNodeStatefulSet(c)
  BY <1>0, <1>4 DEF CreateStatefulSet, CreateVNodeStatefulSet, HostObjects
<1>5. CASE DeleteClusterRBAC(c) \/ DeleteNamespace(c)
  BY <1>0, <1>5 DEF DeleteClusterRBAC, DeleteNamespace, Terminated, HostObjects
<1>6. CASE ExposeService(c) \/ ExposeIngress(c) \/ ExposeTlsSan(c)
  BY <1>0, <1>6 DEF ExposeService, ExposeIngress, ExposeTlsSan, HostObjects
<1> QED  BY <1>1, <1>2, <1>3, <1>4, <1>5, <1>6 DEF Command, Installing, lifeVars, Create,
            ResolveCreateMode, CreateVirtualClusterCR, CreateServiceAccount, Delete, CheckOperator,
            FindVirtualClusterCR, DeleteVirtualClusterCR, Expose, ConnectStarts, AwaitReady,
            AwaitAddress, GiveUp, Load, Write, EditSpec, FailCommand, OnFile

LEMMA OperatorWrites ==
  ASSUME TypeOK, Operator
  PROVE  /\ host'.sts = host.sts \/ EnsureStatefulSet
         /\ host'.ing = host.ing \/ EnsureIngress
         /\ host'.agents = host.agents \/ EnsureVNodeDeployment
         /\ host'.ns = host.ns \/ EnsureNamespace \/ ReleaseNamespace
         /\ host.ns = "terminating" => host'.ns = "terminating"
         /\ host'.role = host.role \/ EnsureRBAC \/ ReleaseRBAC
<1>0. host \in HostObjects
  BY HostFields
<1>1. CASE host' = host
  BY <1>1
<1>2. CASE EnsureNamespace \/ EnsureRBAC \/ ReleaseRBAC \/ ReleaseNamespace
  BY <1>0, <1>2 DEF EnsureNamespace, EnsureRBAC, ReleaseRBAC, ReleaseNamespace, Refused, Terminated,
                    HostObjects
<1>3. CASE EnsureServices \/ EnsureVNodeDeployment
  BY <1>0, <1>3 DEF EnsureServices, EnsureVNodeDeployment, Refused, HostObjects
<1>4. CASE EnsureStatefulSet \/ EnsureIngress
  BY <1>0, <1>4 DEF EnsureStatefulSet, EnsureIngress, Refused, HostObjects
<1> QED  BY <1>1, <1>2, <1>3, <1>4 DEF Operator, Apply, Release, Take, FailEnsure, Refused,
            CheckReadiness, RemoveFinalizer, LoseWork, CatchUp

\* The operator does nothing to the host when there is no resource.
LEMMA IdleOperator ==
  ASSUME TypeOK, Operator, Existing = {}
  PROVE  UNCHANGED <<crs, host, lapses>>
<1>1. work = Idle
  <2>1. WorkTypes
    BY TypeParts
  <2> QED  BY <2>1 DEF WorkTypes, Existing
<1>2. CASE \E n \in CrNamespaces : Take(n)
  BY <1>2 DEF Take, Existing
<1>3. work.step = "idle"
  BY <1>1, IdleTyped
<1> QED  BY <1>1, <1>2, <1>3 DEF Operator, Apply, EnsureNamespace, EnsureRBAC, EnsureServices,
            EnsureStatefulSet, EnsureIngress, EnsureVNodeDeployment, CheckReadiness, FailEnsure,
            Ensures, Release, ReleaseRBAC, ReleaseNamespace, RemoveFinalizer, LoseWork, CatchUp,
            Doing, resourceVars

\* Only the create of a resource makes one.
LEMMA CommandCreates ==
  ASSUME TypeOK, NEW c \in Commands, Command(c), NEW n \in CrNamespaces, crs[n] = None, crs'[n] # None
  PROVE  CreateVirtualClusterCR(c) /\ (OtherCreate(c) => "mixed" \in lapses') /\ c.op = "create"
         /\ pc' = [pc EXCEPT ![c] = "done"]
<1>1. crs' # crs
  OBVIOUS
<1>2. crs \in [CrNamespaces -> VirtualClusters \cup {None}]
  BY DEF TypeOK
<1>3. CASE CreateVirtualClusterCR(c)
  BY <1>1, <1>3 DEF CreateVirtualClusterCR, Lapse, resourceVars, At, GoTo
<1>4. CASE UninstallCRD(c)
  BY <1>4 DEF UninstallCRD, Existing
<1>5. CASE DeleteVirtualClusterCR(c)
  BY <1>2, <1>5 DEF DeleteVirtualClusterCR
<1>6. CASE EditSpec(c)
  BY <1>2, <1>6, CommandTyped DEF EditSpec
<1>7. CASE UNCHANGED resourceVars
  BY <1>1, <1>7 DEF resourceVars
<1>8. CASE Create(c) /\ ~CreateVirtualClusterCR(c)
  BY <1>7, <1>8 DEF Create, ResolveCreateMode, CreateNamespace, CreateServiceAccount, CreateRBAC,
              CreateServices, CreateStatefulSet, CreateVNodeStatefulSet, OnHost
<1>9. CASE Delete(c) /\ ~DeleteVirtualClusterCR(c)
  BY <1>7, <1>9 DEF Delete, CheckOperator, FindVirtualClusterCR, DeleteClusterRBAC, DeleteNamespace,
              OnHost
<1>10. CASE Expose(c)
  BY <1>7, <1>10 DEF Expose, ExposeService, ExposeIngress, ExposeTlsSan, OnHost
<1>11. CASE ConnectStarts(c) \/ AwaitReady(c) \/ AwaitAddress(c) \/ GiveUp(c) \/ Load(c) \/ Write(c)
            \/ FailCommand(c)
  BY <1>7, <1>11 DEF ConnectStarts, AwaitReady, AwaitAddress, GiveUp, Load, Write, FailCommand,
                 OnHost, OnFile
<1>12. CASE Install(c) \/ (Uninstall(c) /\ ~UninstallCRD(c))
  BY <1>7, <1>12 DEF Install, InstallCRD, EnsureNamespaceExists, EnsureOperatorServiceAccount,
              EnsureOperatorRBAC, EnsureOperatorDeployment, EnsurePart, Uninstall, DeleteDeployment,
              DeleteRights, DeleteOperatorNamespace
<1> QED  BY <1>3, <1>4, <1>5, <1>6, <1>8, <1>9, <1>10, <1>11, <1>12 DEF Command, Installing

\* Expose leaves its last step by doing it or by failing.
LEMMA LeavesSan ==
  ASSUME NEW c \in Commands, Command(c), pc[c] = "san"
  PROVE  ExposeTlsSan(c) \/ (FailCommand(c) /\ "unread" \in lapses')
<1>1. CASE FailCommand(c)
  BY <1>1 DEF FailCommand
<1>2. ~Installing(c)
  BY DEF Installing, Install, InstallCRD, EnsureNamespaceExists, EnsureOperatorServiceAccount,
         EnsureOperatorRBAC, EnsureOperatorDeployment, EnsurePart, Uninstall, DeleteDeployment,
         DeleteRights, DeleteOperatorNamespace, UninstallCRD, At
<1>3. ~Create(c)
  BY DEF Create, ResolveCreateMode, CreateVirtualClusterCR, CreateNamespace, CreateServiceAccount,
         CreateRBAC, CreateServices, CreateStatefulSet, CreateVNodeStatefulSet, At
<1>4. ~Delete(c)
  BY DEF Delete, CheckOperator, FindVirtualClusterCR, DeleteVirtualClusterCR, DeleteClusterRBAC,
         DeleteNamespace, At
<1>5. Expose(c) => ExposeTlsSan(c)
  BY DEF Expose, ExposeService, ExposeIngress, At
<1>6. ~(ConnectStarts(c) \/ AwaitReady(c) \/ AwaitAddress(c) \/ GiveUp(c) \/ Load(c) \/ Write(c)
        \/ EditSpec(c))
  BY DEF ConnectStarts, AwaitReady, AwaitAddress, GiveUp, Load, Write, EditSpec, At
<1> QED  BY <1>1, <1>2, <1>3, <1>4, <1>5, <1>6 DEF Command

LEMMA SanStays ==
  ASSUME TypeOK, NEW c \in Commands, Command(c), SanPending, Clean({"unread"})', host'.ing = host.ing
  PROVE  SanPending' \/ (ExposeTlsSan(c) /\ c.opts.host = host.ing)
<1>1. PICK d \in Commands : pc[d] = "san" /\ d.opts.host = host.ing
  BY DEF SanPending
<1>2. Commands' = Commands /\ \A e \in Commands \ {c} : pc'[e] = pc[e]
  BY CommandMoves, Moves
<1>3. CASE d # c
  BY <1>1, <1>2, <1>3 DEF SanPending
<1>4. CASE d = c
  BY <1>1, <1>4, LeavesSan DEF Clean
<1> QED  BY <1>3, <1>4

\* What ExposeIngress leaves of the host's Ingress.
LEMMA ExposedHost ==
  ASSUME TypeOK, NEW c \in Commands, ExposeIngress(c), host'.ing # host.ing, host'.ing \in Hosts
  PROVE  SanPending'
<1>1. host \in HostObjects /\ c.opts.host \in Hosts \cup {NoHost}
  BY HostFields, CommandTyped DEF Options
<1>2. host'.ing = c.opts.host /\ c.opts.host # NoHost
  BY <1>1, HostsAssumption, NoneAssumption DEF ExposeIngress, BuildIngress, HostObjects
<1>3. GoTo(c, "san")
  BY <1>1, <1>2, NoneAssumption DEF ExposeIngress, AfterIngress, OnHost, HostObjects
<1>4. pc'[c] = "san" /\ Commands' = Commands
  BY <1>3, Moves DEF CommandSteps
<1> QED  BY <1>2, <1>4 DEF SanPending

-----------------------------------------------------------------------------
(* Who makes a cluster directly.                                           *)

LEMMA MakerAlone ==
  ASSUME TypeOK, MakerInv, Clean({"mixed"}), NEW c \in Commands, Making(c)
  PROVE  Existing = {} /\ work = Idle /\ work.step = "idle"
<1>1. Existing = {}
  BY DEF MakerInv
<1>2. WorkTypes
  BY TypeParts
<1>3. work = Idle
  BY <1>1, <1>2 DEF WorkTypes, Existing
<1> QED  BY <1>1, <1>3, IdleTyped

\* Who makes the cluster next: it did before, or its namespace was just made.
LEMMA BecomesMaker ==
  ASSUME TypeOK, NEW c \in Commands, Command(c), Making(c)'
  PROVE  \/ CreateNamespace(c) /\ host.ns = "absent" /\ pc'[c] = "account" /\ c.op = "create"
         \/ Making(c) /\ CreateServiceAccount(c) /\ pc'[c] = "rbac"
         \/ Making(c) /\ CreateRBAC(c) /\ pc'[c] = "services"
         \/ Making(c) /\ CreateServices(c) /\ pc'[c] = "server"
         \/ Making(c) /\ CreateStatefulSet(c) /\ pc'[c] = "agents"
<1>1. c.op = "create" /\ pc'[c] \in {"account", "rbac", "services", "server", "agents"}
  BY DEF Making
<1>2. \A step : GoTo(c, step) => pc'[c] = step
  BY DEF GoTo, TypeOK
<1>3. CASE Create(c)
  <2>1. CASE CreateNamespace(c)
    <3>1. GoTo(c, "account") \/ GoTo(c, "failed")
      BY <2>1 DEF CreateNamespace, OnHost
    <3>2. host.ns # "absent" => GoTo(c, "failed")
      BY <2>1 DEF CreateNamespace, OnHost
    <3> QED  BY <1>1, <1>2, <2>1, <3>1, <3>2
  <2>2. CASE CreateServiceAccount(c)
    <3>1. GoTo(c, "rbac") \/ GoTo(c, "failed")
      BY <2>2 DEF CreateServiceAccount, OnHost
    <3> QED  BY <1>1, <1>2, <2>2, <3>1 DEF CreateServiceAccount, At, Making
  <2>3. CASE CreateRBAC(c)
    <3>1. GoTo(c, "services") \/ GoTo(c, "failed")
      BY <2>3 DEF CreateRBAC, OnHost
    <3> QED  BY <1>1, <1>2, <2>3, <3>1 DEF CreateRBAC, At, Making
  <2>4. CASE CreateServices(c)
    <3>1. GoTo(c, "server") \/ GoTo(c, "failed")
      BY <2>4 DEF CreateServices, OnHost
    <3> QED  BY <1>1, <1>2, <2>4, <3>1 DEF CreateServices, At, Making
  <2>5. CASE CreateStatefulSet(c)
    <3>1. GoTo(c, "agents") \/ GoTo(c, "await") \/ GoTo(c, "failed")
      BY <2>5 DEF CreateStatefulSet, OnHost
    <3> QED  BY <1>1, <1>2, <2>5, <3>1 DEF CreateStatefulSet, At, Making
  <2>6. CASE ResolveCreateMode(c)
    <3>1. GoTo(c, "namespace") \/ GoTo(c, "failed") \/ GoTo(c, "makeCR")
      BY <2>6 DEF ResolveCreateMode
    <3> QED  BY <1>1, <1>2, <3>1
  <2>7. CASE CreateVirtualClusterCR(c) \/ CreateVNodeStatefulSet(c)
    <3>1. GoTo(c, "done") \/ GoTo(c, "failed") \/ GoTo(c, "await")
      BY <2>7 DEF CreateVirtualClusterCR, CreateVNodeStatefulSet, OnHost
    <3> QED  BY <1>1, <1>2, <3>1
  <2> QED  BY <1>3, <2>1, <2>2, <2>3, <2>4, <2>5, <2>6, <2>7 DEF Create
<1>4. CASE Installing(c) \/ Delete(c) \/ Expose(c) \/ ConnectStarts(c) \/ EditSpec(c)
  BY <1>1, <1>4 DEF Installing, Install, InstallCRD, EnsureNamespaceExists,
     EnsureOperatorServiceAccount, EnsureOperatorRBAC, EnsureOperatorDeployment, EnsurePart, Uninstall,
     DeleteDeployment, DeleteRights, DeleteOperatorNamespace, UninstallCRD, Delete, CheckOperator,
     FindVirtualClusterCR, DeleteVirtualClusterCR, DeleteClusterRBAC, DeleteNamespace, Expose,
     ExposeService, ExposeIngress, ExposeTlsSan, ConnectStarts, EditSpec, At
<1>5. CASE AwaitReady(c) \/ AwaitAddress(c) \/ GiveUp(c) \/ Load(c) \/ Write(c) \/ FailCommand(c)
  <2>1. \/ GoTo(c, "merge") \/ GoTo(c, "address") \/ GoTo(c, "done") \/ GoTo(c, "failed")
        \/ GoTo(c, "truncate") \/ GoTo(c, "write")
    BY <1>5 DEF AwaitReady, AwaitAddress, GiveUp, Load, Write, FailCommand, OnHost, OnFile
  <2> QED  BY <1>1, <1>2, <2>1
<1> QED  BY <1>3, <1>4, <1>5 DEF Command

\* Other commands leave what the maker relies on.
LEMMA MakerLeft ==
  ASSUME TypeOK, MakerInv, NEW c \in Commands, Command(c), Clean({"mixed"}), Clean({"mixed"})',
         NEW d \in Commands, Making(d), ~Making(c)
  PROVE  /\ Existing' = {}
         /\ ~Making(c)'
         /\ pc[d] # "agents" => /\ host'.sts = None /\ ~host'.agents
                                /\ Clean({"unread"})' /\ host'.ing \in Hosts =>
                                     SanPending' \/ (pc[d] = "server" /\ d.opts.host = host'.ing)
         /\ pc[d] = "agents" /\ host'.sts # None => host'.sts.args.vnode
<1>1. /\ Existing = {} /\ d # c /\ d.op = "create"
      /\ pc[d] \notin Resting
  BY DEF MakerInv, Making, Resting
<1>2. OtherCreate(c)
  BY <1>1 DEF OtherCreate
<1>3. Existing' = {}
  BY <1>1, <1>2, CommandCreates DEF Clean, Existing
<1>4. ~CreateNamespace(c) \/ host' = host
  BY <1>2 DEF CreateNamespace, Lapse, Clean
<1>5. ~Making(c)'
  <2>1. CASE CreateNamespace(c) /\ host.ns = "absent"
    BY <1>2, <2>1 DEF CreateNamespace, Lapse, Clean
  <2> QED  BY <2>1, BecomesMaker
<1>6. ~(CreateServices(c) \/ CreateStatefulSet(c) \/ CreateVNodeStatefulSet(c))
  BY DEF Making, CreateServices, CreateStatefulSet, CreateVNodeStatefulSet, At
<1>7. \/ host'.ing = host.ing /\ host'.sts = host.sts /\ host'.agents = host.agents
      \/ ExposeIngress(c) \/ ExposeTlsSan(c)
  BY <1>6, CommandHost
<1>8. Clean({"unread"})' => Clean({"unread"})
  <2>1. Step
    BY DEF Step
  <2> QED  BY <2>1, StaysClean
<1>9. host \in HostObjects
  BY HostFields
<1>10. CASE ExposeIngress(c)
  <2>1. host'.sts = host.sts /\ host'.agents = host.agents
    BY <1>9, <1>10 DEF ExposeIngress, HostObjects
  <2>2. host'.ing = host.ing \/ (host'.ing \in Hosts => SanPending')
    BY <1>10, ExposedHost
  <2>3. Clean({"unread"})' /\ host'.ing = host.ing /\ SanPending => SanPending'
    <3>1. ~ExposeTlsSan(c)
      BY <1>10 DEF ExposeIngress, ExposeTlsSan, At
    <3> QED  BY <3>1, SanStays
  <2> QED  BY <1>3, <1>5, <1>8, <2>1, <2>2, <2>3 DEF MakerInv
<1>11. CASE ExposeTlsSan(c)
  <2>1. pc[d] # "agents" => host' = host /\ ~Clean({"unread"})'
    <3>1. pc[d] # "agents" => host.sts = None
      BY DEF MakerInv
    <3> QED  BY <1>11, <3>1 DEF ExposeTlsSan, Lapse, Clean
  <2>2. host.sts # None => host'.sts.args.vnode = host.sts.args.vnode
    <3> SUFFICES ASSUME host.sts # None PROVE host'.sts.args.vnode = host.sts.args.vnode
      OBVIOUS
    <3>1. host.sts \in StatefulSets
      BY <1>9 DEF HostObjects
    <3>2. CASE host' = host
      BY <3>2
    <3>3. CASE host' = [host EXCEPT !.sts.args.sans = Append(@, c.opts.host)]
      BY <1>9, <3>1, <3>3 DEF HostObjects, StatefulSets
    <3> QED  BY <1>11, <3>2, <3>3 DEF ExposeTlsSan
  <2>3. host.sts = None => host' = host
    BY <1>11 DEF ExposeTlsSan
  <2> QED  BY <1>3, <1>5, <2>1, <2>2, <2>3 DEF MakerInv
<1>12. CASE host'.ing = host.ing /\ host'.sts = host.sts /\ host'.agents = host.agents /\ ~ExposeTlsSan(c)
  <2>1. Clean({"unread"})' /\ SanPending => SanPending'
    BY <1>12, SanStays
  <2> QED  BY <1>3, <1>5, <1>8, <1>12, <2>1 DEF MakerInv
<1> QED  BY <1>7, <1>10, <1>11, <1>12

LEMMA CommandMakerInv ==
  ASSUME TypeOK, MakerInv, NEW c \in Commands, Command(c)
  PROVE  MakerInv'
<1>0. Step
  BY DEF Step
<1> SUFFICES ASSUME Clean({"mixed"})', NEW d \in Commands', Making(d)'
             PROVE  (/\ Existing = {}
                     /\ \A e \in Commands : Making(e) => e = d
                     /\ pc[d] # "agents" =>
                          /\ host.sts = None /\ ~host.agents
                          /\ Clean({"unread"}) /\ host.ing \in Hosts =>
                               SanPending \/ (pc[d] = "server" /\ d.opts.host = host.ing)
                     /\ pc[d] = "agents" /\ host.sts # None => host.sts.args.vnode)'
  BY DEF MakerInv
<1>1. Clean({"mixed"}) /\ (Clean({"unread"})' => Clean({"unread"}))
  BY <1>0, StaysClean
<1>2. Commands' = Commands /\ \A e \in Commands \ {c} : pc'[e] = pc[e]
  BY CommandMoves, Moves
<1>3. CASE d # c
  <2>1. Making(d) /\ pc'[d] = pc[d]
    BY <1>2, <1>3 DEF Making
  <2>2. \A e \in Commands : Making(e) => e = d
    BY <1>1, <1>2, <2>1 DEF MakerInv
  <2>3. ~Making(c)
    BY <1>3, <2>2
  <2>4. ~Making(c)' /\ \A e \in Commands \ {c} : Making(e)' => Making(e)
    BY <1>1, <1>2, <2>1, <2>3, MakerLeft DEF Making
  <2> QED  BY <1>1, <1>2, <2>1, <2>2, <2>3, <2>4, MakerLeft
<1>4. CASE d = c
  <2>0. host \in HostObjects
    BY HostFields
  <2>1. ASSUME Making(c), Existing' = {}
        PROVE  (Existing = {} /\ \A e \in Commands : Making(e) => e = c)'
    BY <1>1, <1>2, <2>1 DEF MakerInv, Making
  <2>2. Making(c) => Existing = {}
    BY <1>1 DEF MakerInv
  <2>3. CASE CreateNamespace(c) /\ host.ns = "absent" /\ pc'[c] = "account" /\ c.op = "create"
    <3>1. Existing = {} /\ ~OtherCreate(c) /\ UNCHANGED crs
      BY <2>3 DEF CreateNamespace, Lapse, Clean, OnHost, resourceVars
    <3>2. \A e \in Commands : Making(e)' => e = c
      BY <1>2, <3>1 DEF OtherCreate, Making, Resting
    <3>3. host'.sts = None /\ ~host'.agents /\ host'.ing = None
      BY <2>0, <2>3, HostFields DEF CreateNamespace, HostObjects
    <3>4. None \notin Hosts
      BY NoneAssumption
    <3> QED  BY <1>2, <1>4, <2>3, <3>1, <3>2, <3>3, <3>4 DEF Existing
  <2>4. CASE Making(c) /\ pc'[c] \in {"rbac", "services"} /\ (CreateServiceAccount(c) \/ CreateRBAC(c))
    <3>1. /\ host'.ing = host.ing /\ host'.sts = host.sts /\ host'.agents = host.agents
          /\ UNCHANGED crs /\ pc[c] # "agents" /\ pc[c] # "server" /\ ~ExposeTlsSan(c)
      BY <2>0, <2>4 DEF CreateServiceAccount, CreateRBAC, HostObjects, OnHost, resourceVars, At, ExposeTlsSan
    <3>2. Existing' = {}
      BY <2>2, <2>4, <3>1 DEF Existing
    <3>3. Clean({"unread"})' /\ SanPending => SanPending'
      BY <3>1, SanStays
    <3> QED  BY <1>1, <1>4, <2>1, <2>4, <3>1, <3>2, <3>3 DEF MakerInv
  <2>5. CASE Making(c) /\ CreateServices(c) /\ pc'[c] = "server"
    <3>1. /\ host'.sts = host.sts /\ host'.agents = host.agents
          /\ UNCHANGED crs /\ pc[c] = "services" /\ ~ExposeTlsSan(c)
          /\ host'.ing = host.ing \/ host'.ing = c.opts.host
      BY <2>0, <2>5 DEF CreateServices, HostObjects, OnHost, resourceVars, At, ExposeTlsSan, BuildIngress
    <3>2. Existing' = {}
      BY <2>2, <2>5, <3>1 DEF Existing
    <3>3. Clean({"unread"})' /\ SanPending /\ host'.ing = host.ing => SanPending'
      BY <3>1, SanStays
    <3> QED  BY <1>1, <1>4, <2>1, <2>5, <3>1, <3>2, <3>3 DEF MakerInv
  <2>6. CASE Making(c) /\ CreateStatefulSet(c) /\ pc'[c] = "agents"
    <3>1. UNCHANGED crs /\ pc[c] = "server"
      BY <2>6 DEF CreateStatefulSet, OnHost, resourceVars, At
    <3>2. Existing' = {}
      BY <2>2, <2>6, <3>1 DEF Existing
    <3>3. c.opts \in Options /\ newStatefulSet(c.opts).args.vnode = c.opts.vnode
      BY CommandTyped, Built
    <3>4. c.opts.vnode /\ host' = [host EXCEPT !.sts = newStatefulSet(c.opts)]
      <4>1. \A step : GoTo(c, step) => pc'[c] = step
        BY DEF GoTo, TypeOK
      <4>2. GoTo(c, "failed") \/ (/\ host' = [host EXCEPT !.sts = newStatefulSet(c.opts)]
                                  /\ GoTo(c, IF c.opts.vnode THEN "agents" ELSE "await"))
        BY <2>6 DEF CreateStatefulSet, OnHost
      <4> QED  BY <2>6, <4>1, <4>2
    <3>5. host'.sts = newStatefulSet(c.opts)
      BY <2>0, <3>4 DEF HostObjects
    <3> QED  BY <1>4, <2>1, <2>6, <3>2, <3>3, <3>4, <3>5
  <2> QED  BY <1>4, <2>3, <2>4, <2>5, <2>6, BecomesMaker
<1> QED  BY <1>3, <1>4

LEMMA NextMakerInv ==
  ASSUME BaseInv, MakerInv, Step
  PROVE  MakerInv'
<1>0. TypeOK
  BY DEF BaseInv
<1>1. ASSUME NEW c \in Commands, Command(c) PROVE MakerInv'
  BY <1>0, <1>1, CommandMakerInv
<1>2. ASSUME UNCHANGED <<pc, crs, lapses>>,
             \/ host'.ing = host.ing /\ host'.sts = host.sts /\ host'.agents = host.agents
             \/ host'.ing = None /\ host'.sts = None /\ host'.agents = FALSE
      PROVE  MakerInv'
  <2>1. None \notin Hosts
    BY NoneAssumption
  <2> QED  BY <1>2, <2>1 DEF MakerInv, Making, Existing, Commands, SanPending, Clean
<1>3. CASE Operator
  <2>1. pc' = pc
    BY <1>0, <1>3, OperatorMoves DEF OperatorStep
  <2>2. CASE Existing = {}
    BY <1>0, <1>2, <1>3, <2>1, <2>2, IdleOperator
  <2>3. CASE Existing # {}
    <3>1. Clean({"mixed"}) => \A c \in Commands : ~Making(c)
      BY <2>3 DEF MakerInv
    <3>2. Clean({"mixed"})' => Clean({"mixed"})
      BY StaysClean
    <3> QED  BY <2>1, <3>1, <3>2 DEF MakerInv, Making, Commands
  <2> QED  BY <2>2, <2>3
<1>4. CASE EmptyNamespace
  BY <1>2, <1>4 DEF EmptyNamespace, Emptied, resourceVars, historyVars
<1>5. CASE OperatorProcess \/ HostStep
  BY <1>2, <1>5 DEF OperatorProcess, OperatorStarts, OperatorStops, OperatorCrashes, HostStep,
                    CrdRemoved, OperatorNamespaceRemoved, resourceVars, historyVars, lifeVars
<1> QED  BY <1>1, <1>3, <1>4, <1>5 DEF Step

-----------------------------------------------------------------------------
(* What a reconcile has passed.                                            *)

LEMMA CommandWork ==
  ASSUME BaseInv, NEW c \in Commands, Command(c)
  PROVE  work' = work
BY CommandTouches DEF BaseInv, Touched

\* Where a worker can have come from.
LEMMA CameFrom ==
  ASSUME BaseInv, Operator
  PROVE  \/ work' = work
         \/ work' = Idle
         \/ work'.step \in {"unbind", "namespace"}
         \/ /\ work'.n = work.n /\ work'.cr = work.cr /\ work # Idle
            /\ <<work.step, work'.step>> \in Follows
<1>1. TypeOK /\ ResourceInv
  BY DEF BaseInv
<1>2. ASSUME NEW n \in CrNamespaces, Take(n)
      PROVE  work' = Idle \/ work'.step \in {"unbind", "namespace"}
  BY <1>1, <1>2, Taken
<1>3. ASSUME NEW next \in WorkSteps, Advances(next)
      PROVE  work'.n = work.n /\ work'.cr = work.cr /\ work # Idle /\ <<work.step, work'.step>> \in Follows
  BY <1>1, <1>3, Advanced
<1>4. ASSUME NEW phase \in Phases, Reports(phase)
      PROVE  work' = Idle
  BY <1>1, <1>4, Reported
<1>5. Drops \/ RemoveFinalizer => work' = Idle
  BY DEF Drops, RemoveFinalizer
<1> QED  BY <1>1, <1>2, <1>3, <1>4, <1>5, OperatorMoves

\* Which action takes the worker on.
LEMMA TakenOn ==
  ASSUME BaseInv, Operator, work' # work, work' # Idle
  PROVE  /\ work'.step = "unspace" => ReleaseRBAC
         /\ work'.step = "release" => ReleaseNamespace
         /\ work'.step = "ingress" => EnsureStatefulSet
         /\ work'.step = "agents" => EnsureIngress
         /\ work'.step = "status" => EnsureVNodeDeployment
<1>1. CASE work'.step \in {"unbind", "namespace"}
  BY <1>1
<1>2. CASE <<work.step, work'.step>> \in Follows
  <2>1. \A n \in CrNamespaces : ~Take(n)
    BY <1>2, IdleTyped DEF Take, Follows
  <2>2. ~(\E kind \in Cached : CatchUp(kind)) /\ ~LoseWork /\ ~RemoveFinalizer /\ ~FailEnsure /\ ~CheckReadiness
    BY DEF CatchUp, LoseWork, RemoveFinalizer, FailEnsure, Refused, UpdateStatus, CheckReadiness
  <2>3. \/ EnsureNamespace \/ EnsureRBAC \/ EnsureServices \/ EnsureStatefulSet \/ EnsureIngress
        \/ EnsureVNodeDeployment \/ ReleaseRBAC \/ ReleaseNamespace
    BY <2>1, <2>2 DEF Operator, Apply, Release
  <2>4. /\ EnsureNamespace => work.step = "namespace"
        /\ EnsureRBAC => work.step = "roles"
        /\ EnsureServices => work.step = "services"
        /\ EnsureStatefulSet => work.step = "server"
        /\ EnsureIngress => work.step = "ingress"
        /\ EnsureVNodeDeployment => work.step = "agents"
        /\ ReleaseRBAC => work.step = "unbind"
        /\ ReleaseNamespace => work.step = "unspace"
    BY DEF EnsureNamespace, EnsureRBAC, EnsureServices, EnsureStatefulSet, EnsureIngress,
           EnsureVNodeDeployment, ReleaseRBAC, ReleaseNamespace, Doing
  <2> QED  BY <1>2, <2>3, <2>4 DEF Follows
<1> QED  BY <1>1, <1>2, CameFrom

LEMMA NextReleaseInv ==
  ASSUME BaseInv, MakerInv, ReleaseInv, Step
  PROVE  ReleaseInv'
<1>0. TypeOK /\ host \in HostObjects
  BY HostFields DEF BaseInv
<1>1. /\ Clean({"mixed"})' => Clean({"mixed"})
      /\ Clean({"mixed", "rights"})' => Clean({"mixed", "rights"}) /\ Clean({"mixed"})
  <2>1. Clean({"mixed", "rights"})' => Clean({"mixed", "rights"})
    BY StaysClean
  <2> QED  BY <2>1, StaysClean DEF Clean
<1>2. ASSUME work' = Idle
      PROVE  ReleaseInv'
  BY <1>2, IdleTyped DEF ReleaseInv
<1>3. ASSUME work' = work, host'.ns = host.ns \/ host'.ns # "present", host'.role = host.role \/ host'.role = FALSE
      PROVE  ReleaseInv'
  BY <1>1, <1>3 DEF ReleaseInv
<1>4. ASSUME NEW c \in Commands, Command(c)
      PROVE  ReleaseInv'
  <2>1. work' = work
    BY <1>4, CommandWork
  <2>2. CASE CreateNamespace(c)
    <3>1. host' = host \/ (Clean({"mixed"})' => Existing = {})
      BY <2>2 DEF CreateNamespace, Lapse, Clean
    <3>2. Existing = {} => work = Idle
      BY <1>0, TypeParts DEF WorkTypes, Existing
    <3>3. host'.role = host.role
      BY <1>0, <2>2 DEF CreateNamespace, HostObjects
    <3>4. work = Idle => work.step \notin {"unspace", "release"}
      BY IdleTyped
    <3>5. Clean({"mixed", "rights"})' => Clean({"mixed"})'
      BY DEF Clean
    <3> QED  BY <1>1, <2>1, <3>1, <3>2, <3>3, <3>4, <3>5 DEF ReleaseInv
  <2>3. CASE CreateRBAC(c)
    <3>1. Making(c) /\ host'.ns = host.ns
      BY <1>0, <2>3 DEF CreateRBAC, Making, At, HostObjects
    <3>2. Clean({"mixed"}) => work.step = "idle"
      BY <1>0, <3>1, MakerAlone
    <3> QED  BY <1>1, <2>1, <3>1, <3>2 DEF ReleaseInv
  <2>4. CASE ~CreateNamespace(c) /\ ~CreateRBAC(c)
    BY <1>0, <1>3, <1>4, <2>1, <2>4, CommandHost
  <2> QED  BY <2>2, <2>3, <2>4
<1>5. CASE Operator
  <2>1. CASE ReleaseRBAC
    <3>1. host'.role = FALSE \/ ~Clean({"mixed", "rights"})' \/ (host'.role = host.role /\ ~host.role)
      BY <1>0, <2>1 DEF ReleaseRBAC, Lapse, Clean, HostObjects
    <3>2. work'.step # "release"
      <4>1. work \in [step : WorkSteps, n : CrNamespaces, cr : VirtualClusters]
        BY <1>0, <2>1, IdleTyped, TypeParts DEF WorkTypes, ReleaseRBAC, Doing
      <4> QED  BY <2>1, <4>1 DEF ReleaseRBAC, Ensured, GoOn
    <3> QED  BY <3>1, <3>2 DEF ReleaseInv
  <2>2. CASE ReleaseNamespace
    <3>1. CASE work' = Idle
      BY <1>2, <3>1
    <3>2. CASE work' # Idle
      <4>1. host' = Terminated(host) /\ work.step = "unspace"
        BY <2>2, <3>2 DEF ReleaseNamespace, Doing
      <4>2. host'.ns # "present" /\ host'.role = host.role
        BY <1>0, <4>1 DEF Terminated, HostObjects
      <4> QED  BY <1>1, <4>1, <4>2 DEF ReleaseInv
    <3> QED  BY <3>1, <3>2
  <2>3. CASE ~ReleaseRBAC /\ ~ReleaseNamespace
    <3>1. CASE work' = work
      <4>1. work.step \in {"unspace", "release"} => ~(EnsureNamespace \/ EnsureRBAC)
        BY DEF EnsureNamespace, EnsureRBAC, Doing
      <4>2. work.step \in {"unspace", "release"} => host'.ns = host.ns /\ host'.role = host.role
        BY <1>0, <1>5, <2>3, <4>1, OperatorWrites
      <4> QED  BY <1>1, <3>1, <4>2 DEF ReleaseInv
    <3>2. CASE work' # work /\ work' # Idle
      BY <1>5, <2>3, <3>2, TakenOn DEF ReleaseInv
    <3> QED  BY <1>2, <3>1, <3>2
  <2> QED  BY <2>1, <2>2, <2>3
<1>6. CASE EmptyNamespace
  BY <1>0, <1>3, <1>6 DEF EmptyNamespace, Emptied, workVars
<1>7. CASE OperatorProcess
  BY <1>2, <1>7 DEF OperatorProcess
<1>8. CASE HostStep
  BY <1>3, <1>8 DEF HostStep, lifeVars, workVars
<1> QED  BY <1>4, <1>5, <1>6, <1>7, <1>8 DEF Step

\* Lines of arguments only grow, and by the host unless the server could not be read.
LEMMA SanAdded ==
  ASSUME TypeOK, NEW c \in Commands, ExposeTlsSan(c), c.opts.host \in Hosts
  PROVE  /\ host'.ing = host.ing /\ host'.agents = host.agents /\ host'.ns = host.ns
         /\ host'.sts = None <=> host.sts = None
         /\ host.sts # None =>
              /\ host'.sts.args.vnode = host.sts.args.vnode /\ host'.sts.env = host.sts.env
              /\ \A h : HasSan(host.sts.args, h) => HasSan(host'.sts.args, h)
              /\ HasSan(host'.sts.args, c.opts.host) \/ "unread" \in lapses'
<1>1. host \in HostObjects
  BY HostFields
<1>2. CASE host' = host /\ (host.sts = None \/ HasSan(host.sts.args, c.opts.host) \/ "unread" \in lapses')
  BY <1>2
<1>3. CASE host.sts # None /\ host' = [host EXCEPT !.sts.args.sans = Append(@, c.opts.host)]
  <2> DEFINE sans == Append(host.sts.args.sans, c.opts.host)
             args == [host.sts.args EXCEPT !.sans = sans]
             sts == [host.sts EXCEPT !.args = args]
  <2>1. host.sts \in StatefulSets /\ host.sts # None
    BY <1>1, <1>3 DEF HostObjects
  <2>2. /\ host.sts.args \in [vnode : BOOLEAN, sans : Seq(Hosts)] /\ host.sts.env \in [vnode : BOOLEAN]
        /\ host.sts.args.sans \in Seq(Hosts)
    BY <2>1 DEF StatefulSets
  <2>3. host' = [host EXCEPT !.sts.args.sans = sans]
    BY <1>3
  <2>4. [host.sts EXCEPT !.args.sans = sans] = sts
    BY <2>1 DEF StatefulSets
  <2>5. host' = [host EXCEPT !.sts = sts]
    BY <1>1, <2>3, <2>4 DEF HostObjects
  <2>6. /\ sans \in Seq(Hosts) /\ Len(sans) = Len(host.sts.args.sans) + 1
        /\ sans[Len(sans)] = c.opts.host
        /\ \A i \in 1..Len(host.sts.args.sans) : sans[i] = host.sts.args.sans[i]
        /\ Len(host.sts.args.sans) \in Nat
    BY <2>2
  <2> HIDE DEF sans
  <2>7. args.sans = sans /\ args.vnode = host.sts.args.vnode
    BY <2>2
  <2> HIDE DEF args
  <2>8. sts.args = args /\ sts.env = host.sts.env /\ sts # None
    <3>1. sts \in [args : {args}, env : {host.sts.env}]
      BY <2>1 DEF StatefulSets
    <3>2. args \in [vnode : BOOLEAN, sans : Seq(Hosts)]
      BY <2>2, <2>6 DEF args
    <3>3. sts \in StatefulSets
      BY <2>2, <3>1, <3>2 DEF StatefulSets
    <3> QED  BY <3>1, <3>3, NoneAssumption
  <2> HIDE DEF sts
  <2>9. /\ host'.ing = host.ing /\ host'.agents = host.agents /\ host'.ns = host.ns
        /\ host'.sts = sts
    BY <1>1, <2>5 DEF HostObjects
  <2>10. \A h : HasSan(host.sts.args, h) => HasSan(args, h)
    BY <2>6, <2>7 DEF HasSan
  <2>11. HasSan(args, c.opts.host)
    BY <2>6, <2>7 DEF HasSan
  <2> QED  BY <2>1, <2>7, <2>8, <2>9, <2>10, <2>11
<1> QED  BY <1>2, <1>3 DEF ExposeTlsSan, Lapse

\* What a reconcile makes of the server.
LEMMA ServerEnsured ==
  ASSUME BaseInv, EnsureStatefulSet, host'.sts # None
  PROVE  /\ Clean({"stale"})' /\ work' # Idle => host'.sts.args = BuildStatefulSet(work.cr.spec).args
         /\ \/ host'.sts = host.sts
            \/ host'.sts = BuildStatefulSet(work.cr.spec)
            \/ "flipped" \in lapses'
         /\ work.cr.spec \in Options /\ host'.ing = host.ing /\ host'.agents = host.agents
<1>1. host \in HostObjects /\ TypeOK /\ ResourceInv
  BY HostFields DEF BaseInv
<1>2. work # Idle
  BY IdleTyped DEF EnsureStatefulSet, Doing
<1>3. work.cr.spec \in Options
  BY <1>1, <1>2, InHand DEF VirtualClusters
<1>4. host'.ing = host.ing /\ host'.agents = host.agents
  BY <1>1 DEF EnsureStatefulSet, Refused, HostObjects
<1>5. CASE Refused
  BY <1>3, <1>4, <1>5 DEF Refused, UpdateStatus
<1>6. CASE ~Refused
  <2> DEFINE desired == BuildStatefulSet(work.cr.spec)
             same == seen.sts # None /\ seen.sts.args = desired.args
             sts == IF seen.sts = None THEN desired ELSE [seen.sts EXCEPT !.args = desired.args]
  <2>1. /\ host' = IF same THEN host ELSE [host EXCEPT !.sts = sts]
        /\ lapses' = lapses \cup (IF ~same /\ sts # desired THEN {"flipped"} ELSE {})
                            \cup (IF host'.sts # None /\ host'.sts.args # desired.args
                                  THEN {"stale"} ELSE {})
    BY <1>6 DEF EnsureStatefulSet
  <2> HIDE DEF desired
  <2>2. Clean({"stale"})' => host'.sts.args = desired.args
    BY <2>1 DEF Clean
  <2> HIDE DEF same, sts
  <2>3. same => host'.sts = host.sts
    BY <2>1
  <2>4. ~same => host'.sts = sts
    BY <1>1, <2>1 DEF HostObjects
  <2>5. ~same /\ sts # desired => "flipped" \in lapses'
    BY <2>1
  <2> QED  BY <1>3, <1>4, <2>2, <2>3, <2>4, <2>5 DEF desired
<1> QED  BY <1>5, <1>6

LEMMA NextEnvInv ==
  ASSUME BaseInv, EnvInv, Step
  PROVE  EnvInv'
<1>0. TypeOK /\ CommandInv /\ host \in HostObjects
  BY HostFields DEF BaseInv
<1>1. lapses \subseteq lapses'
  BY LapsesGrow
<1>2. ASSUME host'.sts \in {host.sts, None}
      PROVE  EnvInv'
  BY <1>1, <1>2 DEF EnvInv
<1>3. ASSUME NEW c \in Commands, Command(c)
      PROVE  EnvInv'
  <2>0. c.opts \in Options /\ c.opts.host \in Hosts \cup {NoHost}
    BY <1>0, CommandTyped DEF Options
  <2>1. CASE CreateStatefulSet(c)
    <3>1. host' = host \/ host'.sts = newStatefulSet(c.opts)
      BY <1>0, <2>1 DEF CreateStatefulSet, HostObjects
    <3> QED  BY <1>2, <2>0, <3>1, Built DEF EnvInv
  <2>2. CASE ExposeTlsSan(c)
    <3>1. c.opts.host \in Hosts
      BY <1>0, <2>0, <2>2 DEF ExposeTlsSan, At, CommandInv
    <3> QED  BY <1>0, <1>1, <2>2, <3>1, SanAdded DEF EnvInv
  <2>3. CASE CreateServices(c) \/ CreateVNodeStatefulSet(c) \/ ExposeIngress(c)
    BY <1>0, <1>2, <2>3 DEF CreateServices, CreateVNodeStatefulSet, ExposeIngress, HostObjects
  <2> QED  BY <1>0, <1>2, <1>3, <2>1, <2>2, <2>3, CommandHost
<1>4. CASE Operator
  <2>1. CASE EnsureStatefulSet
    <3>1. host'.sts # None => \/ host'.sts = host.sts
                              \/ host'.sts = BuildStatefulSet(work.cr.spec) /\ work.cr.spec \in Options
                              \/ "flipped" \in lapses'
      BY <2>1, ServerEnsured
    <3> QED  BY <1>1, <3>1, Built DEF EnvInv
  <2> QED  BY <1>0, <1>2, <1>4, <2>1, OperatorWrites
<1>5. CASE EmptyNamespace
  BY <1>2, <1>5 DEF EmptyNamespace, Emptied
<1>6. CASE OperatorProcess \/ HostStep
  BY <1>2, <1>6 DEF OperatorProcess, HostStep, lifeVars
<1> QED  BY <1>3, <1>4, <1>5, <1>6 DEF Step

\* Below the server's step nobody but the worker makes a server or agents.
LEMMA NextServerInv ==
  ASSUME BaseInv, MakerInv, ServerInv, Step
  PROVE  ServerInv'
<1>0. TypeOK /\ CommandInv /\ ResourceInv /\ host \in HostObjects
  BY HostFields DEF BaseInv
<1>1. Clean({"stale", "mixed"})' => Clean({"stale", "mixed"}) /\ Clean({"stale"})' /\ Clean({"mixed"})
  <2>1. Clean({"stale", "mixed"})' => Clean({"stale", "mixed"})
    BY StaysClean
  <2> QED  BY <2>1 DEF Clean
<1>2. ASSUME work'.step \notin {"ingress", "agents", "status"}
      PROVE  ServerInv'
  BY <1>2 DEF ServerInv
<1>3. ASSUME work' = work, host'.sts = host.sts \/ host'.sts = None, host'.agents = host.agents \/ host'.sts = None
      PROVE  ServerInv'
  BY <1>1, <1>3 DEF ServerInv
<1>4. ASSUME NEW c \in Commands, Command(c)
      PROVE  ServerInv'
  <2>0. c.opts \in Options /\ c.opts.host \in Hosts \cup {NoHost}
    BY <1>0, CommandTyped DEF Options
  <2>1. work' = work
    BY <1>4, CommandWork
  <2>2. CASE CreateStatefulSet(c) \/ CreateVNodeStatefulSet(c)
    <3>1. Making(c)
      BY <2>2 DEF CreateStatefulSet, CreateVNodeStatefulSet, Making, At
    <3>2. Clean({"mixed"}) => work.step = "idle"
      BY <1>0, <3>1, MakerAlone
    <3> QED  BY <1>1, <2>1, <3>2 DEF ServerInv
  <2>3. CASE ExposeTlsSan(c)
    <3>1. c.opts.host \in Hosts
      BY <1>0, <2>0, <2>3 DEF ExposeTlsSan, At, CommandInv
    <3> QED  BY <1>0, <1>1, <2>1, <2>3, <3>1, SanAdded DEF ServerInv
  <2>4. CASE CreateServices(c) \/ ExposeIngress(c)
    <3>1. host'.sts = host.sts /\ host'.agents = host.agents
      BY <1>0, <2>4 DEF CreateServices, ExposeIngress, HostObjects
    <3> QED  BY <1>3, <2>1, <3>1
  <2> QED  BY <1>0, <1>3, <1>4, <2>1, <2>2, <2>3, <2>4, CommandHost
<1>5. CASE Operator
  <2>1. CASE work' = work
    <3>1. ~EnsureStatefulSet /\ ~EnsureVNodeDeployment
      BY <1>0, <2>1, IdleTyped, InHand DEF EnsureStatefulSet, EnsureVNodeDeployment, Doing, Refused,
         UpdateStatus, Ensured, GoOn
    <3> QED  BY <1>0, <1>3, <1>5, <2>1, <3>1, OperatorWrites
  <2>2. CASE work' # work /\ work' # Idle /\ work'.step = "ingress"
    <3>1. EnsureStatefulSet
      BY <1>5, <2>2, TakenOn
    <3>2. work'.cr = work.cr
      BY <1>0, <1>5, <2>2, CameFrom DEF Idle
    <3>3. host'.sts # None /\ Clean({"stale"})' =>
            work.cr.spec \in Options /\ host'.sts.args = BuildStatefulSet(work.cr.spec).args
      BY <2>2, <3>1, ServerEnsured
    <3> QED  BY <1>1, <2>2, <3>2, <3>3, Built DEF ServerInv
  <2>3. CASE work' # work /\ work' # Idle /\ work'.step = "agents"
    <3>1. EnsureIngress /\ work.step = "ingress"
      BY <1>5, <2>3, TakenOn DEF EnsureIngress, Doing
    <3>2. work'.cr = work.cr
      BY <1>0, <1>5, <2>3, CameFrom DEF Idle
    <3>3. host'.sts = host.sts
      BY <1>0, <3>1 DEF EnsureIngress, Refused, HostObjects
    <3> QED  BY <1>1, <2>3, <3>1, <3>2, <3>3 DEF ServerInv
  <2>4. CASE work' # work /\ work' # Idle /\ work'.step = "status"
    <3>1. EnsureVNodeDeployment /\ ~Refused
      BY <1>5, <2>4, TakenOn DEF Refused, UpdateStatus
    <3>2. work'.cr = work.cr
      BY <1>0, <1>5, <2>4, CameFrom DEF Idle
    <3>3. host'.agents = work.cr.spec.vnode
      BY <1>0, <3>1 DEF EnsureVNodeDeployment, HostObjects
    <3> QED  BY <1>1, <2>4, <3>2, <3>3 DEF ServerInv
  <2> QED  BY <1>2, <2>1, <2>2, <2>3, <2>4, IdleTyped
<1>6. CASE EmptyNamespace
  BY <1>3, <1>6 DEF EmptyNamespace, Emptied, workVars
<1>7. CASE OperatorProcess
  BY <1>2, <1>7, IdleTyped DEF OperatorProcess
<1>8. CASE HostStep
  BY <1>3, <1>8 DEF HostStep, lifeVars, workVars
<1> QED  BY <1>4, <1>5, <1>6, <1>7, <1>8 DEF Step

-----------------------------------------------------------------------------
(* The host that is advertised.                                            *)

\* What has a namespace that is not going away, or has no server.
LEMMA Excused ==
  ASSUME BaseInv', host'.ns # "present", host'.sts # None
  PROVE  host'.ns = "terminating"
<1>1. HostTypes'
  BY TypePartsNext DEF BaseInv
<1> QED  BY <1>1 DEF HostTypes, HostObjects, ObjectStates, Emptied

LEMMA PendingKept ==
  ASSUME BaseInv, Step, ~Operator, NEW steps, Pending(steps)
  PROVE  Pending(steps)'
BY Keeps DEF Pending

LEMMA OperatorPending ==
  ASSUME BaseInv, ReleaseInv, Operator, NEW steps \in SUBSET Ensures, "namespace" \in steps,
         Pending(steps), Clean({"mixed"})
  PROVE  \/ Pending(steps)'
         \/ host'.ns # "present"
         \/ work.step \in steps /\ \E next \in WorkSteps \ steps : Advances(next)
<1>1. TypeOK /\ ResourceInv
  BY DEF BaseInv
<1>2. PICK n \in CrNamespaces : Pends(n, steps)
  BY DEF Pending
<1>3. RemoveFinalizer => host'.ns # "present"
  BY DEF RemoveFinalizer, Doing, ReleaseInv
<1> QED  BY <1>1, <1>2, <1>3, OperatorPends DEF Pending

\* A worker that is not past these steps has its resource to come.
LEMMA AdvancePends ==
  ASSUME BaseInv, Operator, NEW next \in WorkSteps, Advances(next), NEW steps, next \in steps
  PROVE  Pends(work.n, steps)' /\ work.n \in CrNamespaces
<1>1. TypeOK /\ ResourceInv
  BY DEF BaseInv
<1> QED  BY <1>1, Advanced, InHand DEF Pends

LEMMA CommandCertInv ==
  ASSUME BaseInv, BaseInv', MakerInv, CertInv, NEW c \in Commands, Command(c)
  PROVE  CertInv'
<1>0. TypeOK /\ CommandInv /\ host \in HostObjects /\ Step
  BY HostFields DEF BaseInv, Step
<1> SUFFICES ASSUME Clean({"unread", "stale", "mixed"})', host'.sts # None, host'.ing \in Hosts,
                    ~HasSan(host'.sts.args, host'.ing)
             PROVE  host'.ns = "terminating" \/ SanPending' \/ Pending(ToIngress)'
  BY DEF CertInv
<1>1. Clean({"unread", "stale", "mixed"}) /\ Clean({"mixed"}) /\ Clean({"unread"}) /\ Clean({"unread"})'
  <2>1. Clean({"unread", "stale", "mixed"})
    BY <1>0, StaysClean
  <2> QED  BY <2>1 DEF Clean
<1>2. c.opts \in Options /\ c.opts.host \in Hosts \cup {NoHost}
  BY <1>0, CommandTyped DEF Options
<1>3. ASSUME host'.ing = host.ing, host.sts # None, ~HasSan(host.sts.args, host.ing),
             ~ExposeTlsSan(c) \/ c.opts.host # host.ing
      PROVE  host'.ns = "terminating" \/ SanPending' \/ Pending(ToIngress)'
  <2>1. host.ns = "terminating" \/ SanPending \/ Pending(ToIngress)
    BY <1>1, <1>3 DEF CertInv
  <2>2. Pending(ToIngress) => Pending(ToIngress)'
    <3>1. \A n \in CrNamespaces : Pends(n, ToIngress) => Pends(n, ToIngress)'
      BY <1>0, CommandTouches, TouchedPends
    <3> QED  BY <3>1 DEF Pending
  <2> QED  BY <1>0, <1>1, <1>3, <2>1, <2>2, SanStays, CommandHost
<1>4. CASE ExposeTlsSan(c)
  <2>1. c.opts.host \in Hosts
    BY <1>0, <1>2, <1>4 DEF ExposeTlsSan, At, CommandInv
  <2>2. host'.ing = host.ing /\ host.sts # None /\ ~HasSan(host.sts.args, host.ing) /\ c.opts.host # host.ing
    BY <1>0, <1>1, <1>4, <2>1, SanAdded DEF Clean
  <2> QED  BY <1>3, <2>2
<1>5. CASE ExposeIngress(c)
  <2>1. CASE host'.ing # host.ing
    BY <1>0, <1>5, <2>1, ExposedHost
  <2>2. CASE host'.ing = host.ing
    <3>1. host'.sts = host.sts /\ ~ExposeTlsSan(c)
      BY <1>0, <1>5 DEF ExposeIngress, ExposeTlsSan, HostObjects, At
    <3> QED  BY <1>3, <2>2, <3>1
  <2> QED  BY <2>1, <2>2
<1>6. CASE CreateServices(c)
  <2>1. Making(c) /\ pc[c] # "agents" /\ host'.sts = host.sts
    BY <1>0, <1>6 DEF CreateServices, Making, At, HostObjects
  <2> QED  BY <1>1, <2>1 DEF MakerInv
<1>7. CASE CreateStatefulSet(c)
  <2>1. Making(c) /\ pc[c] = "server" /\ host'.ing = host.ing /\ ~ExposeTlsSan(c)
    BY <1>0, <1>7 DEF CreateStatefulSet, Making, At, HostObjects, ExposeTlsSan
  <2>2. host.sts = None /\ (SanPending \/ c.opts.host = host.ing)
    BY <1>1, <2>1 DEF MakerInv
  <2>3. host'.sts = newStatefulSet(c.opts)
    BY <1>0, <1>7, <2>2 DEF CreateStatefulSet, HostObjects
  <2>4. c.opts.host # host.ing
    BY <1>2, <2>1, <2>3, Built
  <2> QED  BY <1>0, <1>1, <2>1, <2>2, <2>4, SanStays
<1>8. CASE CreateVNodeStatefulSet(c)
  <2>1. host'.sts = host.sts /\ host'.ing = host.ing /\ ~ExposeTlsSan(c)
    BY <1>0, <1>8 DEF CreateVNodeStatefulSet, At, HostObjects, ExposeTlsSan
  <2> QED  BY <1>3, <2>1
<1> QED  BY <1>0, <1>3, <1>4, <1>5, <1>6, <1>7, <1>8, CommandHost

LEMMA OperatorCertInv ==
  ASSUME BaseInv, BaseInv', ReleaseInv, ServerInv, CertInv, Operator
  PROVE  CertInv'
<1>0. TypeOK /\ ResourceInv /\ host \in HostObjects /\ Step
  BY HostFields DEF BaseInv, Step
<1> SUFFICES ASSUME Clean({"unread", "stale", "mixed"})', host'.sts # None, host'.ing \in Hosts,
                    ~HasSan(host'.sts.args, host'.ing)
             PROVE  host'.ns = "terminating" \/ SanPending' \/ Pending(ToIngress)'
  BY DEF CertInv
<1>1. /\ Clean({"unread", "stale", "mixed"}) /\ Clean({"mixed"}) /\ Clean({"stale", "mixed"})
      /\ Clean({"stale"})'
  <2>1. Clean({"unread", "stale", "mixed"})
    BY <1>0, StaysClean
  <2> QED  BY <2>1 DEF Clean
<1>2. CASE \E next \in WorkSteps \cap ToIngress : Advances(next)
  <2>1. PICK next \in WorkSteps \cap ToIngress : Advances(next)
    BY <1>2
  <2>2. Pends(work.n, ToIngress)' /\ work.n \in CrNamespaces
    BY <2>1, AdvancePends
  <2>3. work'.n = work.n
    BY <1>0, <2>1, Advanced
  <2>4. \E n \in CrNamespaces : Pends(n, ToIngress)'
    BY <2>2, <2>3
  <2> QED  BY <2>4 DEF Pending
<1>3. CASE Advances("agents")
  <2>1. EnsureIngress /\ work.step = "ingress" /\ ~Refused
    <3>1. work' # work /\ work' # Idle /\ work'.step = "agents"
      BY <1>0, <1>3, Advanced, IdleTyped DEF WorkSteps, Ensures, Follows
    <3> QED  BY <3>1, TakenOn DEF EnsureIngress, Doing, Refused, UpdateStatus
  <2>2. host'.sts = host.sts
    BY <1>0, <2>1 DEF EnsureIngress, HostObjects
  <2>3. None \notin Hosts
    BY NoneAssumption
  <2>4. work.cr.spec.expose = "Ingress" /\ host'.ing = work.cr.spec.host
    BY <1>0, <1>1, <2>1, <2>3 DEF EnsureIngress, BuildIngress, Lapse, Clean, HostObjects
  <2> QED  BY <1>1, <2>1, <2>2, <2>4 DEF ServerInv
<1>4. CASE ~(\E next \in WorkSteps \cap ToIngress : Advances(next)) /\ ~Advances("agents")
  <2>1. host'.sts = host.sts /\ host'.ing = host.ing
    <3>1. ~EnsureStatefulSet \/ host' = host
      <4>1. CASE EnsureStatefulSet /\ ~Refused
        <5>1. Advances("ingress")
          BY <4>1 DEF EnsureStatefulSet, Doing, Ensured, Advances, Follows
        <5> QED  BY <1>4, <5>1 DEF WorkSteps, Ensures, ToIngress
      <4> QED  BY <4>1 DEF Refused
    <3>2. ~EnsureIngress \/ host' = host
      <4>1. CASE EnsureIngress /\ ~Refused
        <5>1. Advances("agents")
          BY <4>1 DEF EnsureIngress, Doing, Ensured, Advances, Follows
        <5> QED  BY <1>4, <5>1
      <4> QED  BY <4>1 DEF Refused
    <3> QED  BY <1>0, <3>1, <3>2, OperatorWrites
  <2>2. host.ns = "terminating" \/ SanPending \/ Pending(ToIngress)
    BY <1>1, <2>1 DEF CertInv
  <2>3. CASE host.ns = "terminating"
    BY <1>0, <2>3, OperatorWrites
  <2>4. CASE SanPending
    BY <1>0, <2>1, <2>4, OperatorMoves DEF OperatorStep, SanPending, Commands
  <2>5. CASE Pending(ToIngress)
    <3>1. ToIngress \in SUBSET Ensures /\ "namespace" \in ToIngress
      BY DEF ToIngress, Ensures
    <3>2. \/ Pending(ToIngress)'
          \/ host'.ns # "present"
          \/ work.step \in ToIngress /\ \E next \in WorkSteps \ ToIngress : Advances(next)
      BY <1>1, <2>5, <3>1, OperatorPending
    <3>3. \A next \in WorkSteps \ ToIngress : ~(work.step \in ToIngress /\ Advances(next))
      BY <1>4 DEF Advances, Follows, ToIngress, Ensures
    <3> QED  BY <3>2, <3>3, Excused
  <2> QED  BY <2>2, <2>3, <2>4, <2>5
<1> QED  BY <1>2, <1>3, <1>4

LEMMA NextCertInv ==
  ASSUME BaseInv, BaseInv', MakerInv, ReleaseInv, ServerInv, CertInv, Step
  PROVE  CertInv'
<1>1. CASE EmptyNamespace
  BY <1>1 DEF EmptyNamespace, Emptied, CertInv
<1>2. CASE ~Operator /\ (OperatorProcess \/ HostStep)
  <2>1. UNCHANGED <<pc, host, lapses>>
    BY <1>2 DEF OperatorProcess, OperatorStarts, OperatorStops, OperatorCrashes, HostStep, CrdRemoved,
                OperatorNamespaceRemoved, lifeVars, historyVars
  <2>2. Pending(ToIngress) => Pending(ToIngress)'
    BY <1>2, PendingKept
  <2> QED  BY <2>1, <2>2 DEF CertInv, Clean, SanPending, Commands
<1> QED  BY <1>1, <1>2, CommandCertInv, OperatorCertInv DEF Step

-----------------------------------------------------------------------------
(* The mode of the server and that of the agents.                          *)

\* A create that has failed is over, and one at its last step makes the agents or fails.
LEMMA CreateGoesOn ==
  ASSUME NEW c \in Commands, Command(c), c.op = "create"
  PROVE  /\ pc[c] # "failed"
         /\ pc[c] = "agents" => CreateVNodeStatefulSet(c) \/ (FailCommand(c) /\ GoTo(c, "failed"))
<1>1. CASE FailCommand(c)
  BY <1>1 DEF FailCommand, OnHost, Resting
<1>2. ~Installing(c)
  BY DEF Installing, Install, InstallCRD, EnsureNamespaceExists, EnsureOperatorServiceAccount,
         EnsureOperatorRBAC, EnsureOperatorDeployment, EnsurePart, Uninstall, DeleteDeployment,
         DeleteRights, DeleteOperatorNamespace, UninstallCRD, At
<1>3. CASE Create(c)
  BY <1>3 DEF Create, ResolveCreateMode, CreateVirtualClusterCR, CreateNamespace, CreateServiceAccount,
         CreateRBAC, CreateServices, CreateStatefulSet, CreateVNodeStatefulSet, At
<1>4. ~(Delete(c) \/ Expose(c) \/ ConnectStarts(c) \/ EditSpec(c))
  BY DEF Delete, CheckOperator, FindVirtualClusterCR, DeleteVirtualClusterCR, DeleteClusterRBAC,
         DeleteNamespace, Expose, ExposeService, ExposeIngress, ExposeTlsSan, ConnectStarts, EditSpec, At
<1>5. CASE AwaitReady(c) \/ AwaitAddress(c) \/ GiveUp(c) \/ Load(c) \/ Write(c)
  BY <1>5 DEF AwaitReady, AwaitAddress, GiveUp, Load, Write
<1> QED  BY <1>1, <1>2, <1>3, <1>4, <1>5 DEF Command

LEMMA CommandAgentsInv ==
  ASSUME BaseInv, BaseInv', MakerInv, AgentsInv, NEW c \in Commands, Command(c)
  PROVE  AgentsInv'
<1>0. TypeOK /\ CommandInv /\ host \in HostObjects /\ Step
  BY HostFields DEF BaseInv, Step
<1>1. /\ Commands' = Commands /\ \A d \in Commands \ {c} : pc'[d] = pc[d]
      /\ \A step : GoTo(c, step) => pc'[c] = step
  BY <1>0, CommandMoves, Moves DEF GoTo, TypeOK
<1> SUFFICES ASSUME Clean({"stale", "mixed"})', ~CreateFailed', host'.sts # None,
                    host'.agents # host'.sts.args.vnode
             PROVE  \/ host'.ns = "terminating" \/ Pending(Ensures)'
                    \/ \E d \in Commands : d.op = "create" /\ pc'[d] = "agents"
  BY <1>1 DEF AgentsInv
<1>2. Clean({"stale", "mixed"}) /\ Clean({"mixed"})
  <2>1. Clean({"stale", "mixed"})
    BY <1>0, StaysClean
  <2> QED  BY <2>1 DEF Clean
<1>3. ~CreateFailed /\ ~(c.op = "create" /\ pc'[c] = "failed")
  BY <1>1, CreateGoesOn DEF CreateFailed
<1>4. ASSUME CreateVNodeStatefulSet(c)
      PROVE  FALSE
  <2>1. Making(c) /\ pc[c] = "agents" /\ c.op = "create"
    BY <1>4 DEF CreateVNodeStatefulSet, At, Making
  <2>2. Accepts
    BY <1>1, <1>3, <1>4, <2>1 DEF CreateVNodeStatefulSet, OnHost
  <2>3. host'.agents = TRUE /\ host'.sts = host.sts
    BY <1>0, <1>4, <2>2 DEF CreateVNodeStatefulSet, HostObjects
  <2>4. host.sts.args.vnode = TRUE
    <3>1. host.sts.args.vnode \in BOOLEAN
      BY <1>0, <2>3 DEF HostObjects, StatefulSets
    <3> QED  BY <1>2, <2>1, <2>3, <3>1 DEF MakerInv
  <2> QED  BY <2>3, <2>4
<1>5. ASSUME host.sts # None, host'.agents = host.agents, host'.sts.args.vnode = host.sts.args.vnode
      PROVE  \/ host'.ns = "terminating" \/ Pending(Ensures)'
             \/ \E d \in Commands : d.op = "create" /\ pc'[d] = "agents"
  <2>1. CASE host.ns = "terminating"
    BY <1>0, <2>1, CommandHost
  <2>2. CASE Pending(Ensures)
    <3>1. \A n \in CrNamespaces : Pends(n, Ensures) => Pends(n, Ensures)'
      BY <1>0, CommandTouches, TouchedPends
    <3> QED  BY <2>2, <3>1 DEF Pending
  <2>3. ASSUME NEW d \in Commands, d.op = "create", pc[d] = "agents"
        PROVE  pc'[d] = "agents"
    BY <1>1, <1>3, <1>4, <2>3, CreateGoesOn
  <2> QED  BY <1>2, <1>3, <1>5, <2>1, <2>2, <2>3 DEF AgentsInv
<1>6. CASE CreateStatefulSet(c)
  <2>1. Making(c) /\ pc[c] = "server" /\ c.op = "create"
    BY <1>6 DEF CreateStatefulSet, At, Making
  <2>2. Accepts /\ host.sts = None /\ ~host.agents
    BY <1>1, <1>2, <1>3, <1>6, <2>1 DEF CreateStatefulSet, OnHost, MakerInv
  <2>3. host'.sts = newStatefulSet(c.opts) /\ host'.agents = host.agents
        /\ (c.opts.vnode => pc'[c] = "agents")
    BY <1>0, <1>1, <1>6, <2>2 DEF CreateStatefulSet, HostObjects, OnHost
  <2>4. host'.sts.args.vnode = c.opts.vnode /\ c.opts.vnode \in BOOLEAN /\ host.agents \in BOOLEAN
    <3>1. c.opts \in Options
      BY <1>0, CommandTyped
    <3> QED  BY <1>0, <2>3, <3>1, Built DEF Options, HostObjects
  <2> QED  BY <2>1, <2>2, <2>3, <2>4
<1>7. CASE ExposeTlsSan(c)
  <2>1. c.opts.host \in Hosts
    <3>1. c.opts.host \in Hosts \cup {NoHost}
      BY <1>0, CommandTyped DEF Options
    <3> QED  BY <1>0, <1>7, <3>1 DEF ExposeTlsSan, At, CommandInv
  <2> QED  BY <1>0, <1>5, <1>7, <2>1, SanAdded
<1>8. CASE CreateServices(c) \/ ExposeIngress(c)
  <2>1. host'.sts = host.sts /\ host'.agents = host.agents
    BY <1>0, <1>8 DEF CreateServices, ExposeIngress, HostObjects
  <2> QED  BY <1>5, <2>1
<1> QED  BY <1>0, <1>4, <1>5, <1>6, <1>7, <1>8, CommandHost

\* The operator changes the server and the agents when it goes on.
LEMMA ServerSteps ==
  ASSUME BaseInv, Operator
  PROVE  /\ host'.sts = host.sts \/ Advances("ingress")
         /\ \/ host'.agents = host.agents
            \/ Advances("status") /\ host'.agents = work.cr.spec.vnode
         /\ host'.sts = host.sts \/ host'.agents = host.agents
         /\ Advances("status") => host'.agents = work.cr.spec.vnode /\ work.step = "agents"
<1>1. TypeOK /\ ResourceInv /\ host \in HostObjects
  BY HostFields DEF BaseInv
<1>2. CASE EnsureStatefulSet
  <2>1. host'.sts = host.sts \/ ~Refused
    BY <1>2 DEF Refused
  <2>2. ~Refused => Advances("ingress")
    BY <1>2 DEF EnsureStatefulSet, Doing, Ensured, Advances, Follows
  <2>3. host'.agents = host.agents
    BY <1>1, <1>2 DEF EnsureStatefulSet, Refused, HostObjects
  <2>4. work.step # "agents"
    BY <1>2 DEF EnsureStatefulSet, Doing
  <2> QED  BY <2>1, <2>2, <2>3, <2>4 DEF Advances, Follows
<1>3. CASE EnsureVNodeDeployment
  <2>1. host'.agents = host.agents \/ ~Refused
    BY <1>3 DEF Refused
  <2>2. ~Refused => Advances("status") /\ host' = [host EXCEPT !.agents = work.cr.spec.vnode]
    BY <1>3 DEF EnsureVNodeDeployment, Doing, Ensured, Advances, Follows
  <2>3. host'.sts = host.sts
    BY <1>1, <1>3 DEF EnsureVNodeDeployment, Refused, HostObjects
  <2>4. work.step = "agents" /\ (Refused => ~Advances("status"))
    BY <1>1, <1>3, Advanced, InHand, IdleTyped DEF EnsureVNodeDeployment, Doing, Refused, UpdateStatus,
                                        WorkSteps
  <2> QED  BY <1>1, <2>1, <2>2, <2>3, <2>4 DEF HostObjects
<1>4. CASE ~EnsureStatefulSet /\ ~EnsureVNodeDeployment
  <2>1. ~Advances("status")
    <3>1. ASSUME Advances("status")
          PROVE  EnsureVNodeDeployment
      <4>1. work' # work /\ work' # Idle /\ work'.step = "status"
        BY <1>1, <3>1, Advanced, IdleTyped DEF WorkSteps, Follows
      <4> QED  BY <4>1, TakenOn
    <3> QED  BY <1>4, <3>1
  <2> QED  BY <1>1, <1>4, <2>1, OperatorWrites
<1> QED  BY <1>2, <1>3, <1>4

LEMMA OperatorAgentsInv ==
  ASSUME BaseInv, BaseInv', ReleaseInv, ServerInv, AgentsInv, Operator
  PROVE  AgentsInv'
<1>0. TypeOK /\ ResourceInv /\ host \in HostObjects /\ Step /\ pc' = pc
  BY HostFields, OperatorMoves DEF BaseInv, Step, OperatorStep
<1> SUFFICES ASSUME Clean({"stale", "mixed"})', ~CreateFailed', host'.sts # None,
                    host'.agents # host'.sts.args.vnode
             PROVE  \/ host'.ns = "terminating" \/ Pending(Ensures)'
                    \/ \E d \in Commands : d.op = "create" /\ pc[d] = "agents"
  BY <1>0 DEF AgentsInv, Commands
<1>1. Clean({"stale", "mixed"}) /\ Clean({"mixed"}) /\ ~CreateFailed
  <2>1. Clean({"stale", "mixed"})
    BY <1>0, StaysClean
  <2> QED  BY <1>0, <2>1 DEF Clean, CreateFailed, Commands
<1>2. CASE \E next \in Ensures : Advances(next)
  <2>1. PICK next \in Ensures : Advances(next)
    BY <1>2
  <2>2. Pends(work.n, Ensures)' /\ work.n \in CrNamespaces /\ work'.n = work.n
    BY <1>0, <2>1, AdvancePends, Advanced DEF WorkSteps
  <2>3. \E n \in CrNamespaces : Pends(n, Ensures)'
    BY <2>2
  <2> QED  BY <2>3 DEF Pending
<1>3. CASE Advances("status")
  <2>1. host'.agents = work.cr.spec.vnode /\ work.step = "agents"
    BY <1>3, ServerSteps
  <2>2. host'.sts = host.sts
    BY <2>1, ServerSteps DEF Advances, Follows
  <2> QED  BY <1>1, <2>1, <2>2 DEF ServerInv
<1>4. CASE ~(\E next \in Ensures : Advances(next)) /\ ~Advances("status")
  <2>1. host'.sts = host.sts /\ host'.agents = host.agents
    BY <1>4, ServerSteps DEF Ensures
  <2>2. CASE host.ns = "terminating"
    BY <1>0, <2>2, OperatorWrites
  <2>3. CASE Pending(Ensures)
    <3>1. \/ Pending(Ensures)'
          \/ host'.ns # "present"
          \/ work.step \in Ensures /\ \E next \in WorkSteps \ Ensures : Advances(next)
      BY <1>1, <2>3, OperatorPending DEF Ensures
    <3>2. \A next \in WorkSteps \ Ensures : ~(work.step \in Ensures /\ Advances(next))
      BY <1>4 DEF Advances, Follows, Ensures
    <3> QED  BY <3>1, <3>2, Excused
  <2> QED  BY <1>1, <2>1, <2>2, <2>3 DEF AgentsInv
<1> QED  BY <1>2, <1>3, <1>4

LEMMA NextAgentsInv ==
  ASSUME BaseInv, BaseInv', MakerInv, ReleaseInv, ServerInv, AgentsInv, Step
  PROVE  AgentsInv'
<1>1. CASE EmptyNamespace
  BY <1>1 DEF EmptyNamespace, Emptied, AgentsInv
<1>2. CASE ~Operator /\ (OperatorProcess \/ HostStep)
  <2>1. UNCHANGED <<pc, host, lapses>>
    BY <1>2 DEF OperatorProcess, OperatorStarts, OperatorStops, OperatorCrashes, HostStep, CrdRemoved,
                OperatorNamespaceRemoved, lifeVars, historyVars
  <2>2. Pending(Ensures) => Pending(Ensures)'
    BY <1>2, PendingKept
  <2> QED  BY <2>1, <2>2 DEF AgentsInv, Clean, CreateFailed, Commands
<1> QED  BY <1>1, <1>2, CommandAgentsInv, OperatorAgentsInv DEF Step

\* Whose mode the agents have: a resource that says it runs, unless its reconcile is to come, or
\* there is another resource the operator works on.
LEMMA CommandModeInv ==
  ASSUME BaseInv, BaseInv', MakerInv, ModeInv, NEW c \in Commands, Command(c)
  PROVE  ModeInv'
<1>0. TypeOK /\ CommandInv /\ host \in HostObjects /\ Step /\ Touched
  BY HostFields, CommandTouches DEF BaseInv, Step
<1> SUFFICES ASSUME Clean({"stale", "mixed"})', host'.sts # None, NEW n \in CrNamespaces,
                    crs'[n] # None, crs'[n].phase = "Running", host'.agents # crs'[n].spec.vnode
             PROVE  \/ host'.ns = "terminating" \/ Pends(n, Ensures)'
                    \/ \E m \in CrNamespaces \ {n} : crs'[m] # None /\ crs'[m].finalizer
  BY DEF ModeInv, Existing
<1>1. Clean({"stale", "mixed"}) /\ Clean({"mixed"})
  <2>1. Clean({"stale", "mixed"})
    BY <1>0, StaysClean
  <2> QED  BY <2>1 DEF Clean
<1>2. CASE crs'[n] # crs[n]
  <2>1. crs'[n].finalizer
    BY DEF BaseInv, ResourceInv, Existing
  <2>2. n \in queued' \/ ~pod'
    BY <1>0, <1>2 DEF Touched
  <2> QED  BY <2>1, <2>2 DEF Pends
<1>3. CASE crs'[n] = crs[n] /\ host.sts # None /\ host'.agents = host.agents
  <2>1. \/ host.ns = "terminating" \/ Pends(n, Ensures)
        \/ \E m \in CrNamespaces \ {n} : crs[m] # None /\ crs[m].finalizer
    BY <1>1, <1>3 DEF ModeInv, Existing
  <2> QED  BY <1>0, <2>1, CommandHost, TouchedPends, TouchedStays
<1>4. CASE crs'[n] = crs[n] /\ ~(host.sts # None /\ host'.agents = host.agents)
  <2>1. Existing # {}
    BY <1>4 DEF Existing
  <2>2. ~CreateStatefulSet(c) /\ ~CreateVNodeStatefulSet(c)
    BY <1>1, <2>1 DEF MakerInv, Making, CreateStatefulSet, CreateVNodeStatefulSet, At
  <2>3. CASE ExposeTlsSan(c)
    <3>1. c.opts.host \in Hosts
      <4>1. c.opts.host \in Hosts \cup {NoHost}
        BY <1>0, CommandTyped DEF Options
      <4> QED  BY <1>0, <2>3, <4>1 DEF ExposeTlsSan, At, CommandInv
    <3> QED  BY <1>0, <1>4, <2>3, <3>1, SanAdded
  <2>4. CASE CreateServices(c) \/ ExposeIngress(c)
    BY <1>0, <1>4, <2>4 DEF CreateServices, ExposeIngress, HostObjects
  <2> QED  BY <1>0, <1>4, <2>2, <2>3, <2>4, CommandHost
<1> QED  BY <1>2, <1>3, <1>4

LEMMA OperatorModeInv ==
  ASSUME BaseInv, BaseInv', ReleaseInv, ModeInv, Operator
  PROVE  ModeInv'
<1>0. TypeOK /\ ResourceInv /\ host \in HostObjects /\ Step
  BY HostFields DEF BaseInv, Step
<1> SUFFICES ASSUME Clean({"stale", "mixed"})', host'.sts # None, NEW n \in CrNamespaces,
                    crs'[n] # None, crs'[n].phase = "Running", host'.agents # crs'[n].spec.vnode
             PROVE  \/ host'.ns = "terminating" \/ Pends(n, Ensures)'
                    \/ \E m \in CrNamespaces \ {n} : crs'[m] # None /\ crs'[m].finalizer
  BY DEF ModeInv, Existing
<1>1. Clean({"stale", "mixed"}) /\ Clean({"mixed"}) /\ crs'[n].finalizer
  <2>1. Clean({"stale", "mixed"})
    BY <1>0, StaysClean
  <2>2. crs'[n].finalizer
    BY DEF BaseInv, ResourceInv, Existing
  <2> QED  BY <2>1, <2>2 DEF Clean
<1>2. ASSUME NEW next \in WorkSteps, Advances(next)
      PROVE  \/ Pends(n, Ensures)'
             \/ \E m \in CrNamespaces \ {n} : crs'[m] # None /\ crs'[m].finalizer
  <2>1. /\ work # Idle /\ UNCHANGED <<crs, queued>> /\ work.n \in CrNamespaces
        /\ crs[work.n] # None /\ crs[work.n].finalizer
    BY <1>0, <1>2, Advanced, InHand
  <2>2. CASE n # work.n
    BY <2>1, <2>2
  <2>3. CASE n = work.n /\ next \in Ensures
    <3>1. Pends(work.n, Ensures)'
      BY <1>2, <2>3, AdvancePends
    <3>2. work'.n = work.n
      BY <1>0, <1>2, Advanced
    <3> QED  BY <2>3, <3>1, <3>2
  <2>4. CASE n = work.n /\ next = "status"
    <3>1. host'.agents = work.cr.spec.vnode
      BY <1>2, <2>4, ServerSteps
    <3>2. n \in queued'
      BY <1>0, <2>1, <2>4, <3>1 DEF ResourceInv
    <3> QED  BY <1>1, <3>2 DEF Pends
  <2>5. CASE n = work.n /\ next \notin Ensures \cup {"status"}
    <3>1. work.step \notin Ensures \cup {"status"}
      BY <1>2, <2>5 DEF Advances, Follows, Ensures
    <3>2. crs'[n].deleting
      BY <1>0, <2>1, <2>5, <3>1, InHand
    <3> QED  BY <1>1, <3>2 DEF Pends
  <2> QED  BY <2>2, <2>3, <2>4, <2>5
<1>3. ASSUME \A next \in WorkSteps : ~Advances(next), ~RemoveFinalizer,
             crs[n] # None, crs[n].phase = "Running", crs[n].spec = crs'[n].spec,
             \A m \in CrNamespaces : crs[m] # None /\ crs[m].finalizer
                                     => crs'[m] # None /\ crs'[m].finalizer
      PROVE  \/ host'.ns = "terminating" \/ Pends(n, Ensures)'
             \/ \E m \in CrNamespaces \ {n} : crs'[m] # None /\ crs'[m].finalizer
  <2>1. host'.sts = host.sts /\ host'.agents = host.agents
    BY <1>3, ServerSteps DEF WorkSteps, Ensures
  <2>2. \/ host.ns = "terminating" \/ Pends(n, Ensures)
        \/ \E m \in CrNamespaces \ {n} : crs[m] # None /\ crs[m].finalizer
    BY <1>1, <1>3, <2>1 DEF ModeInv, Existing
  <2>3. Pends(n, Ensures) => Pends(n, Ensures)'
    BY <1>0, <1>3, OperatorPends DEF Ensures
  <2> QED  BY <1>0, <1>3, <2>2, <2>3, OperatorWrites
<1>4. ASSUME NEW m \in CrNamespaces, Take(m), \A next \in WorkSteps : ~Advances(next), ~RemoveFinalizer
      PROVE  \/ host'.ns = "terminating" \/ Pends(n, Ensures)'
             \/ \E l \in CrNamespaces \ {n} : crs'[l] # None /\ crs'[l].finalizer
  <2>1. crs[n] # None /\ crs[n].phase = "Running" /\ crs[n].spec = crs'[n].spec
    BY <1>0, <1>4, Taken
  <2>2. \A l \in CrNamespaces : crs[l] # None /\ crs[l].finalizer => crs'[l] # None /\ crs'[l].finalizer
    BY <1>0, <1>4, Taken
  <2> QED  BY <1>3, <1>4, <2>1, <2>2
<1>5. ASSUME NEW phase \in Phases, Reports(phase), \A next \in WorkSteps : ~Advances(next),
             ~RemoveFinalizer
      PROVE  \/ host'.ns = "terminating" \/ Pends(n, Ensures)'
             \/ \E m \in CrNamespaces \ {n} : crs'[m] # None /\ crs'[m].finalizer
  <2>1. CASE n # work.n
    BY <1>0, <1>5, <2>1, Reported
  <2>2. CASE n \in queued'
    BY <1>1, <2>2 DEF Pends
  <2>3. CASE n = work.n /\ n \notin queued'
    <3>1. crs' = crs
      BY <1>0, <1>5, <2>3, Reported
    <3> QED  BY <1>3, <1>5, <3>1
  <2> QED  BY <2>1, <2>2, <2>3
<1>6. CASE RemoveFinalizer
  <2>1. host.ns # "present" /\ host' = host
    BY <1>1, <1>6 DEF RemoveFinalizer, Doing, ReleaseInv
  <2> QED  BY <2>1, Excused
<1>7. CASE crs' = crs /\ ~RemoveFinalizer /\ (\A next \in WorkSteps : ~Advances(next))
  BY <1>3, <1>7
<1> QED  BY <1>0, <1>2, <1>4, <1>5, <1>6, <1>7, OperatorMoves DEF Drops

LEMMA NextModeInv ==
  ASSUME BaseInv, BaseInv', MakerInv, ReleaseInv, ModeInv, Step
  PROVE  ModeInv'
<1>1. CASE EmptyNamespace
  BY <1>1 DEF EmptyNamespace, Emptied, ModeInv
<1>2. CASE ~Operator /\ (OperatorProcess \/ HostStep)
  <2>1. UNCHANGED <<crs, host, lapses>>
    BY <1>2 DEF OperatorProcess, OperatorStarts, OperatorStops, OperatorCrashes, HostStep, CrdRemoved,
                OperatorNamespaceRemoved, lifeVars, historyVars, resourceVars
  <2>2. \A n \in CrNamespaces : Pends(n, Ensures) => Pends(n, Ensures)'
    BY <1>2, Keeps
  <2> QED  BY <2>1, <2>2 DEF ModeInv, Clean, Existing
<1> QED  BY <1>1, <1>2, CommandModeInv, OperatorModeInv DEF Step

-----------------------------------------------------------------------------
(* The host that is advertised, and the modes, hold of every behaviour.     *)

LEMMA InitObjectsInv ==
  ASSUME Init
  PROVE  ObjectsInv
<1>1. BaseInv
  BY InitBaseInv
<1>2. /\ \A n \in CrNamespaces : crs[n] = None
      /\ \A c \in Commands : pc[c] = "planned"
      /\ work.step = "idle" /\ host.sts = None
  BY IdleTyped DEF Init, Gone, Emptied, Commands
<1>3. DeletingInv /\ MakerInv /\ ReleaseInv /\ ServerInv
  BY <1>2 DEF DeletingInv, Deleting, MakerInv, Making, ReleaseInv, ServerInv
<1>4. CertInv /\ EnvInv /\ AgentsInv /\ ModeInv
  BY <1>2 DEF CertInv, EnvInv, AgentsInv, ModeInv
<1> QED  BY <1>1, <1>3, <1>4 DEF ObjectsInv, BaseInv

LEMMA NextObjectsInv ==
  ASSUME ObjectsInv, Step
  PROVE  ObjectsInv'
<1>1. /\ BaseInv /\ DeletingInv /\ MakerInv /\ ReleaseInv /\ ServerInv
      /\ CertInv /\ EnvInv /\ AgentsInv /\ ModeInv
  BY DEF ObjectsInv, BaseInv
<1>2. BaseInv'
  BY <1>1, NextBaseInv
<1>3. DeletingInv' /\ MakerInv' /\ ReleaseInv' /\ ServerInv' /\ EnvInv'
  BY <1>1, NextDeletingInv, NextMakerInv, NextReleaseInv, NextServerInv, NextEnvInv
<1>4. CertInv' /\ AgentsInv' /\ ModeInv'
  BY <1>1, <1>2, NextCertInv, NextAgentsInv, NextModeInv
<1> QED  BY <1>2, <1>3, <1>4 DEF ObjectsInv, BaseInv

LEMMA StutterObjectsInv ==
  ASSUME ObjectsInv, UNCHANGED vars
  PROVE  ObjectsInv'
<1>1. UNCHANGED <<pc, crd, schema, crs, queued, pod, host, work, lapses>>
  BY DEF vars, installVars, resourceVars, lifeVars, workVars, historyVars
<1>2. BaseInv'
  BY StutterBaseInv DEF ObjectsInv, BaseInv
<1>3. DeletingInv' /\ ReleaseInv' /\ ServerInv' /\ EnvInv'
  BY <1>1 DEF ObjectsInv, DeletingInv, Deleting, ReleaseInv, ServerInv, EnvInv, Clean
<1>4. MakerInv'
  BY <1>1 DEF ObjectsInv, MakerInv, Making, SanPending, Clean, Commands, Existing
<1>5. /\ \A n, steps : Pends(n, steps)' = Pends(n, steps)
      /\ SanPending' = SanPending /\ CreateFailed' = CreateFailed
      /\ \A sorts : Clean(sorts)' = Clean(sorts)
  BY <1>1 DEF Pends, SanPending, CreateFailed, Clean, Commands
<1>6. CertInv' /\ AgentsInv' /\ ModeInv'
  BY <1>1, <1>5 DEF ObjectsInv, CertInv, AgentsInv, ModeInv, Pending, Commands, Existing
<1> QED  BY <1>2, <1>3, <1>4, <1>6 DEF ObjectsInv, BaseInv

LEMMA SpecObjectsInv == Spec => []ObjectsInv
<1>1. Init => ObjectsInv
  BY InitObjectsInv
<1>2. ObjectsInv /\ [Step]_vars => ObjectsInv'
  BY NextObjectsInv, StutterObjectsInv
<1> QED  BY <1>1, <1>2, PTL DEF Spec

\* When everything is settled no reconcile is to come.
LEMMA NothingPends ==
  ASSUME TypeOK, Settled
  PROVE  /\ \A n \in CrNamespaces : \A steps : ~Pends(n, steps)
         /\ ~SanPending /\ host.ns # "terminating"
         /\ \A c \in Commands : pc[c] \in Resting
<1>1. work.n = 0 /\ \A c \in Commands : pc[c] \in Resting
  BY IdleTyped DEF Settled, Quiet, CommandsRest
<1>2. ASSUME NEW n \in CrNamespaces, NEW steps, Pends(n, steps)
      PROVE  FALSE
  <2>1. n \in Existing
    BY <1>2 DEF Pends, Existing
  <2>2. pod /\ queued = {} /\ ~crs[n].deleting /\ crs[n].phase = "Running"
    BY <2>1 DEF Settled, Quiet, Alive
  <2> QED  BY <1>1, <1>2, <2>2, IdleTyped DEF Pends
<1> QED  BY <1>1, <1>2 DEF Settled, Quiet, SanPending, Resting

\* The host of an Ingress, once everything is settled, is in the server's certificate: expose and
\* the operator change the Ingress first and the server after it or before it (expose.go,
\* ensureStatefulSet and ensureIngress in controller.go), and whoever of the two comes last brings
\* the other object with it.
THEOREM AdvertisedHostHolds == Spec => []AdvertisedHostVerifies
<1>1. ASSUME ObjectsInv
      PROVE  AdvertisedHostVerifies
  <2> SUFFICES ASSUME Settled, lapses \cap {"unread", "stale", "mixed"} = {}, host.sts # None,
                      VerifiedHost # NoHost
               PROVE  HasSan(host.sts.args, VerifiedHost)
    BY DEF AdvertisedHostVerifies
  <2>1. host.ing \in Hosts /\ VerifiedHost = host.ing
    BY DEF VerifiedHost
  <2>2. ~Pending(ToIngress) /\ ~SanPending /\ host.ns # "terminating"
    BY <1>1, NothingPends DEF ObjectsInv, Pending
  <2> QED  BY <1>1, <2>1, <2>2 DEF ObjectsInv, CertInv, Clean
<1> QED  BY <1>1, SpecObjectsInv, PTL

\* The server, its syncer and the agents are of one mode, once everything is settled, the one the
\* resource asks for: create makes the agents in a call of their own (create.go), the operator
\* brings the server's arguments and the agents to the mode one after the other
\* (ensureStatefulSet and ensureVNodeDeployment, controller.go).
THEOREM ModesHold == Spec => []ModesAgree
<1>1. ASSUME ObjectsInv
      PROVE  ModesAgree
  <2> SUFFICES ASSUME Settled, host.sts # None, lapses \cap {"mixed", "stale"} = {},
                      ~\E c \in Commands : c.op = "create" /\ pc[c] = "failed"
               PROVE  /\ host.agents = host.sts.args.vnode
                      /\ host.sts.env.vnode = host.sts.args.vnode \/ "flipped" \in lapses
                      /\ (Cardinality(Existing) = 1 /\ schema = "manifests")
                           => \A n \in Existing : crs[n].asked = host.agents
    BY DEF ModesAgree
  <2>1. /\ \A n \in CrNamespaces : \A steps : ~Pends(n, steps)
        /\ host.ns # "terminating" /\ \A c \in Commands : pc[c] # "agents"
        /\ Clean({"stale", "mixed"}) /\ ~CreateFailed
    BY <1>1, NothingPends DEF ObjectsInv, Resting, Clean, CreateFailed
  <2>2. host.agents = host.sts.args.vnode
    BY <1>1, <2>1 DEF ObjectsInv, AgentsInv, Pending
  <2>3. ASSUME Cardinality(Existing) = 1, schema = "manifests", NEW n \in Existing
        PROVE  crs[n].asked = host.agents
    <3>1. IsFiniteSet(Existing)
      BY NamespacesAssumption, FS_Subset DEF Existing
    <3>2. Existing \ {n} = {}
      BY <2>3, <3>1, FS_Singleton
    <3>3. n \in CrNamespaces /\ crs[n].phase = "Running"
      BY DEF Settled, Existing
    <3>4. host.agents = crs[n].spec.vnode
      BY <1>1, <2>1, <3>2, <3>3 DEF ObjectsInv, ModeInv
    <3> QED  BY <1>1, <2>3, <3>4 DEF ObjectsInv, ResourceInv
  <2> QED  BY <1>1, <2>2, <2>3 DEF ObjectsInv, EnvInv
<1> QED  BY <1>1, SpecObjectsInv, PTL

-----------------------------------------------------------------------------
(* What a delete leaves.                                                   *)

\* Which steps of a command matter to a delete.
LEMMA DeletesBy ==
  ASSUME TypeOK, NEW c \in Commands, Command(c)
  PROVE  /\ c.op = "create" => pc[c] \notin Resting \/ ResolveCreateMode(c)
         /\ c.op = "delete" /\ pc'[c] \in {"deleteCR", "unbind", "deleteNs"} =>
              CheckOperator(c) \/ FindVirtualClusterCR(c) \/ DeleteClusterRBAC(c)
         /\ Commands' = Commands /\ \A d \in Commands \ {c} : pc'[d] = pc[d]
<1>1. \A step : GoTo(c, step) => pc'[c] = step
  BY DEF GoTo, TypeOK
<1>2. Commands' = Commands /\ \A d \in Commands \ {c} : pc'[d] = pc[d]
  BY CommandMoves, Moves
<1>3. CASE Install(c) /\ UNCHANGED lifeVars
  BY <1>1, <1>2, <1>3 DEF Install, InstallCRD, EnsureNamespaceExists, EnsureOperatorServiceAccount,
     EnsureOperatorRBAC, EnsureOperatorDeployment, EnsurePart, At
<1>4. CASE Uninstall(c) /\ UNCHANGED lifeVars
  BY <1>1, <1>2, <1>4 DEF Uninstall, DeleteDeployment, DeleteRights, DeleteOperatorNamespace,
     UninstallCRD, At
<1>5. CASE Create(c)
  <2>1. CASE ResolveCreateMode(c)
    BY <1>1, <1>2, <2>1 DEF ResolveCreateMode, At
  <2>2. CASE ~ResolveCreateMode(c)
    BY <1>1, <1>2, <1>5, <2>2 DEF Create, CreateVirtualClusterCR, CreateNamespace,
       CreateServiceAccount, CreateRBAC, CreateServices, CreateStatefulSet, CreateVNodeStatefulSet,
       OnHost, At, Resting
  <2> QED  BY <2>1, <2>2
<1>6. CASE Delete(c)
  BY <1>1, <1>2, <1>6 DEF Delete, CheckOperator, FindVirtualClusterCR, DeleteVirtualClusterCR,
     DeleteClusterRBAC, DeleteNamespace, OnHost, At
<1>7. CASE Expose(c)
  BY <1>1, <1>2, <1>7 DEF Expose, ExposeService, ExposeIngress, ExposeTlsSan, OnHost, At
<1>8. CASE ConnectStarts(c) \/ AwaitReady(c) \/ AwaitAddress(c) \/ GiveUp(c)
  BY <1>1, <1>2, <1>8 DEF ConnectStarts, AwaitReady, AwaitAddress, GiveUp, OnHost, At, Resting
<1>9. CASE Load(c) \/ Write(c)
  BY <1>1, <1>2, <1>9 DEF Load, Write, OnFile, Resting
<1>10. CASE EditSpec(c) \/ FailCommand(c)
  BY <1>1, <1>2, <1>10 DEF EditSpec, FailCommand, OnHost, At, Resting
<1> QED  BY <1>3, <1>4, <1>5, <1>6, <1>7, <1>8, <1>9, <1>10 DEF Command, Installing

\* Without a create there are no more resources, and nothing is made on the host for none.
LEMMA NothingMade ==
  ASSUME TypeOK, NEW c \in Commands, Command(c), ~Running("create"), ~ResolveCreateMode(c)
  PROVE  /\ ~(Running("create")') /\ Existing' \subseteq Existing
         /\ host.ns # "present" => host'.ns # "present"
         /\ ~host.role => ~host'.role
<1>1. c.op = "create" => pc[c] \notin Resting
  BY DeletesBy
<1>2. c.op # "create"
  BY <1>1 DEF Running
<1>3. ~(Running("create")')
  BY <1>2, DeletesBy DEF Running
<1>4. Existing' \subseteq Existing
  BY <1>2, CommandCreates DEF Existing
<1>5. ~CreateNamespace(c) /\ ~CreateRBAC(c)
  BY <1>2 DEF CreateNamespace, CreateRBAC, At
<1> QED  BY <1>3, <1>4, <1>5, CommandHost

\* A resource that is being deleted is not saved.
LEMMA DeletingStays ==
  ASSUME BaseInv, Step, NEW n \in CrNamespaces, Deleting(n)
  PROVE  \/ Deleting(n)'
         \/ RemoveFinalizer /\ work.n = n /\ crs' = [crs EXCEPT ![n] = None]
<1> USE DEF BaseInv
<1>1. crs[n] # None /\ crs[n].deleting /\ crs[n].finalizer
  BY DEF Deleting, ResourceInv, Existing
<1>2. CASE Touched
  BY <1>1, <1>2, TouchedStays DEF Deleting
<1>3. CASE OperatorProcess
  BY <1>1, <1>3 DEF OperatorProcess, OperatorStarts, OperatorStops, OperatorCrashes, Deleting
<1>4. CASE Operator
  <2>1. ASSUME NEW m \in CrNamespaces, Take(m)
        PROVE  crs'[n] = crs[n]
    BY <1>1, <2>1, Taken
  <2>2. ASSUME NEW phase \in Phases, Reports(phase)
        PROVE  crs'[n] = crs[n]
    <3>1. CASE n # work.n
      BY <2>2, <3>1, Reported
    <3>2. CASE n = work.n
      <4>1. work.step \in Ensures \cup {"status"} /\ work # Idle
        BY <2>2, Reported DEF Reports
      <4>2. crs[n] # work.cr
        BY <1>1, <3>2, <4>1, InHand
      <4> QED  BY <2>2, <3>2, <4>2, Reported
    <3> QED  BY <3>1, <3>2
  <2>3. CASE RemoveFinalizer
    <3>1. crs' = IF crs[work.n] = work.cr THEN [crs EXCEPT ![work.n] = None] ELSE crs
      BY <2>3 DEF RemoveFinalizer
    <3> QED  BY <1>1, <2>3, <3>1 DEF Deleting, TypeOK
  <2> QED  BY <1>1, <1>4, <2>1, <2>2, <2>3, OperatorMoves DEF Deleting, Drops, Advances, resourceVars
<1> QED  BY <1>2, <1>3, <1>4, CommandTouches, HostTouches DEF Step

LEMMA OperatorMakesNone ==
  ASSUME BaseInv, Operator
  PROVE  Existing' \subseteq Existing
<1> SUFFICES ASSUME NEW n \in CrNamespaces, crs[n] = None
             PROVE  crs'[n] = None
  BY DEF Existing
<1>1. TypeOK /\ ResourceInv
  BY DEF BaseInv
<1>2. ASSUME NEW m \in CrNamespaces, Take(m)
      PROVE  crs'[n] = None
  BY <1>1, <1>2, Taken
<1>3. ASSUME NEW phase \in Phases, Reports(phase)
      PROVE  crs'[n] = None
  <2>1. crs[work.n] # None
    BY <1>1, <1>3, Reported, InHand
  <2> QED  BY <1>1, <1>3, <2>1, Reported
<1>4. CASE RemoveFinalizer
  BY <1>1, <1>4 DEF RemoveFinalizer, TypeOK
<1> QED  BY <1>1, <1>2, <1>3, <1>4, OperatorMoves DEF Drops, Advances, resourceVars

\* A delete goes from one of its steps to the next.
LEMMA AskedGoesOn ==
  ASSUME BaseInv, NEW c \in Commands, c.op = "delete",
         Clean({"rights", "lookup", "bare", "twins", "mixed"})',
         pc[c] = "unbind" => Existing = {},
         CheckOperator(c) \/ FindVirtualClusterCR(c) \/ DeleteClusterRBAC(c)
  PROVE  /\ pc'[c] = "deleteCR" => Existing' \subseteq {found'[c]}
         /\ pc'[c] = "unbind" => Existing' = {}
         /\ pc'[c] = "deleteNs" => Existing' = {} /\ ~host'.role
<1>1. TypeOK /\ host \in HostObjects /\ \A step : GoTo(c, step) => pc'[c] = step
  BY HostFields DEF BaseInv, GoTo, TypeOK
<1>2. CASE CheckOperator(c)
  <2>1. crs' = crs /\ (pc'[c] = "unbind" \/ pc'[c] = "find")
    BY <1>1, <1>2 DEF CheckOperator, resourceVars
  <2>2. pc'[c] = "unbind" => crd = "absent"
    BY <1>1, <1>2 DEF CheckOperator, Lapse, Clean
  <2> QED  BY <1>1, <2>1, <2>2 DEF TypeOK, Existing
<1>3. CASE FindVirtualClusterCR(c)
  <2>1. crs' = crs /\ ~(Cardinality(Existing) > 1)
    BY <1>3 DEF FindVirtualClusterCR, Lapse, Clean, resourceVars
  <2>2. CASE Existing = {} /\ GoTo(c, "unbind")
    BY <1>1, <2>1, <2>2 DEF Existing
  <2>3. CASE \E first \in Existing : found' = [found EXCEPT ![c] = first] /\ GoTo(c, "deleteCR")
    <3>1. PICK first \in Existing : found' = [found EXCEPT ![c] = first] /\ GoTo(c, "deleteCR")
      BY <2>3
    <3>2. found'[c] = first
      BY <1>1, <3>1 DEF TypeOK
    <3>3. IsFiniteSet(Existing) /\ Cardinality({first}) = 1 /\ Cardinality(Existing) \in Nat
      <4>1. IsFiniteSet(Existing)
        BY NamespacesAssumption, FS_Subset DEF Existing
      <4> QED  BY <4>1, FS_Singleton, FS_CardinalityType
    <3>4. Cardinality({first}) <= Cardinality(Existing)
      BY <3>3, FS_Subset
    <3>5. Cardinality(Existing) = Cardinality({first})
      BY <2>1, <3>3, <3>4
    <3>6. Existing = {first}
      BY <3>3, <3>5, FS_Subset
    <3> QED  BY <1>1, <2>1, <3>1, <3>2, <3>6 DEF Existing
  <2> QED  BY <1>3, <2>2, <2>3 DEF FindVirtualClusterCR
<1>4. CASE DeleteClusterRBAC(c)
  <2>1. crs' = crs /\ pc[c] = "unbind" /\ pc'[c] = "deleteNs"
    BY <1>1, <1>4 DEF DeleteClusterRBAC, OnHost, resourceVars, At
  <2>2. ~host'.role
    BY <1>1, <1>4 DEF DeleteClusterRBAC, Lapse, Clean, HostObjects
  <2> QED  BY <2>1, <2>2 DEF Existing
<1> QED  BY <1>2, <1>3, <1>4

LEMMA CommandDeleteInv ==
  ASSUME BaseInv, DeleteInv, NEW c \in Commands, Command(c)
  PROVE  DeleteInv'
<1> DEFINE sorts == {"rights", "lookup", "bare", "twins", "mixed"}
<1>0. /\ TypeOK /\ CommandInv /\ ResourceInv /\ host \in HostObjects /\ Step
      /\ deleted \in [asked : SUBSET Commands, done : BOOLEAN]
  BY HostFields DEF BaseInv, Step, TypeOK
<1>1. Clean(sorts)' => Clean(sorts)
  BY <1>0, StaysClean
<1>2. CASE ResolveCreateMode(c)
  BY <1>2 DEF ResolveCreateMode, Undeleted, DeleteInv
<1>3. CASE ~ResolveCreateMode(c)
  <2> DEFINE joins == CheckOperator(c) /\ ~Running("create")
  <2>1. /\ deleted'.asked = IF joins THEN deleted.asked \cup {c} ELSE deleted.asked
        /\ deleted'.done = (deleted.done \/ (c \in deleted.asked
                                           /\ (DeleteVirtualClusterCR(c) \/ DeleteNamespace(c))))
    <3>1. CASE CheckOperator(c)
      <4>1. ~DeleteVirtualClusterCR(c) /\ ~DeleteNamespace(c)
        BY <3>1 DEF CheckOperator, DeleteVirtualClusterCR, DeleteNamespace, At
      <4> QED  BY <1>0, <3>1, <4>1 DEF CheckOperator
    <3>2. CASE DeleteVirtualClusterCR(c) \/ DeleteNamespace(c)
      <4>1. ~CheckOperator(c)
        BY <3>2 DEF CheckOperator, DeleteVirtualClusterCR, DeleteNamespace, At
      <4> QED  BY <1>0, <3>2, <4>1 DEF DeleteVirtualClusterCR, DeleteNamespace
    <3> QED  BY <1>0, <1>3, <3>1, <3>2, DeletedBy
  <2>2. joins \/ deleted.asked # {} =>
          /\ ~(Running("create")') /\ Existing' \subseteq Existing
          /\ host.ns # "present" => host'.ns # "present"
          /\ ~host.role => ~host'.role
    BY <1>0, <1>3, NothingMade DEF DeleteInv
  <2>3. ASSUME NEW d \in deleted'.asked
        PROVE  d.op = "delete" /\ d \in Commands
    BY <1>0, <2>1, <2>3 DEF DeleteInv, CheckOperator, At
  <2>4. ASSUME Clean(sorts)', NEW d \in deleted'.asked
        PROVE  /\ pc'[d] = "deleteCR" => Existing' \subseteq {found'[d]}
               /\ pc'[d] = "unbind" => Existing' = {}
               /\ pc'[d] = "deleteNs" => Existing' = {} /\ ~host'.role
    <3>1. d \in deleted.asked =>
            /\ pc[d] = "deleteCR" => Existing \subseteq {found[d]}
            /\ pc[d] = "unbind" => Existing = {}
            /\ pc[d] = "deleteNs" => Existing = {} /\ ~host.role
      BY <1>1, <2>4 DEF DeleteInv
    <3>2. CASE d # c
      <4>1. d \in deleted.asked
        BY <2>1, <2>4, <3>2
      <4>2. pc'[d] = pc[d] /\ found'[d] = found[d]
        BY <1>0, <2>3, <2>4, <3>2, DeletesBy, FoundMoves DEF FindVirtualClusterCR, TypeOK
      <4> QED  BY <2>2, <3>1, <4>1, <4>2
    <3>3. CASE d = c
      <4>1. pc[c] = "unbind" => Existing = {}
        BY <2>1, <2>4, <3>1, <3>3 DEF CheckOperator, At
      <4> QED  BY <1>0, <2>3, <2>4, <3>3, <4>1, DeletesBy, AskedGoesOn
    <3> QED  BY <3>2, <3>3
  <2>5. ASSUME Clean(sorts)', deleted'.done
        PROVE  \/ Existing' = {} /\ host'.ns # "present" /\ ~host'.role
               \/ \E n \in CrNamespaces : Existing' = {n} /\ crs'[n].deleting
    <3>1. CASE deleted.done
      <4>0. deleted.asked # {}
        BY <3>1 DEF DeleteInv
      <4>1. CASE Existing = {} /\ host.ns # "present" /\ ~host.role
        BY <2>2, <4>0, <4>1
      <4>2. ASSUME NEW n \in CrNamespaces, Existing = {n}, crs[n].deleting
            PROVE  Existing' = {n} /\ crs'[n].deleting
        <5>1. crs[n] # None /\ crs[n].finalizer
          BY <1>0, <4>2 DEF Existing, ResourceInv
        <5>2. crs'[n] # None /\ crs'[n].deleting
          BY <1>0, <4>2, <5>1, CommandTouches, TouchedStays
        <5> QED  BY <2>2, <4>0, <4>2, <5>2 DEF Existing
      <4> QED  BY <1>1, <2>5, <3>1, <4>1, <4>2 DEF DeleteInv
    <3>2. CASE ~deleted.done
      <4>1. c \in deleted.asked /\ (DeleteVirtualClusterCR(c) \/ DeleteNamespace(c))
        BY <2>1, <2>5, <3>2
      <4>2. CASE DeleteVirtualClusterCR(c)
        <5> DEFINE n == found[c]
        <5>1. c.op = "delete" /\ pc[c] = "deleteCR" /\ n \in CrNamespaces /\ host' = host
          BY <1>0, <4>2 DEF DeleteVirtualClusterCR, At, CommandInv
        <5>2. Existing \subseteq {n}
          BY <1>1, <2>5, <4>1, <5>1 DEF DeleteInv
        <5>3. /\ crs' = [crs EXCEPT ![n] = IF crs[n] # None /\ crs[n].finalizer
                                           THEN [crs[n] EXCEPT !.deleting = TRUE] ELSE None]
              /\ Lapse("bare", crs'[n] = None /\ host # Gone)
          BY <4>2 DEF DeleteVirtualClusterCR
        <5>4. CASE crs[n] # None /\ crs[n].finalizer
          <6>1. crs[n] \in VirtualClusters
            BY <1>0, <5>1, <5>4, Resource
          <6>2. crs'[n].deleting /\ crs'[n] # None
            <7>1. crs'[n] = [crs[n] EXCEPT !.deleting = TRUE]
              BY <1>0, <5>1, <5>3, <5>4 DEF TypeOK
            <7>2. crs'[n] \in VirtualClusters
              BY <6>1, <7>1 DEF VirtualClusters
            <7> QED  BY <6>1, <7>1, <7>2, NoneIsNoResource DEF VirtualClusters
          <6> QED  BY <2>2, <4>1, <5>1, <5>2, <6>2 DEF Existing
        <5>5. CASE ~(crs[n] # None /\ crs[n].finalizer)
          <6>1. crs'[n] = None
            BY <1>0, <5>1, <5>3, <5>5 DEF TypeOK
          <6>2. Existing' = {}
            BY <2>2, <4>1, <5>2, <6>1 DEF Existing
          <6>3. host = Gone
            BY <2>5, <5>3, <6>1 DEF Lapse, Clean
          <6> QED  BY <5>1, <6>2, <6>3 DEF Gone, Emptied
        <5> QED  BY <5>4, <5>5
      <4>3. CASE DeleteNamespace(c)
        <5>1. c.op = "delete" /\ pc[c] = "deleteNs" /\ host' = Terminated(host)
          BY <4>3 DEF DeleteNamespace, At
        <5>2. Existing = {} /\ ~host.role
          BY <1>1, <2>5, <4>1, <5>1 DEF DeleteInv
        <5>3. host'.ns # "present"
          BY <1>0, <5>1 DEF Terminated, HostObjects
        <5> QED  BY <2>2, <4>1, <5>2, <5>3
      <4> QED  BY <4>1, <4>2, <4>3
    <3> QED  BY <3>1, <3>2
  <2> QED  BY <2>1, <2>2, <2>3, <2>4, <2>5 DEF DeleteInv
<1> QED  BY <1>2, <1>3

LEMMA OperatorDeleteInv ==
  ASSUME BaseInv, ReleaseInv, DeleteInv, Operator
  PROVE  DeleteInv'
<1> DEFINE sorts == {"rights", "lookup", "bare", "twins", "mixed"}
<1>0. /\ TypeOK /\ ResourceInv /\ host \in HostObjects /\ Step
      /\ UNCHANGED <<pc, found, deleted>> /\ Existing' \subseteq Existing
  BY HostFields, OperatorMoves, OperatorMakesNone DEF BaseInv, Step, OperatorStep
<1>1. Clean(sorts)' => Clean(sorts) /\ Clean({"mixed"}) /\ Clean({"mixed", "rights"})
  <2>1. Clean(sorts)' => Clean(sorts)
    BY <1>0, StaysClean
  <2> QED  BY <2>1 DEF Clean
<1>2. Existing = {} => Existing' = {} /\ host' = host
  BY <1>0, IdleOperator
<1>3. ASSUME Clean(sorts)', NEW n \in CrNamespaces, Existing = {n}, crs[n].deleting
      PROVE  \/ Existing' = {} /\ host'.ns # "present" /\ ~host'.role
             \/ Existing' = {n} /\ crs'[n].deleting
  <2>1. Deleting(n)
    BY <1>3 DEF Deleting, Existing
  <2>2. CASE Deleting(n)'
    BY <1>0, <1>3, <2>2 DEF Deleting, Existing
  <2>3. CASE RemoveFinalizer /\ work.n = n /\ crs' = [crs EXCEPT ![n] = None]
    <3>1. host' = host /\ work.step = "release"
      BY <2>3 DEF RemoveFinalizer, Doing
    <3>2. Existing' = {}
      BY <1>0, <1>3, <2>3 DEF Existing, TypeOK
    <3> QED  BY <1>1, <1>3, <3>1, <3>2 DEF ReleaseInv
  <2> QED  BY <1>0, <2>1, <2>2, <2>3, DeletingStays
<1>4. Clean(sorts)' /\ deleted.done =>
        \/ Existing' = {} /\ host'.ns # "present" /\ ~host'.role
        \/ \E n \in CrNamespaces : Existing' = {n} /\ crs'[n].deleting
  BY <1>1, <1>2, <1>3 DEF DeleteInv
<1>5. Clean(sorts)' => \A d \in deleted.asked :
        /\ pc[d] = "deleteCR" => Existing' \subseteq {found[d]}
        /\ pc[d] = "unbind" => Existing' = {}
        /\ pc[d] = "deleteNs" => Existing' = {} /\ ~host'.role
  BY <1>0, <1>1, <1>2 DEF DeleteInv
<1> QED  BY <1>0, <1>4, <1>5 DEF DeleteInv, Running, Commands

LEMMA NextDeleteInv ==
  ASSUME BaseInv, ReleaseInv, DeleteInv, Step
  PROVE  DeleteInv'
<1>1. CASE EmptyNamespace
  <2>1. UNCHANGED <<pc, crs, found, deleted, lapses>> /\ host'.role = host.role /\ host'.ns # "present"
    BY <1>1 DEF EmptyNamespace, Emptied, resourceVars, historyVars
  <2> QED  BY <2>1 DEF DeleteInv, Running, Commands, Existing, Clean
<1>2. CASE OperatorProcess \/ HostStep
  <2>1. UNCHANGED <<pc, crs, host, found, deleted, lapses>>
    BY <1>2 DEF OperatorProcess, OperatorStarts, OperatorStops, OperatorCrashes, HostStep, CrdRemoved,
                OperatorNamespaceRemoved, lifeVars, historyVars, resourceVars
  <2> QED  BY <2>1 DEF DeleteInv, Running, Commands, Existing, Clean
<1> QED  BY <1>1, <1>2, CommandDeleteInv, OperatorDeleteInv DEF Step

\* A delete that reports success leaves nothing on the host in the end, whatever the operator and
\* the other commands do at the same time: the CLI removes the objects itself, or marks the
\* VirtualCluster and the operator's reconcileDelete (controller.go) removes the ClusterRole and
\* the namespace before the finalizer.
THEOREM DeletedHolds == Spec => []DeletedIsGone
<1>1. Init => DeleteInv
  BY DEF Init, Undeleted, DeleteInv
<1>2. ASSUME ObjectsInv, DeleteInv, [Step]_vars
      PROVE  DeleteInv'
  <2>1. CASE Step
    BY <1>2, <2>1, NextDeleteInv DEF ObjectsInv, BaseInv
  <2>2. CASE UNCHANGED vars
    <3>1. UNCHANGED <<pc, crs, host, found, deleted, lapses>>
      BY <2>2 DEF vars, lifeVars, historyVars, resourceVars
    <3> QED  BY <1>2, <3>1 DEF DeleteInv, Running, Commands, Existing, Clean
  <2> QED  BY <1>2, <2>1, <2>2
<1>3. ASSUME ObjectsInv, DeleteInv
      PROVE  DeletedIsGone
  <2> SUFFICES ASSUME deleted.done, Quiet,
                      lapses \cap {"rights", "lookup", "bare", "twins", "mixed"} = {}
               PROVE  \/ host = Gone /\ Existing = {}
                      \/ ~Alive /\ \E n \in CrNamespaces : Existing = {n} /\ crs[n].deleting
    BY DEF DeletedIsGone
  <2>1. \/ Existing = {} /\ host.ns # "present" /\ ~host.role
        \/ \E n \in CrNamespaces : Existing = {n} /\ crs[n].deleting
    BY <1>3 DEF DeleteInv, Clean
  <2>2. CASE Existing = {} /\ host.ns # "present" /\ ~host.role
    <3>1. host.ns = "absent" /\ host.role = FALSE
      BY <1>3, <2>2, HostFields DEF ObjectsInv, Quiet, ObjectStates
    <3>2. host = Emptied(host.role)
      BY <1>3, <3>1 DEF ObjectsInv, TypeOK
    <3> QED  BY <2>2, <3>1, <3>2 DEF Gone
  <2>3. ASSUME NEW n \in CrNamespaces, Existing = {n}, crs[n].deleting
        PROVE  ~Alive
    <3>1. Deleting(n) /\ work.n = 0
      BY <2>3, IdleTyped DEF Deleting, Existing, Quiet
    <3> QED  BY <1>3, <3>1, IdleTyped DEF ObjectsInv, DeletingInv, Quiet, Alive
  <2> QED  BY <2>1, <2>2, <2>3
<1>4. ObjectsInv /\ DeleteInv /\ [Step]_vars => DeleteInv'
  BY <1>2
<1>5. ObjectsInv /\ DeleteInv => DeletedIsGone
  BY <1>3
<1> QED  BY <1>1, <1>4, <1>5, SpecObjectsInv, PTL DEF Spec
=============================================================================
