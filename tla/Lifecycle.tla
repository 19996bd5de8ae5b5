------------------------------ MODULE Lifecycle ------------------------------
(***************************************************************************)
(* The life of a virtual cluster of one name: the commands of pkg/cli run  *)
(* side by side, and the operator reconciles its VirtualClusters, all on   *)
(* the same objects of the host and, the commands, on one kubeconfig.      *)
(* OperatorInstall has installing and removing the operator,               *)
(* KubeconfigFile the file, ClusterObjects what is made of the options.    *)
(*                                                                         *)
(* The worker takes one resource at a time.  Of its cached reads the       *)
(* Service, Ingress and StatefulSet may be behind, which commands change   *)
(* as well; Reconciler has the lag of the others, the resource's own, the  *)
(* emptying of a namespace object by object and the backoff.  A command's  *)
(* read-modify-write of one object is one step, a conflict being one of    *)
(* the calls that fail.  Headless services, quotas and the syncer's roles  *)
(* in the namespace go with the object that is made next to them.          *)
(***************************************************************************)
EXTENDS OperatorInstall, KubeconfigFile

VARIABLES
  host,     \* the cluster's objects on the host
  work,     \* the reconcile under way: its step, and its copy of the resource
  seen,     \* the informers' copies
  found,    \* command -> the namespace a delete found a VirtualCluster in, 0 for none
  deleted,  \* history: the deletes since the last create, and that one of them is done
  lapses    \* history: what went wrong and was not reported

workVars == <<work, seen>>
historyVars == <<deleted, lapses>>
lifeVars == <<fileVars, host, workVars, found, historyVars>>
vars == <<pc, installVars, resourceVars, pod, faults, lifeVars>>

\* role is the ClusterRole and its binding; an Ingress is its host.
HostObjects == [ns : ObjectStates, role : BOOLEAN, svc : ServiceTypes \cup {"none"},
                ing : Hosts \cup {NoHost, None}, sts : StatefulSets \cup {None}, agents : BOOLEAN]
Emptied(role) == [ns |-> "absent", role |-> role, svc |-> "none", ing |-> None, sts |-> None,
                  agents |-> FALSE]
Gone == Emptied(FALSE)

Cached == {"svc", "ing", "sts"}
Seen(objects) == [kind \in Cached |-> objects[kind]]

Idle == [step |-> "idle", n |-> 0, cr |-> None]
WorkSteps == Ensures \cup {"status", "unbind", "unspace", "release"}

Undeleted == [asked |-> {}, done |-> FALSE]
Lapses == {"rights", "lookup", "bare", "twins", "mixed", "unread", "stale", "flipped", "file"}

CommandSteps ==
  Resting \cup {"rights", "namespace", "crd", "account", "rbac", "deployment",
                "makeCR", "services", "server", "agents", "await", "address",
                "find", "deleteCR", "unbind", "deleteNs",
                "service", "ingress", "san", "merge", "remove", "truncate", "write"}

\* Every variable has its type; what is in a namespace goes with it, and resources with their
\* CRD; a process that is not there works on nothing, and one that applies a resource can rely on
\* its finalizer (controller.go:76): it is still there.
TypeOK ==
  /\ FileTypeOK
  /\ Commands \in Plans /\ pc \in [Commands -> CommandSteps]
  /\ crd \in ObjectStates /\ schema \in {"cli", "manifests"}
  /\ crs \in [CrNamespaces -> VirtualClusters \cup {None}] /\ queued \subseteq CrNamespaces
  /\ crd = "absent" => Existing = {}
  /\ opNs \in ObjectStates /\ parts \subseteq Parts
  /\ opNs = "absent" => parts \subseteq {"rbac"}
  /\ host \in HostObjects
  /\ host.ns = "absent" => host = Emptied(host.role)
  /\ DOMAIN seen = Cached
  /\ work = Idle \/ (/\ work \in [step : WorkSteps, n : CrNamespaces, cr : VirtualClusters]
                      /\ crs[work.n] # None)
  /\ pod \in BOOLEAN /\ (~pod => work = Idle /\ queued = {})
  /\ found \in [Commands -> CrNamespaces \cup {0}]
  /\ deleted \in [asked : SUBSET Commands, done : BOOLEAN] /\ lapses \subseteq Lapses
  /\ alone \in BOOLEAN /\ faults \in 0..MaxFaults

\* The operator is not there, or was installed with either CRD.
Init ==
  /\ \E plan \in Plans : pc = [c \in plan |-> "planned"]
  /\ \/ crd = "absent" /\ opNs = "absent" /\ parts = {} /\ schema = "cli"
     \/ crd = "present" /\ opNs = "present" /\ parts = Parts /\ schema \in {"cli", "manifests"}
  /\ pod = (crd = "present")
  /\ crs = [n \in CrNamespaces |-> None] /\ queued = {}
  /\ host = Gone /\ work = Idle /\ seen = Seen(Gone)
  /\ FileInit
  /\ found = [c \in Commands |-> 0]
  /\ deleted = Undeleted /\ lapses = {} /\ alone = FALSE /\ faults = 0

Lapse(what, bad) == lapses' = IF bad THEN lapses \cup {what} ELSE lapses

\* The host's objects are all that a step of a command changes.
OnHost(c, step) ==
  /\ GoTo(c, step)
  /\ UNCHANGED <<installVars, resourceVars, pod, fileVars, workVars, found, deleted>>

\* The namespace takes new objects.
Accepts == host.ns = "present"

-----------------------------------------------------------------------------
(* create.                                                                 *)

\* resolveCreateMode and decideCreateMode.  A resource made by hand or by the CLI is the same.
ResolveCreateMode(c) ==
  /\ At(c, "create", "planned")
  /\ GoTo(c, IF c.mode = "legacy" \/ (c.mode = "auto" /\ crd = "absent") THEN "namespace"
             ELSE IF crd = "absent" THEN "failed" ELSE "makeCR")
  /\ deleted' = Undeleted
  /\ UNCHANGED <<installVars, resourceVars, pod, faults, fileVars, host, workVars, found, lapses>>

OtherCreate(c) == \E d \in Commands \ {c} : d.op = "create" /\ pc[d] \notin Resting

\* What the API server keeps of a spec.
Pruned(opts) == IF schema = "cli" THEN [opts EXCEPT !.vnode = FALSE] ELSE opts

\* A CRD that terminates refuses new resources.  The options of no exposure are an error
\* if a host is given.
CreateVirtualClusterCR(c) ==
  /\ At(c, "create", "makeCR")
  /\ IF crd = "present" /\ crs[c.at] = None /\ (c.opts.expose = "none" => c.opts.host = NoHost)
     THEN /\ crs' = [crs EXCEPT ![c.at] =
                       [spec |-> Pruned(c.opts), asked |-> c.opts.vnode, finalizer |-> FALSE,
                        deleting |-> FALSE, phase |-> "", observed |-> FALSE]]
          /\ queued' = IF pod THEN queued \cup {c.at} ELSE queued
          /\ Lapse("mixed", OtherCreate(c))
          /\ GoTo(c, "done")
     ELSE GoTo(c, "failed") /\ UNCHANGED <<resourceVars, lapses>>
  /\ UNCHANGED <<installVars, pod, faults, fileVars, host, workVars, found, deleted>>

CreateNamespace(c) ==
  /\ At(c, "create", "namespace")
  /\ IF host.ns = "absent"
     THEN /\ host' = [host EXCEPT !.ns = "present"]
          /\ Lapse("mixed", Existing # {} \/ OtherCreate(c))
          /\ OnHost(c, "account")
     ELSE OnHost(c, "failed") /\ UNCHANGED <<host, lapses>>
  /\ UNCHANGED faults

\* Nothing that was made is taken back when a later call fails.
CreateServiceAccount(c) ==
  /\ At(c, "create", "account")
  /\ OnHost(c, IF Accepts THEN "rbac" ELSE "failed")
  /\ UNCHANGED <<host, lapses, faults>>

CreateRBAC(c) ==
  /\ At(c, "create", "rbac")
  /\ host' = [host EXCEPT !.role = TRUE]
  /\ OnHost(c, IF ~host.role /\ Accepts THEN "services" ELSE "failed")
  /\ UNCHANGED <<lapses, faults>>

\* The Service, then the Ingress if there is to be one.
CreateServices(c) ==
  /\ At(c, "create", "services")
  /\ LET made == Accepts /\ host.svc = "none"
         exposed == c.opts.expose = "Ingress"
         ing == IF exposed /\ host.ing = None THEN BuildIngress(c.opts.host) ELSE host.ing
     IN /\ host' = IF made THEN [host EXCEPT !.svc = serviceType(c.opts), !.ing = ing] ELSE host
        /\ OnHost(c, IF made /\ (exposed => host.ing = None) THEN "server" ELSE "failed")
  /\ UNCHANGED <<lapses, faults>>

CreateStatefulSet(c) ==
  /\ At(c, "create", "server")
  /\ IF Accepts /\ host.sts = None
     THEN /\ host' = [host EXCEPT !.sts = newStatefulSet(c.opts)]
          /\ OnHost(c, IF c.opts.vnode THEN "agents" ELSE "await")
     ELSE OnHost(c, "failed") /\ UNCHANGED host
  /\ UNCHANGED <<lapses, faults>>

CreateVNodeStatefulSet(c) ==
  /\ At(c, "create", "agents")
  /\ host' = IF Accepts THEN [host EXCEPT !.agents = TRUE] ELSE host
  /\ OnHost(c, IF Accepts /\ ~host.agents THEN "await" ELSE "failed")
  /\ UNCHANGED <<lapses, faults>>

Create(c) ==
  \/ ResolveCreateMode(c) \/ CreateVirtualClusterCR(c) \/ CreateNamespace(c)
  \/ CreateServiceAccount(c) \/ CreateRBAC(c) \/ CreateServices(c) \/ CreateStatefulSet(c)
  \/ CreateVNodeStatefulSet(c)

-----------------------------------------------------------------------------
(* delete.                                                                 *)

\* IsOperatorAvailable; an error is taken for "no".
CheckOperator(c) ==
  /\ At(c, "delete", "planned")
  /\ deleted' = IF Running("create") THEN deleted ELSE [deleted EXCEPT !.asked = @ \cup {c}]
  /\ \/ /\ GoTo(c, IF crd = "absent" THEN "unbind" ELSE "find")
        /\ UNCHANGED <<faults, lapses>>
     \/ Fault /\ GoTo(c, "unbind") /\ Lapse("lookup", crd # "absent")
  /\ UNCHANGED <<installVars, resourceVars, pod, fileVars, host, workVars, found>>

\* The first of the list.
FindVirtualClusterCR(c) ==
  /\ At(c, "delete", "find")
  /\ \/ Existing = {} /\ found' = [found EXCEPT ![c] = 0] /\ GoTo(c, "unbind")
     \/ \E first \in Existing :
          /\ \A n \in Existing : first <= n
          /\ found' = [found EXCEPT ![c] = first]
          /\ GoTo(c, "deleteCR")
  /\ Lapse("twins", Cardinality(Existing) > 1)
  /\ UNCHANGED <<installVars, resourceVars, pod, faults, fileVars, host, workVars, deleted>>

\* A resource without the finalizer is gone at once, and leaves what there is on the host.
\* One that is not there any more is no error.
DeleteVirtualClusterCR(c) ==
  /\ At(c, "delete", "deleteCR")
  /\ LET n == found[c]
         cr == crs[n]
     IN /\ crs' = [crs EXCEPT ![n] = IF cr # None /\ cr.finalizer
                                     THEN [cr EXCEPT !.deleting = TRUE] ELSE None]
        /\ queued' = IF pod /\ crs' # crs THEN queued \cup {n} ELSE queued
        /\ Lapse("bare", crs'[n] = None /\ host # Gone)
  /\ deleted' = [deleted EXCEPT !.done = @ \/ c \in deleted.asked]
  /\ GoTo(c, "remove")
  /\ UNCHANGED <<installVars, pod, faults, fileVars, host, workVars, found>>

\* The errors of these calls are dropped.
DeleteClusterRBAC(c) ==
  /\ At(c, "delete", "unbind")
  /\ \/ host' = [host EXCEPT !.role = FALSE] /\ UNCHANGED <<faults, lapses>>
     \/ Fault /\ Lapse("rights", host.role) /\ UNCHANGED host
  /\ OnHost(c, "deleteNs")

Terminated(objects) ==
  IF objects.ns = "present" THEN [objects EXCEPT !.ns = "terminating"] ELSE objects

DeleteNamespace(c) ==
  /\ At(c, "delete", "deleteNs")
  /\ host' = Terminated(host)
  /\ deleted' = [deleted EXCEPT !.done = @ \/ c \in deleted.asked]
  /\ GoTo(c, "remove")
  /\ UNCHANGED <<installVars, resourceVars, pod, faults, fileVars, workVars, found, lapses>>

Delete(c) ==
  \/ CheckOperator(c) \/ FindVirtualClusterCR(c) \/ DeleteVirtualClusterCR(c)
  \/ DeleteClusterRBAC(c) \/ DeleteNamespace(c)

-----------------------------------------------------------------------------
(* expose, connect, and what create does when the cluster is made.         *)

ExposeService(c) ==
  /\ At(c, "expose", "planned")
  /\ IF host.svc = "none"
     THEN OnHost(c, "failed") /\ UNCHANGED host
     ELSE /\ host' = [host EXCEPT !.svc = serviceType(c.opts)]
          /\ OnHost(c, "ingress")
  /\ UNCHANGED <<lapses, faults>>

AfterIngress(opts) == IF opts.host = NoHost THEN "address" ELSE "san"

\* The error of the Delete is dropped, and so is one of the Get: an Ingress that cannot be read
\* stays as it is.
ExposeIngress(c) ==
  /\ At(c, "expose", "ingress")
  /\ \/ /\ c.opts.expose = "Ingress" /\ UNCHANGED faults
        /\ IF host.ing = None /\ ~Accepts
           THEN OnHost(c, "failed") /\ UNCHANGED host
           ELSE /\ host' = [host EXCEPT !.ing = BuildIngress(c.opts.host)]
                /\ OnHost(c, AfterIngress(c.opts))
     \/ /\ c.opts.expose = "Ingress" /\ Fault /\ UNCHANGED host
        /\ OnHost(c, AfterIngress(c.opts))
     \/ /\ c.opts.expose = "LoadBalancer"
        /\ \/ host' = [host EXCEPT !.ing = None] /\ UNCHANGED faults
           \/ Fault /\ UNCHANGED host
        /\ OnHost(c, "address")
  /\ UNCHANGED lapses

HasSan(args, h) == \E i \in 1..Len(args.sans) : args.sans[i] = h

\* A StatefulSet that is not there or cannot be read is passed over.
ExposeTlsSan(c) ==
  /\ At(c, "expose", "san")
  /\ \/ /\ host' = IF host.sts = None \/ HasSan(host.sts.args, c.opts.host) THEN host
                   ELSE [host EXCEPT !.sts.args.sans = Append(@, c.opts.host)]
        /\ Lapse("unread", host.sts = None) /\ UNCHANGED faults
     \/ UNCHANGED host /\ Lapse("unread", TRUE) /\ Fault
  /\ OnHost(c, "address")

Expose(c) == ExposeService(c) \/ ExposeIngress(c) \/ ExposeTlsSan(c)

\* The host GetExternalAddress returns as one the server's certificate has; that of a load
\* balancer is not expected to be in it.
VerifiedHost == IF host.svc = "ClusterIP" /\ host.ing \in Hosts THEN host.ing ELSE NoHost

ConnectStarts(c) ==
  /\ At(c, "connect", "planned")
  /\ OnHost(c, "await")
  /\ UNCHANGED <<host, lapses, faults>>

\* WaitForReady, with the server ready at some time.  A create may end here, or print.
AwaitReady(c) ==
  /\ pc[c] = "await" /\ host.sts # None
  /\ \/ OnHost(c, IF c.op = "connect" \/ c.opts.expose = "none" THEN "merge" ELSE "address")
     \/ c.op = "create" /\ OnHost(c, "done")
  /\ UNCHANGED <<host, lapses, faults>>

\* WaitForExternalAddress.
AwaitAddress(c) ==
  /\ pc[c] = "address"
  /\ host.svc = "LoadBalancer" \/ VerifiedHost # NoHost
  /\ OnHost(c, "merge")
  /\ UNCHANGED <<host, lapses, faults>>

\* A poll that times out, or is about something that is not there.
GiveUp(c) ==
  /\ pc[c] \in {"await", "address"}
  /\ OnHost(c, "failed")
  /\ UNCHANGED <<host, lapses, faults>>

-----------------------------------------------------------------------------
(* The kubeconfig.                                                         *)

InFile(c) == pc[c] \in {"truncate", "write"}

\* What a step on the file leaves alone.
OnFile(c, step) ==
  /\ GoTo(c, step)
  /\ UNCHANGED <<installVars, resourceVars, pod, faults, host, workVars, found, deleted>>

\* RetrieveWithOptions reads the server's own files, and needs it.
Load(c) ==
  /\ \/ /\ pc[c] = "merge" /\ host.sts # None
        /\ LoadAndMerge(c) /\ OnFile(c, "truncate")
     \/ /\ pc[c] = "merge" /\ host.sts = None
        /\ OnFile(c, "failed") /\ UNCHANGED fileVars
     \/ /\ pc[c] = "remove"
        /\ LoadAndRemove(c) /\ OnFile(c, "truncate")
     \/ /\ pc[c] = "remove"
        /\ NothingToRemove /\ OnFile(c, "done")
  /\ Lapse("file", pc'[c] = "truncate" /\ \E d \in Commands : InFile(d))

Write(c) ==
  /\ \/ pc[c] = "truncate" /\ Truncate /\ OnFile(c, "write")
     \/ pc[c] = "write" /\ WriteContexts(c) /\ OnFile(c, "done")
  /\ UNCHANGED lapses

-----------------------------------------------------------------------------
(* Users.                                                                  *)

\* One edits the resource.
EditSpec(c) ==
  /\ At(c, "edit", "planned")
  /\ crs[c.at] # None /\ ~crs[c.at].deleting
  /\ crs' = [crs EXCEPT ![c.at].spec = Pruned(c.opts), ![c.at].asked = c.opts.vnode,
                        ![c.at].observed = @ /\ Pruned(c.opts) = crs[c.at].spec]
  /\ queued' = IF pod THEN queued \cup {c.at} ELSE queued
  /\ GoTo(c, "done")
  /\ UNCHANGED <<installVars, pod, faults, fileVars, host, workVars, found, historyVars>>

\* A call of a command fails, or the command is killed; what it was going to do stays undone.
FailCommand(c) ==
  /\ pc[c] \notin Resting
  /\ Fault
  /\ OnHost(c, "failed")
  /\ lapses' = lapses \cup (IF pc[c] = "write" THEN {"file"} ELSE {})
                      \cup (IF pc[c] = "san" THEN {"unread"} ELSE {})
  /\ UNCHANGED host

-----------------------------------------------------------------------------
(* Reconcile.                                                              *)

OperatorStep == UNCHANGED <<pc, installVars, pod, fileVars, found, deleted>>

\* Mutant: a resource is never seen without the finalizer.
AssumesFinalizer(cr) == TRUE
ContainsFinalizer(cr) == cr.finalizer

\* The event's resource: it is not there, it is being deleted, it gets the finalizer, its first
\* status, or what it asks for.
Take(n) ==
  /\ Alive /\ work = Idle /\ n \in queued
  /\ LET cr == crs[n]
         reset == [cr EXCEPT !.phase = "Pending", !.observed = TRUE]
     IN \/ /\ cr = None
           /\ queued' = queued \ {n} /\ UNCHANGED <<crs, work>>
        \/ /\ cr # None /\ cr.deleting
           /\ queued' = queued \ {n} /\ work' = [step |-> "unbind", n |-> n, cr |-> cr]
           /\ UNCHANGED crs
        \/ /\ cr # None /\ ~cr.deleting /\ ~ContainsFinalizer(cr)
           /\ crs' = [crs EXCEPT ![n].finalizer = TRUE] /\ UNCHANGED <<queued, work>>
        \/ /\ cr # None /\ ~cr.deleting /\ ContainsFinalizer(cr) /\ cr.phase = ""
           /\ crs' = [crs EXCEPT ![n] = reset] /\ UNCHANGED <<queued, work>>
        \/ /\ cr # None /\ ~cr.deleting /\ ContainsFinalizer(cr) /\ cr.phase # ""
           /\ queued' = queued \ {n} /\ work' = [step |-> "namespace", n |-> n, cr |-> cr]
           /\ UNCHANGED crs
  /\ OperatorStep /\ UNCHANGED <<faults, host, seen, lapses>>

Doing(step) == Alive /\ work.step = step
GoOn(step) == work' = [work EXCEPT !.step = step]

\* updateStatus.  Nothing is tried again of itself when a status says Failed, and the resource
\* queues itself only by changing.  A resource that is not what it was is a conflict, an error.
UpdateStatus(phase, again) ==
  /\ LET n == work.n
         new == [work.cr EXCEPT !.phase = phase, !.observed = TRUE]
         current == crs[n] = work.cr
     IN /\ crs' = IF current THEN [crs EXCEPT ![n] = new] ELSE crs
        /\ queued' = IF again \/ ~current \/ new # work.cr THEN queued \cup {n} ELSE queued
  /\ work' = Idle

\* One ensure function: it is done, or the status says what failed.
Ensured(next) == GoOn(next) /\ UNCHANGED resourceVars
Refused == UpdateStatus(work.step, FALSE) /\ UNCHANGED host

EnsureNamespace ==
  /\ Doing("namespace")
  /\ host' = [host EXCEPT !.ns = IF @ = "absent" THEN "present" ELSE @]
  /\ Ensured("roles")
  /\ OperatorStep /\ UNCHANGED <<faults, seen, lapses>>

\* ensureServiceAccount and ensureRBAC.  In a namespace that terminates some of it may be left.
EnsureRBAC ==
  /\ Doing("roles")
  /\ \/ Accepts /\ host' = [host EXCEPT !.role = TRUE] /\ Ensured("services")
     \/ /\ host.ns = "terminating" /\ host' = [host EXCEPT !.role = TRUE]
        /\ Ensured("services") \/ UpdateStatus("roles", FALSE)
     \/ ~Accepts /\ Refused
  /\ OperatorStep /\ UNCHANGED <<faults, seen, lapses>>

\* A Create fails if there is one by then, an Update if it is not the one that was read.
EnsureServices ==
  /\ Doing("services")
  /\ LET svc == BuildService(work.cr.spec)
         able == IF seen.svc = "none" THEN host.svc = "none" /\ Accepts
                 ELSE seen.svc = svc \/ seen.svc = host.svc
     IN \/ /\ able
           /\ host' = IF seen.svc = svc THEN host ELSE [host EXCEPT !.svc = svc]
           /\ Ensured("server")
        \/ ~able /\ Refused
  /\ OperatorStep /\ UNCHANGED <<faults, seen, lapses>>

\* The arguments are brought up to date if they are seen to differ, the syncer's environment is
\* not.
EnsureStatefulSet ==
  /\ Doing("server")
  /\ LET desired == BuildStatefulSet(work.cr.spec)
         same == seen.sts # None /\ seen.sts.args = desired.args
         able == IF seen.sts = None THEN host.sts = None /\ Accepts
                 ELSE same \/ seen.sts = host.sts
         sts == IF seen.sts = None THEN desired ELSE [seen.sts EXCEPT !.args = desired.args]
     IN \/ /\ able
           /\ host' = IF same THEN host ELSE [host EXCEPT !.sts = sts]
           /\ lapses' = lapses \cup (IF ~same /\ sts # desired THEN {"flipped"} ELSE {})
                                \cup (IF host'.sts # None /\ host'.sts.args # desired.args
                                      THEN {"stale"} ELSE {})
           /\ Ensured("ingress")
        \/ ~able /\ Refused /\ UNCHANGED lapses
  /\ OperatorStep /\ UNCHANGED <<faults, seen>>

\* An Ingress that is not seen is not removed.
EnsureIngress ==
  /\ Doing("ingress")
  /\ LET spec == work.cr.spec
         able == /\ spec.host # NoHost
                 /\ IF seen.ing = None THEN host.ing = None /\ Accepts ELSE seen.ing = host.ing
     IN \/ /\ spec.expose # "Ingress"
           /\ host' = IF seen.ing = None THEN host ELSE [host EXCEPT !.ing = None]
           /\ Lapse("stale", host'.ing # None)
           /\ Ensured("agents")
        \/ /\ spec.expose = "Ingress" /\ able
           /\ host' = [host EXCEPT !.ing = BuildIngress(spec.host)]
           /\ Ensured("agents") /\ UNCHANGED lapses
        \/ spec.expose = "Ingress" /\ ~able /\ Refused /\ UNCHANGED lapses
  /\ OperatorStep /\ UNCHANGED <<faults, seen>>

\* Mutant: the agents are made if they are wanted, and never removed.
EnsureVNodeDeploymentOnly ==
  /\ Doing("agents")
  /\ host' = [host EXCEPT !.agents = @ \/ work.cr.spec.vnode]
  /\ Ensured("status")
  /\ OperatorStep /\ UNCHANGED <<faults, seen, lapses>>

EnsureVNodeDeployment ==
  /\ Doing("agents")
  /\ LET able == work.cr.spec.vnode => host.agents \/ Accepts
     IN \/ able /\ host' = [host EXCEPT !.agents = work.cr.spec.vnode] /\ Ensured("status")
        \/ ~able /\ Refused
  /\ OperatorStep /\ UNCHANGED <<faults, seen, lapses>>

\* A server that is there is ready at some time.
CheckReadiness ==
  /\ Doing("status")
  /\ IF seen.sts = None THEN UpdateStatus("Pending", TRUE) ELSE UpdateStatus("Running", FALSE)
  /\ OperatorStep /\ UNCHANGED <<faults, host, seen, lapses>>

FailEnsure ==
  /\ Alive /\ work.step \in Ensures /\ Fault
  /\ Refused
  /\ OperatorStep /\ UNCHANGED <<seen, lapses>>

Apply ==
  \/ EnsureNamespace \/ EnsureRBAC \/ EnsureServices \/ EnsureStatefulSet \/ EnsureIngress
  \/ EnsureVNodeDeployment \/ CheckReadiness

\* Mutant: what is not in the namespace is left to garbage collection.
ReleaseRBACNever ==
  /\ Doing("unbind")
  /\ Ensured("unspace")
  /\ OperatorStep /\ UNCHANGED <<faults, host, seen, lapses>>

\* reconcileDelete: the errors of the first calls are dropped, the other errors queue again.
ReleaseRBAC ==
  /\ Doing("unbind")
  /\ \/ host' = [host EXCEPT !.role = FALSE] /\ UNCHANGED <<faults, lapses>>
     \/ Fault /\ Lapse("rights", host.role) /\ UNCHANGED host
  /\ Ensured("unspace")
  /\ OperatorStep /\ UNCHANGED seen

\* Mutant: the error is logged and not returned.
ReleaseNamespaceQuietly ==
  /\ Doing("unspace")
  /\ \/ host' = Terminated(host) /\ Ensured("release") /\ UNCHANGED faults
     \/ Fault /\ work' = Idle /\ UNCHANGED <<resourceVars, host>>
  /\ OperatorStep /\ UNCHANGED <<seen, lapses>>

ReleaseNamespace ==
  /\ Doing("unspace")
  /\ \/ host' = Terminated(host) /\ Ensured("release") /\ UNCHANGED faults
     \/ Fault /\ work' = Idle /\ queued' = queued \cup {work.n} /\ UNCHANGED <<crs, host>>
  /\ OperatorStep /\ UNCHANGED <<seen, lapses>>

RemoveFinalizer ==
  /\ Doing("release")
  /\ crs' = IF crs[work.n] = work.cr THEN [crs EXCEPT ![work.n] = None] ELSE crs
  /\ queued' = queued \cup {work.n}
  /\ work' = Idle
  /\ OperatorStep /\ UNCHANGED <<faults, host, seen, lapses>>

Release == ReleaseRBAC \/ ReleaseNamespace \/ RemoveFinalizer

\* Without its rights the operator's calls are errors, and queue again.
LoseWork ==
  /\ pod /\ ~Alive /\ work # Idle
  /\ work' = Idle
  /\ queued' = queued \cup {work.n}
  /\ OperatorStep /\ UNCHANGED <<crs, faults, host, seen, lapses>>

CatchUp(kind) ==
  /\ pod /\ seen[kind] # host[kind]
  /\ seen' = [seen EXCEPT ![kind] = host[kind]]
  /\ OperatorStep /\ UNCHANGED <<resourceVars, faults, host, work, lapses>>

-----------------------------------------------------------------------------
(* The host.                                                               *)

EmptyNamespace ==
  /\ host.ns = "terminating"
  /\ host' = Emptied(host.role)
  /\ UNCHANGED <<pc, installVars, resourceVars, pod, faults, fileVars, workVars, found,
                 historyVars>>

\* What a process of the operator knows goes with it; the next lists what there is.
OperatorProcess ==
  /\ \/ OperatorStarts /\ seen' = Seen(host)
     \/ OperatorStops /\ seen' = Seen(Gone)
     \/ OperatorCrashes /\ seen' = Seen(host)
  /\ work' = Idle
  /\ UNCHANGED <<fileVars, host, found, historyVars>>

HostStep ==
  (CrdRemoved \/ OperatorNamespaceRemoved) /\ UNCHANGED lifeVars

Installing(c) == (Install(c) \/ Uninstall(c)) /\ UNCHANGED lifeVars

Command(c) ==
  \/ Installing(c) \/ Create(c) \/ Delete(c) \/ Expose(c) \/ ConnectStarts(c)
  \/ AwaitReady(c) \/ AwaitAddress(c) \/ GiveUp(c) \/ Load(c) \/ Write(c)
  \/ EditSpec(c) \/ FailCommand(c)

Operator ==
  \/ \E n \in CrNamespaces : Take(n)
  \/ Apply \/ FailEnsure \/ Release \/ LoseWork
  \/ \E kind \in Cached : CatchUp(kind)

Step ==
  \/ \E c \in Commands : Command(c)
  \/ Operator \/ EmptyNamespace \/ OperatorProcess \/ HostStep

Spec == Init /\ [][Step]_vars

\* The operator goes on with what it does and its queue serves every resource in the end; a CRD
\* is removed when it can be.  Nothing makes a user run a command or a command go on, and nothing
\* of this rests on a cache that catches up or a namespace that empties.
FairSpec ==
  /\ Spec
  /\ WF_vars(Apply \/ Release \/ LoseWork)
  /\ \A n \in CrNamespaces : SF_vars(Take(n))
  /\ WF_vars(CrdRemoved /\ UNCHANGED lifeVars)

-----------------------------------------------------------------------------
(* Properties.                                                             *)

\* Nothing is under way, and what the operator was told is what is running.
CommandsRest == \A c \in Commands : pc[c] \in Resting
Quiet ==
  /\ CommandsRest
  /\ work = Idle /\ (Alive => queued = {})
  /\ host.ns # "terminating"
Settled ==
  /\ Quiet
  /\ \A n \in Existing : Alive /\ ~crs[n].deleting /\ crs[n].observed /\ crs[n].phase = "Running"

\* An "operator install" that reports success leaves an operator that lasts, if no uninstall ran
\* at the same time and the CRD was not going away: InstallOperator (operator_deploy.go) takes
\* what it finds for good, and a namespace of an earlier uninstall may be going away as well.
InstallLasts ==
  (alone /\ \E c \in Commands : c.op = "install" /\ pc[c] = "done")
     => crd = "present" /\ opNs = "present" /\ parts = Parts

\* A delete that reports success, with no create at the time or since, leaves nothing on the host
\* in the end, unless a VirtualCluster waits for an operator that is gone (delete.go, and
\* reconcileDelete in controller.go).  Excused are errors that are dropped or taken for "no
\* operator", and two clusters that share the name, be they of two VirtualClusters or of a create
\* without one.
DeletedIsGone ==
  (deleted.done /\ Quiet /\ lapses \cap {"rights", "lookup", "bare", "twins", "mixed"} = {})
     => \/ host = Gone /\ Existing = {}
        \/ ~Alive /\ \E n \in Existing : crs[n].deleting

\* The host of an Ingress is in the server's certificate, so a kubeconfig need not skip the
\* verification: "Ingress hosts are added to TLS-SAN at create/expose time, so the cert
\* validates" (GetExternalAddress, manifests.go:868), also when the operator reconciles at the
\* same time.  Excused are a StatefulSet that expose could not read or update, an Ingress the
\* operator's cache did not show, and creates that ran at the same time.
AdvertisedHostVerifies ==
  (Settled /\ lapses \cap {"unread", "stale", "mixed"} = {} /\ host.sts # None /\ VerifiedHost # NoHost)
     => HasSan(host.sts.args, VerifiedHost)

\* The server, the syncer in it and the agents run in one mode, and that is the one the resource
\* asks for: a server without its agents, or a syncer of the other mode, runs no pods.  Excused are
\* creates that failed half-way or ran at the same time, an old copy that the cache showed, and
\* the syncer where ensureStatefulSet (controller.go:602) left the environment as it was.
ModesAgree ==
  (/\ Settled /\ host.sts # None /\ lapses \cap {"mixed", "stale"} = {}
   /\ ~\E c \in Commands : c.op = "create" /\ pc[c] = "failed")
     => /\ host.agents = host.sts.args.vnode
        /\ host.sts.env.vnode = host.sts.args.vnode \/ "flipped" \in lapses
        /\ (Cardinality(Existing) = 1 /\ schema = "manifests")
             => \A n \in Existing : crs[n].asked = host.agents

\* The user's other contexts survive all commands, those that fail and those that are killed
\* included, unless one comes into the file while another writes it, or is killed as it writes
\* (WriteToFile and RemoveFromFile, kubeconfig.go:103 and 147).
ContextsKept ==
  "other" \in file.contexts \/ "file" \in lapses \/ \E c \in Commands : pc[c] = "write"

\* A VirtualCluster that is being deleted is gone in the end, and so is the CRD of an operator
\* that was removed, as long as an operator runs that has its rights: also one that was installed
\* again after the first was removed and could not finish (UninstallOperator,
\* operator_deploy.go:81, removes it before the CRD).
TerminationCompletes ==
  (Alive /\ (crd = "terminating" \/ \E n \in CrNamespaces : Deleting(n)))
     ~> (~Alive \/ (crd # "terminating" /\ \A n \in CrNamespaces : ~Deleting(n)))
=============================================================================
