# A verification development of vibecluster

vibecluster runs k3s control planes ("virtual clusters") inside namespaces of a host Kubernetes cluster.
This directory holds TLA+ modules translated from its Go source, TLC configurations that check
them on small instances, and proofs checked by TLAPS. All source references are to `src/`.

Run from this directory: `tlc -config <X>.cfg <Module>` for a run of the table below, and
`tlapm <X>_proofs.tla` for the proofs of the eight modules so named.

## 1. Inventory

| Component | Source | State | Operations | What is hard |
|---|---|---|---|---|
| ConfigMap and Secret loops | `pkg/syncer/syncer.go` 601-756 | none of its own; an open watch and its events | watch, upsert, delete | lost events, failed calls, re-created objects, clashing names |
| Pod loops | `syncer.go` 217-429 | none; locals of the handler across API calls | create/delete the host pod; bind and copy status back | two loops and the users write one pod; deletions nobody sees; conflicts |
| Service loops | `syncer.go` 437-598 | none | spec to the host, load balancer status back | a dropped conflict between the two directions |
| Node loop | `syncer.go` 759-851 | none | mirror nodes, rewritten for the shim | deletions ignored |
| Syncer process | `syncer.go` 61-163, `cmd/syncer/main.go` | goroutines, a wait group, an error channel | start, restart | failure of one goroutine is reported after all have ended |
| Kubelet shim | `pkg/syncer/kubeletshim` | a cached token | proxy logs/exec | stale token, name translation |
| CIDR allocation | `pkg/k8s/cidr.go`, `manifests.go`, `controller.go` 229-290 | annotations of host namespaces | list, pick, record | list and record are separate calls of many processes; a lagging cache |
| Operator reconcile | `pkg/operator/controller.go` | the resource's spec, status and finalizer, host objects, informer cache, work queue | ensure eleven kinds of objects, report readiness, delete | staleness, partial failure, restarts, a resource deleted and re-created |
| Operator process | `cmd/operator/main.go` | - | start | restart |
| Operator installation | `pkg/k8s/operator_deploy.go` | CRD, RBAC, Deployment | install, uninstall | finalizers outlive the operator; what an earlier uninstall has not finished deleting |
| CLI create/delete | `pkg/cli`, `pkg/k8s/manifests.go`, `operator_cr.go` | host objects or a VirtualCluster | direct or by resource | no rollback; the two ways share names |
| Expose | `pkg/cli/expose.go` | Service type, Ingress, server arguments | three updates | competes with the operator; dropped errors |
| Kubeconfig | `pkg/kubeconfig` | the user's file | load, merge, remove, write | two commands at once; a killed one |
| Builders | `pkg/k8s/builders.go`, `manifests.go` | - | pure construction, in two versions | the versions must agree |
| Client, list, connect, logs | `pkg/cli` | - | I/O; connect writes the kubeconfig | - |

How they interact: the CLI (directly) or the operator (from a `VirtualCluster` resource) makes a host
namespace `vc-<name>` with a StatefulSet of k3s and the syncer. The syncer is a client of two API servers;
its loops meet only in the objects of these servers. The operator sees the host through informer
caches that lag, and writes to the API server directly; it is woken by changes of the resource only.
CLI and operator share the annotations the CIDRs are allocated from.

What makes them correct: host copies that follow the virtual objects forward and never swap owners; pod status
that never goes backwards; removal that is carried out;
CIDRs that never change once recorded and are those the servers use; a status that is true; a
deletion that ends and leaves nothing. The hazards are listed, with the properties for each, in
`PROJECT.json`.

## 2. Plan

1. Done: `ObjectSync` (with `Mirror`, its abstract specification, and its proofs), `PodSync`,
   `CidrAlloc`, `Reconciler`.
2. Done: `ServiceSync`, the Service between its two loops, the dropped conflicts and the writes that repair them.
3. Done: `NodeSync` and `SyncerRun`, the node loop inside the process, its goroutines, error channel and shim.
4. Done: `Lifecycle`, made of `OperatorInstall` (install and uninstall against the finalizers), `KubeconfigFile` and
   `ClusterObjects`: direct and resource-based clusters of one name, expose and edits against the operator, commands side by side.
5. The shim's token cache; vnode mode's bootstrap.
6. Done: theorems that state every safety invariant and action property the passing runs check, and the
   refinement of `Mirror`. Liveness stays with TLC. Theorems about the modules of item 5 follow them.

New runs keep the bounds used here: two actors or keys, two incarnations, one or two faults, so that
every interesting order of two things happens.

## 3. Modules

### Mirror, ObjectSync

`ObjectSync` is one loop of `syncConfigMaps` or `syncSecrets`. The virtual API server is its `history` of
committed changes; a watch opened with empty list options (`OpenWatch`) delivers ADDED for every
object that exists, in any order, then every change; `CloseWatch` (a closed channel or a restart of
the syncer) drops what is queued. `SkipSystem`, `HandleUpsert`, `HandleDelete` and `HandleFailure`
are the branches of the loop's body; the loop is the only writer of its host objects, so the Get and
the Create or Update of one handler are one step. Content is the revision that wrote it, and `born`
the revision of the Create, which is where annotations and a Secret's type stay from. `HostName` is
`<cluster>-x-<name>-x-<namespace>` on names as sequences of the words between their hyphens, in which the separator is the word
`x`: two names are one name exactly if their words are the same, so every clash is there, that of `a-x` in `b` with `a` in
`x-b` too. `Separate` are the mirrored objects that meet no other on the host; the properties are about them, in the company of those that do.
`missed` is a history variable: the objects whose latest change the loop will not be told of again.

`Mirror` says what such a loop promises: each copy is a state its object really had, and only moves
forward. `ObjectSync` implements it (`ImplementsMirror`) under the mapping `position` = last applied
revision and `replica` = revision on the host.

### PodSync

One virtual pod name, its host pod and both loops. `syncPods` is as above but never updates
(`syncPodToHost` creates if the name is free). `syncHostPods` runs `reconcileVirtualPodFromHost` as separate steps
(`ReceiveHostPod`, `Bind`, `ReGet`, `UpdateStatus`), each an API call, with the pod it read held in
`vPod`; users, schedulers, kubelets and the other loop act between them. A status update of an
outdated copy is a conflict, which the code takes for success; the virtual pod is found by its name, whichever pod has it now. External: the k3s scheduler, which
binds virtual pods too, the host's scheduler, kubelet and evictions.

### ServiceSync

One Service name through both loops. `GetHostService`/`UpdateHostService` and `ReceiveHostService`/`UpdateStatus` are the
read and the write of the two handlers; a write from an outdated copy fails and is dropped. Each write that changes
something is an event of the other loop, which is how dropped writes are repaired. `unhealed` is a history variable: a
write collided with one the other loop does not pass on (an annotation, a finalizer). External: the host's load
balancer controller with its finalizer, so that a deleted host Service stays for a while.

### NodeSync, SyncerRun

`NodeSync` is `syncNodes`: it mirrors host nodes with the address of the syncer's pod (`rewriteNodeForShim`) and ignores their
removal. `SyncerRun` extends it with the process: `main` waits for k3s (`FileAppears`, `GiveUp`), `Run` starts the loops and
the shim (`StartLoops`, `StartShim`, `NewShimFails`), each goroutine ends on its own (`EndOther`, `EndNodeLoop`, `ShimEnds`,
`ShimFails`, `SendError`), and `RunReturns` needs all of them. The six loops that are not the nodes' are counted by what they do (`running`,
`waiting`, `ended`): they are alike in all that concerns the process. A SIGTERM comes with a new pod, and so with a new address.

### CidrAlloc

`vibecluster create --vnode` processes (`Cli*`) and the operator's worker (`Op*`) list, pick, record
and start a server, each call a step; the operator reads a cache that applies changes late
(`stream`). `seen` is a history variable: whose pairs a cluster's pair was picked to avoid.

### Reconciler

`Reconcile` for one resource: one worker whose steps are the ensure functions (`Ensures`) in the order `Place`, with
`StepAfter` the next one there is, each reading the cache (`seen`, `nsSeen`, `readySeen`, `crCache`) and writing the live object (`host`, `ns`, `cr`)
with the API server's answers: Create fails if the object exists or its namespace terminates, Update
fails from an outdated copy. A failed step goes to `UpdateStatus` with Failed and ends
without an error; errors and `RequeueAfter` set the timer (`delayed`); only `CrEvent` and the timer
queue the resource. An unchanged status is no write and no event. `DeleteRbac`, `DeleteNamespace` and
`RemoveFinalizer` are `reconcileDelete`; `skipped` is a history variable for what it left behind because
the cache did not show it or the call failed. Objects one ensure function makes in a row are one object (`roles`: Role
and RoleBinding; `services`, `limits`, `vnode` likewise). An update writes only what the ensure function compares or
copies: images and k3s arguments, the Service's type, the agents' replicas and image, all of the limits and the Ingress. The rest, such as storage and
environment, stays as it was made. So each object has two values, the spec it was last written from (`host`) and the one it was made from (`made`), and
two constants say which specs agree on what: `InPlace` in the fields that updates write, `Fixed` in the others. `Outdated` compares the former
with the cached copy; only the limits and the Ingress are written without comparing. The
cache moves to the newest state when it moves; a lagging one holds any older one.

### CliCommands, ClusterObjects, KubeconfigFile, OperatorInstall, Lifecycle

These five follow one name of a virtual cluster through the commands of `pkg/cli` and the operator, on one host.

`CliCommands` has the commands as processes: `pc` says what a command does next, and any call of one may fail, or the
command be killed (`Fault`). A command once failed leaves what it did, as the code does.

`ClusterObjects` has what is computed from a cluster's options. The source has it twice, and so has the module:
`BuildService`, `k3sArgs`, `syncerEnv`, `BuildStatefulSet` are those of `builders.go` for the operator; `serviceType`,
`buildK3sServerArgs`, `buildSyncerEnv`, `newStatefulSet`, `BuildIngress` those of `manifests.go` for the CLI. Kept is
what tells clusters apart: the mode, the exposure and the host names in the server's certificate.

`KubeconfigFile` is the user's file: `LoadAndMerge` and `LoadAndRemove` read it, `Truncate` and `WriteContexts` are the
two halves of the write in place. A file cut off in between is invalid, which `WriteToFile` takes for no file. All
commands use one file, as they do with `--update-kubeconfig` or the same `--kubeconfig`; the default of create and expose is a file of
the cluster's own, which two commands on the cluster share too.

`OperatorInstall` is `operator_deploy.go`, a step for each API call or for the calls on one kind of object: `installCRD`,
`ensureNamespaceExists`, `EnsurePart` for the others, and `DeleteDeployment`, `DeleteRights`,
`DeleteOperatorNamespace`, `UninstallCRD`. The host ends what terminates (`CrdRemoved`, `OperatorNamespaceRemoved`), and the operator's process
starts, stops and crashes with what is installed. `alone` is a history variable: an install met no uninstall and no terminating CRD.
`schema` says whose CRD is there. The one `operator install` makes (`operator_deploy.go:394-426`) does not list
`vnode` and `nodes`, which the one under `config/crd` has; the API server prunes what is not listed (`Pruned`).

`Lifecycle` composes them. Commands: `ResolveCreateMode` and `CreateVirtualClusterCR` or `CreateNamespace` to
`CreateVNodeStatefulSet` (create), `CheckOperator` to `DeleteNamespace` (delete), `ExposeService`, `ExposeIngress`,
`ExposeTlsSan` (expose), `AwaitReady`, `AwaitAddress`, `Load`, `Write` (create, expose, connect and delete, on the file). The
operator: `Take` is the head of `Reconcile` and picks any queued resource; `EnsureNamespace` to `CheckReadiness` are the
ensure functions, `ReleaseRBAC`, `ReleaseNamespace`, `RemoveFinalizer` are `reconcileDelete`. Resources of the name may
be in several namespaces and share the host's objects, as `buildOptions` has it. The Service, the
Ingress and the StatefulSet are read from a cache that lags (`seen`): commands change them too. What `Reconciler` has in more detail is left to it: the
lag of the resource and of the other objects, a namespace emptied object by object, the backoff, each Create and Update of one
ensure function. `deleted` is a history variable: which deletes were asked for with no create at the time or since, and
whether one of them is done. `lapses` is one too. It collects what happened that the code does not report, or that no code could make good:

| Lapse | What happened |
|---|---|
| `rights` | an error of deleting the ClusterRole was dropped (`manifests.go:172`, `controller.go:200`) |
| `lookup` | delete could not look for the CRD and took it for absent (`delete.go:32`) |
| `bare` | a resource was deleted before it had the finalizer, with objects on the host |
| `twins` | delete found several resources of the name and took the first |
| `mixed` | a cluster was created while another of the name was there or being created |
| `unread` | expose did not get the StatefulSet, there or not, and went on, or failed to update it (`expose.go:176`) |
| `stale` | the cache hid an Ingress or a StatefulSet's newer arguments from a reconcile |
| `flipped` | the mode was changed and the syncer kept its environment (`controller.go:602-618`) |
| `file` | a command loaded the kubeconfig while another wrote it, or was killed as it wrote it |

An Ingress that expose cannot read (`expose.go:152-172`) is no lapse: it stays as it is, and expose goes on to the certificate.

`LifecycleMC` gives the plans: which commands run side by side.

## 4. Runs

| Run | Module | Shows | Size |
|---|---|---|---|
| `ObjectSync` | ObjectSyncMC | safety and liveness of the loop beside two objects that clash, refinement of `Mirror` | 350 thousand states |
| `ObjectSyncClash` | ObjectSyncMC | `ResourcesAppear` (README.md:53) fails: two objects, one host name | violation |
| `PodSync` | PodSync | the pod loops | 321 thousand |
| `PodSyncOrphan` | PodSync | `RemovedPodsGo` (syncer.go:384-385) fails: a deletion between two watches | violation |
| `CidrAlloc` | CidrAlloc | allocation by CLI and operator | 1.06 million |
| `CidrAllocRace` | CidrAlloc | `UniqueCidrs` (README.md:196) fails | violation |
| `ServiceSync` | ServiceSync | the service loops | 437 thousand |
| `SyncerRun` | SyncerRun | the process and the node loop | 149 thousand |
| `Reconciler` | ReconcilerMC | the reconcile loop | 786 thousand |
| `ReconcilerReady` | ReconcilerMC | `SettledReadyIsTrue` (README.md:273) fails | violation |
| `ReconcilerStorage` | ReconcilerMC | `ObservedIsReconciled` (README.md:276) fails: what is written on creation only | violation |
| `Lifecycle` | LifecycleMC | commands and the operator on one cluster | 565 thousand |

`CHECK_DEADLOCK FALSE` everywhere: the bounds on users and faults stop every behaviour, and these
systems rest when nobody writes.

The properties, in the order of the runs:

- `Coherent`, `SameIncarnation`, `ImplementsMirror`, `WritesArrive`: what the host holds of an object with nothing queued, that
  it is of one incarnation and never goes back, and that writes arrive or are known to be lost.
- `RemovalHandled`, `HostPodsInOrder`, `StatusMovesForward`, `EventuallyMirrored`: removal without faults, no host pod made
  from a replaced virtual pod, status only forward, and eventual agreement for a pod that stays.
- `CollisionOnlyByRace`, `RecordedCidrsStay`, `ServersUseRecorded`, `PoolServesItsSize`.
- `LoopsHealEachOther`, `RemovalHandled`, `MovesForward`, `EventuallyMirrored`: with nothing under way and nothing lost, spec and
  address agree although conflicts were dropped; removal; nothing goes backwards; a Service that stays is mirrored in the end.
- `NobodyBlocksOnErrors`, `CancelledEnds`, `NodeStatusMovesForward`, `NodesFollowHost`: the error channel never
  blocks a goroutine, a cancelled process ends by itself, virtual nodes never show an older report, and in the end show the last one with the present pod's address.
- `RunningIsApplied`, `DeletionIsComplete`, `DeletionCompletes`, `NothingForgotten`: what is reported to run is
  applied in the fields reconciled in place, when none of them takes back an earlier value, a resource that is gone left only what its deletion did not see or got an error for, the finalizer
  does not stay forever, and unfinished work is always in the queue, on a timer, in a reconcile or about to be queued.

- `InstallLasts`, `DeletedIsGone`, `AdvertisedHostVerifies`, `ModesAgree`, `ContextsKept`, `TerminationCompletes`: an install that
  met no uninstall leaves an operator that stays, whatever remains of an earlier uninstall; a delete that reports success leaves
  nothing, or a resource that waits for an operator; when all is quiet, the host an Ingress advertises is in the server's
  certificate, and the server, the syncer, the agents and the resource agree on the mode; the user's other contexts
  survive; and a resource or CRD that is being deleted is gone in the end while an operator runs with its rights. Each names the
  lapses under which it does not hold. None is idle: without any one of them TLC finds a plan that violates the property, though for
  `bare`, `twins`, the resource that waits, and `mixed` in `AdvertisedHostVerifies` only in plans of three commands too large for
  this run (`{createDirectly, create, delete}`, `{create, createNested, delete}`, `{createNested, delete, uninstall}`), and for `mixed`
in `DeletedIsGone` in one of four, `{create, createDirectly, delete}` and a second delete: a direct create may make its ClusterRole after
`reconcileDelete` has passed it. That excuse was missing until the proof asked for it.

**Bounds.** `ObjectSync`: four changes and two faults are create, delete, create again and a change of a
second object, with a watch lost before and after; one object has a host name of its own, two share one, one is filtered. `PodSync`: two pods under one name, one edit, one status change per
host pod, one eviction and one fault, which gives every order of a replaced pod and a late event; two nodes would
add only which node is chosen. `ServiceSync`: two Services under one name, three revisions, one other edit, one address per host
Service and one fault. `SyncerRun`: the real six other loops and six places in errCh, one node with two reports (join and
report, or join, leave and join again), one edit or removal, two pods, one fault. `CidrAlloc`: two clusters, one that both the
CLI and the operator create; a pool of two, so that it is exhausted by two and freed by deletion; three
namespaces, so that one name is used again; a cache up to two changes behind. `Reconciler`: two specs (a change, or a
deletion and a new resource) and one fault; one kind of object of each sort (optional and always
updated, cluster-wide and only created, updated if different, refused without a host), since each kind is handled
by the rules of its sort; and a cache one object, the namespace and the resource behind. Its two specs differ
in every field, those of `ReconcilerStorage` only in what no update writes. `Lifecycle`: plans of two or three commands, chosen so that every two commands that touch the same
objects meet, with an operator that is there from the start, or not, under either CRD; two namespaces for resources, so that two of one name
meet; two host names, so that one replaces another; one fault, which is a failed call, a killed command or a crash. Every command runs once.

**Fairness.** `ObjectSync`: weak fairness of the loop, a goroutine that blocks on nothing but its channel. `PodSync`: the
steps of a handler under way are weakly fair; receiving is strongly fair, since a watch may close and
reopen in between; API servers close watches after some time, which is what relisting rests on, so closing is fair
too; a kubelet ends a termination. `ServiceSync`, `SyncerRun`: as `PodSync`, and the load balancer controller
cleans up, k3s comes up, and the kubelet restarts the container. `Reconciler`: the worker, the timer and each informer; the host
empties a deleted namespace. The manager's resync (ten hours by default) is left out: a property that needed
it would be worth little. `Lifecycle`: the worker goes on with what
it does, its queue serves every resource in the end (strongly: it may be busy, or down, in between), and a CRD without resources
is removed. Commands are not fair, nor is the informer, nor the emptying of a namespace. Users, schedulers, faults and readiness are never fair.

**Divergences met without a run of their own.** These are in the models as the code has them. Where a property would
fail on one, the property excuses it by name.

- `README.md:257` documents `spec.vnode`, which the CRD of `operator install` drops, so a resource created
  with it becomes a flat cluster, silently. `ModesAgree` states agreement with the resource for the CRD of `config/crd` only.
- Install takes a terminating CRD for an installed one (`operator_deploy.go:336`) and reports success; then it vanishes.
- Delete takes an error of the lookup for "no operator" (`delete.go:32`), though "the operator reconciles cleanup" (30-31): the resource stays and the operator makes the cluster again. Lapse `lookup`.
- Expose passes over an Ingress or a StatefulSet it cannot read (`expose.go:152-177`), one that create has not made yet included, and reports success for a
  host that is not in the certificate (`README.md:152`). Lapse `unread`. What it did change is changed back by the next reconcile.
- A reconcile whose cache does not show an Ingress leaves it, and takes its host out of the certificate all the same (`controller.go:457`; `manifests.go:868` has it verified). Lapse `stale`.
- `WriteToFile` takes the empty or cut-off file of another write for none (`kubeconfig.go:109`), and then merges with nothing. Lapse `file`.
- A deletion soon after the first reconcile may not find the namespace or the ClusterRole in the cache, or get an error for the latter, and removes
  the finalizer (`controller.go:195-216`). `DeletionIsComplete` has them as `skipped`.
- A Service type changed and changed back before the cache shows the first update stays as the first one made it, reported as Running (`controller.go:413-426`).
  `RunningIsApplied` is about specs in which no value comes back (`NoReverts`).
- A pod created again while the host pod of its predecessor terminates is skipped (`syncer.go:329`) until it changes or the watch is reopened, and a late event of that
  host pod puts its status on the new virtual pod, which is found by its name (`syncer.go:382`). `HostPodsInOrder` and `StatusMovesForward` allow both.
- A status update that meets a conflict is left to "the next watch event" (`syncer.go:423`), and there is none after a host pod's last until the watch is reopened.
  `EventuallyMirrored` relies on the reopening.
- `ensureStatefulSet` compares arguments, not the environment (`controller.go:602-618`): a resource turned to vnode keeps a syncer in flat mode.
- A ClusterRole left by a dropped error makes a later direct create fail half-way (`manifests.go:240`), with no rollback.
- Deleting one of two resources of one name removes the other's cluster (`controller.go:145`).

## 5. Proofs

`ObjectSync_proofs` proves, for every set of keys, every bound and any number of faults, `TypeCorrect`, `CoherentAlways`,
`SameIncarnationHolds` and `LoopImplementsMirror`. The last three are about `Separate`, the objects that share their host name with no other: nothing is
assumed of the others, which may clash as they like. `NamesWithoutSeparator` proves that all mirrored objects are separate when no name, or when no namespace,
has a word `x` between hyphens; two objects meet only if one's name and the other's namespace have it, which the code does not rule out, and
`ObjectSyncClash` shows what happens then.

The assumptions on constants are those of `ObjectSync`: finitely many keys, system keys among them, and a
`NoObject` that is no object. `Coherent` is not inductive: that a handled event brings the present state rests on the
order of the queue, and that a reopened watch repairs rests on what was applied before. `IInv` adds:

- `HistoryInv`, `EventInv`, `OrderInv`, `LastInv`: latest changes, and that queued events report
  committed changes, in commit order per object, the last one the latest, none older than what was applied;
- `ClosedInv`, `AppliedInv`, `Caught`: an object with nothing queued and nothing missed is applied up to its latest change;
- `HostInv`: the host has for each object what its last applied change left, if no other object has that name.

`LoopInv` (all but `HostInv`) is preserved by every step (`NextLoopInv`, one lemma per sort of step),
`HostInv` likewise (`NextHostInv`), and the properties follow. For the refinement, commits map to
`Commit`, upserts, deletes and skips to `Advance` or stuttering, and what concerns the watch stutters.
`SameIncarnationHolds` adds `IncarnationInv`: while nothing failed, a deletion later than what was
applied of its object is still queued (`DeletionsQueued`), so no update meets a copy from before it.

`CidrAlloc_proofs` proves `TypeOK`, `CollisionOnlyByRace`, `ServersUseRecorded`, `RecordedCidrsStay` and `PoolServesItsSize`, for finitely many
clusters, any size of the pool and any lag of the cache, from the assumptions of `CidrAlloc` only. None but the first is inductive. The next three
rest on `Kept`, that a namespace that is there after a step is a new one or has the pair it had, which in turn needs that
the operator annotates only what it found without a pair (`OpInv`). With it, whatever was read of a namespace stays true of it
while it lives: `CacheInv`, `StreamInv`, `CliInv`, `OpInv` and `ServerInv` say so of every copy, and with `NsInv` that none is
of a namespace still to be born; `SeenInv` says that a pair meets none of those it was picked to avoid. Steps that leave the namespaces
alone change one of these (`CliStep`, `OpStep`, `CacheStep`, with `Unmoved`); the others have a lemma each.
`PoolServesItsSize` is about picking from any list (`NonePicked`): if there is a free slot there is a least one (`LeastNatural`), so a pick that finds
none has the whole pool used (`AllUsed`), by no fewer holders than it has slots (`ExhaustedByHolders`).

`PodSync_proofs` proves `TypeOK`, `HostPodsInOrder`, `RemovalHandled` and `StatusMovesForward`, assuming that `NoPod` is no
pod and `NoNode` no node. The two loops hand on what they are told, and the invariant says that each place on the way holds nothing newer than the
place before it: `UidInv` and `OrderInv` for events of virtual pods on their way to the host, `ReportInv` for a status on its way
from the host pod over the queue and the handler's argument to the virtual pod. Reports are compared by host pod first, since one may arrive after
its pod was replaced. `HandlerInv` says what the handler has read, `LosslessInv` that while nothing is lost a deletion is in sight until it is handled.

`ServiceSync_proofs` proves `TypeOK`, `LoopsHealEachOther`, `RemovalHandled` and `MovesForward`, assuming that `NoSvc` is no Service. `RevInv` and
`AddressInv` order the two ways as in `PodSync`; `LatestInv` says that the last event a queue holds shows its Service as it is, `CopyInv`
how what a handler read compares with what is there now, `LosslessInv` is as in `PodSync`. `HealInv` makes the healing inductive: where ports or address disagree,
the loop that carries them has an event or a write that will succeed, or a write is about to collide with one the other loop does not pass on, which
`unhealed` will record. With both loops at rest nothing of this is left but agreement.

`SyncerRun_proofs` proves `TypeOK`, `NobodyBlocksOnErrors` and `NodeStatusMovesForward`, for any number of loops. It assumes that errCh has room (`ErrCapacity > 0`;
the code has six places, of which the proof shows one to be enough). `CountInv` accounts for every goroutine: those that run, that wait, that ended, and the shim's
only error. `PresentInv`, `HandlerInv` and `BeatInv` order the reports of a node from the host to the virtual one over every restart.

`Reconciler_proofs` proves `TypeOK`, `NothingForgotten`, `RunningIsApplied` and `DeletionIsComplete`, for any kinds of objects, number of specs,
lag and faults, assuming that `None` is no resource. The operator works from copies, so the invariant orders them: `CopyInv` (the informer's
copy and the worker's are of the resource as it once was, and if the worker's is what the server has, so is the informer's),
`NewestInv` (no object is from a newer spec than the copy it was made from), `ObservedInv` and `AppliedInv` (what the status says, and what the
steps before the worker's have done: where a stale copy needed no update, the object itself says what the spec says, or is newer, unless a value came
back, which is why `AppliedInv` and `RunningIsApplied` assume `NoReverts`). `StepInv` and `FinalizerInv` say that while a reconcile makes objects the finalizer is on, and `CleanInv` what a
deletion has done so far and that without a finalizer nothing is left but what was skipped.

`Lifecycle_proofs` has two theorems about `Lifecycle`, for all plans and any number of commands, resources and faults.

`OtherContextsKept` (`ContextsKept`) needs no assumption. What a command writes it loaded steps before, so the invariant `FileInv`
says that one command at a time is between load and write (`Alone`), that its copy is whole (`CopiesWhole`) and that the file is,
or is just being written (`FileWhole`), unless `file` is among the lapses. Most steps have nothing to do with
the file (`Outside`, one lemma per group of actions); `Load`, `Write` and `FailCommand` have a lemma each.

`InstallStays` (`InstallLasts`) assumes one install per plan (`OneInstall`): of two, one may report success on parts the other found going
away. `InstallLasts` alone is not inductive, for the installer trusts what it finds. `InstallInv` adds that a terminating namespace
holds no Deployment an install could mistake for a lasting one (`DeploymentInv`: an uninstall deletes it first, and only an
install makes one), that nothing takes the CRD away while no uninstall runs (`AloneInv`), and what each step of the
install may rely on (`EnsuredInv`).

`LifecycleObjects_proofs` has the other four: `TypeOK`, `AdvertisedHostVerifies`, `ModesAgree` and `DeletedIsGone`, for all plans, hosts and
namespaces and any number of commands and faults, from the assumptions of the modules only: `None` and `NoHost` are none of the values they stand beside, and
there are finitely many namespaces for resources. The last three speak of moments when nothing is under way, the invariant of what holds until then:

- `BaseInv`: types, what a command's step relies on (`CommandInv`), and that the worker's copy has the present spec or the resource
  is queued (`ResourceInv`).
- `CertInv`, `AgentsInv`, `ModeInv`: two objects agree, or who is to bring them together is there: the command that changed one
  of them, or a reconcile that is to come or has not passed its step (`Pends`). They need `ServerInv`, that what a reconcile has
  passed is as its copy asks, `EnvInv`, that the syncer's mode is the server's, and `MakerInv`, that who makes a cluster
  without a resource is alone with it.
- `DeletingInv`, `ReleaseInv`, `DeleteInv`: a resource that is being deleted is queued or in the worker's hands while there is an operator,
  what `reconcileDelete` has passed is going away, and what a delete has passed stays so, for nobody makes a cluster from then on.

Steps are first summed up by what they do to resources and queue (`Touched` for commands and the host, `Advances`, `Reports`, `Drops` for
the worker). Two things came out of these proofs: the excuse `mixed` of `DeletedIsGone` (section 4), and that `deleted` tells a
delete that was asked for before a create from one asked for since; with several deletes, any of them could end while a create ran.

Only model-checked is liveness, which rests on fairness and is out of the proof system's reach: `WritesArrive`, `EventuallyMirrored`
(of pods and of Services), `CancelledEnds`, `NodesFollowHost`, `DeletionCompletes` and `TerminationCompletes`.

## 6. Not modelled

Pod translation (volumes, environment, service accounts); what is constant in the builders' manifests and the YAML; the requests, token cache and certificates
of the kubelet shim; a change of a Service's type (the code copies it on creation only); vnode mode's bootstrap; the image pull
secret, list, logs, the temporary port-forward of expose and its probe of a load balancer, which change no
shared state (the secret's copy aside); leader election; pod deletion with a grace period
in the virtual cluster (the model starts when the pod leaves the API server). Out of `Lifecycle`, by its bounds: commands that are run
again, more than two resources of one name, and clusters of several names, which share the kubeconfig only (the model's `other` context stands for them).
