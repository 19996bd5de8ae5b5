------------------------------ MODULE CidrAlloc ------------------------------
(***************************************************************************)
(* The pod and service CIDRs of vnode clusters.  They are recorded in      *)
(* annotations of the cluster's host namespace, and a new pair is picked   *)
(* by listing those: pkg/k8s/cidr.go.  Two programs do so side by side:    *)
(*                                                                         *)
(*  - "vibecluster create" (CreateVirtualCluster, pkg/k8s/manifests.go),   *)
(*    any number of processes, each reading the API server;                *)
(*  - the operator (ensureNamespace, allocateVNodeCIDRs and then           *)
(*    ensureStatefulSet, pkg/operator/controller.go), one worker that      *)
(*    reads its informer cache.                                            *)
(*                                                                         *)
(* External: the host's API server, which refuses a second namespace of a  *)
(* name, an update made from an outdated copy and a creation inside a      *)
(* terminating namespace; the cache, which applies the changes of the      *)
(* namespaces in order but late.  A CIDR is its slot in the pool: pod slot *)
(* i is 10.(243+i).0.0/16 and service slot i is 10.(95+i).0.0/16.          *)
(***************************************************************************)
EXTENDS Naturals, Sequences, FiniteSets

CONSTANTS
  Clusters,   \* names of virtual clusters
  ByCli,      \* those somebody creates with the CLI
  ByOperator, \* those there is a VirtualCluster resource of
  PoolSize,   \* slots per family
  None,       \* no namespace, no pair
  MaxBirths,  \* bound: namespaces created
  MaxLag      \* bound: changes the cache is behind

ASSUME ClustersAssumption == ByCli \cup ByOperator \subseteq Clusters /\ IsFiniteSet(Clusters)
ASSUME PoolAssumption == PoolSize \in Nat
ASSUME BoundsAssumption == MaxBirths \in Nat /\ MaxLag \in Nat

\* Mutant: the last slot of the pool is never tried.
SlotsBelowEnd == 1..(PoolSize - 1)

Slots == 1..PoolSize
Pairs == [pod : Slots, svc : Slots]
Namespaces == [born : Nat, cidrs : Pairs \cup {None}, terminating : BOOLEAN]

ASSUME NoneAssumption == None \notin Pairs /\ None \notin Namespaces

VARIABLES
  ns,      \* cluster -> its namespace on the host
  servers, \* cluster -> the pair its StatefulSet runs with, and for which namespace
  cache,   \* the operator's copy of ns
  stream,  \* changes of ns the cache has not applied yet
  seen,    \* cluster -> the clusters whose pairs its own pair was picked to avoid
  cli,     \* cluster -> the "create" process for it
  op,      \* the operator's worker
  births   \* namespaces created so far

vars == <<ns, servers, cache, stream, seen, cli, op, births>>

Server == [cidrs : Pairs, born : Nat]

CliState == [pc : {"idle", "picked", "created"}, cidrs : Pairs \cup {None},
             seen : SUBSET Clusters, born : Nat]
OpState == [pc : {"idle", "allocate", "picked", "recorded"}, cluster : Clusters \cup {None},
            copy : Namespaces \cup {None}, cidrs : Pairs \cup {None},
            seen : SUBSET Clusters]

CliIdle == [pc |-> "idle", cidrs |-> None, seen |-> {}, born |-> 0]
OpIdle == [pc |-> "idle", cluster |-> None, copy |-> None, cidrs |-> None, seen |-> {}]

\* Every variable has its type; no namespace or server carries a half-picked pair.
TypeOK ==
  /\ ns \in [Clusters -> Namespaces \cup {None}]
  /\ servers \in [Clusters -> Server \cup {None}]
  /\ cache \in [Clusters -> Namespaces \cup {None}]
  /\ stream \in Seq([cluster : Clusters, ns : Namespaces \cup {None}])
  /\ seen \in [Clusters -> SUBSET Clusters]
  /\ cli \in [Clusters -> CliState]
  /\ op \in OpState
  /\ births \in Nat

Init ==
  /\ ns = [c \in Clusters |-> None]
  /\ servers = [c \in Clusters |-> None]
  /\ cache = [c \in Clusters |-> None]
  /\ stream = << >>
  /\ seen = [c \in Clusters |-> {}]
  /\ cli = [c \in Clusters |-> CliIdle]
  /\ op = OpIdle
  /\ births = 0

-----------------------------------------------------------------------------
(* Picking a pair: cidr.go.                                                *)

\* The clusters a list of namespaces shows to have a pair.
Holders(view) == {c \in Clusters : view[c] # None /\ view[c].cidrs # None}

IsFirstFree(s, used) == s \notin used /\ \A t \in 1..(s - 1) : t \in used

\* Mutant: as many slots as are used are skipped.
FirstFreeByCount(used) ==
  IF Cardinality(used) < PoolSize THEN Cardinality(used) + 1 ELSE 0

FirstFree(used) ==
  IF \E s \in Slots : IsFirstFree(s, used)
  THEN CHOOSE s \in Slots : IsFirstFree(s, used)
  ELSE 0

\* Mutant: an exhausted pool is no error.
PickAnyVNodeCIDRs(view) ==
  [pod |-> FirstFree({view[c].cidrs.pod : c \in Holders(view)}),
   svc |-> FirstFree({view[c].cidrs.svc : c \in Holders(view)})]

PickFreeVNodeCIDRs(view) ==
  LET pod == FirstFree({view[c].cidrs.pod : c \in Holders(view)})
      svc == FirstFree({view[c].cidrs.svc : c \in Holders(view)})
  IN IF pod = 0 \/ svc = 0 THEN None ELSE [pod |-> pod, svc |-> svc]

-----------------------------------------------------------------------------
(* The host's API server and the operator's cache.                         *)

Write(c, value) ==
  /\ Len(stream) < MaxLag
  /\ ns' = [ns EXCEPT ![c] = value]
  /\ stream' = Append(stream, [cluster |-> c, ns |-> value])

\* A namespace that carries a pair picked to avoid those of "avoided".
CreateNamespace(c, cidrs, avoided) ==
  /\ births < MaxBirths
  /\ births' = births + 1
  /\ Write(c, [born |-> births + 1, cidrs |-> cidrs, terminating |-> FALSE])
  /\ seen' = [seen EXCEPT ![c] = avoided]

CacheUpdate ==
  /\ stream # << >>
  /\ cache' = [cache EXCEPT ![Head(stream).cluster] = Head(stream).ns]
  /\ stream' = Tail(stream)
  /\ UNCHANGED <<ns, servers, seen, cli, op, births>>

\* "vibecluster delete" or reconcileDelete: the namespace goes in its own time.
DeleteNamespace(c) ==
  /\ ns[c] # None
  /\ ~ns[c].terminating
  /\ Write(c, [ns[c] EXCEPT !.terminating = TRUE])
  /\ UNCHANGED <<servers, cache, seen, cli, op, births>>

\* Whoever avoided the pair of the namespace that goes has nothing to avoid.
NamespaceGone(c) ==
  /\ ns[c] # None
  /\ ns[c].terminating
  /\ Write(c, None)
  /\ servers' = [servers EXCEPT ![c] = None]
  /\ seen' = [d \in Clusters |-> IF d = c THEN {} ELSE seen[d] \ {c}]
  /\ cli' = [d \in Clusters |-> [cli[d] EXCEPT !.seen = @ \ {c}]]
  /\ op' = [op EXCEPT !.seen = @ \ {c}]
  /\ UNCHANGED <<cache, births>>

-----------------------------------------------------------------------------
(* vibecluster create --vnode: CreateVirtualCluster.                       *)

CliPick(c) ==
  /\ cli[c].pc = "idle"
  /\ PickFreeVNodeCIDRs(ns) # None
  /\ cli' = [cli EXCEPT ![c] = [pc |-> "picked", cidrs |-> PickFreeVNodeCIDRs(ns),
                                seen |-> Holders(ns), born |-> 0]]
  /\ UNCHANGED <<ns, servers, cache, stream, seen, op, births>>

CliCreateNamespace(c) ==
  /\ cli[c].pc = "picked"
  /\ ns[c] = None
  /\ CreateNamespace(c, cli[c].cidrs, cli[c].seen)
  /\ cli' = [cli EXCEPT ![c].pc = "created", ![c].born = births']
  /\ UNCHANGED <<servers, cache, op>>

CanCreateIn(c) == ns[c] # None /\ ~ns[c].terminating /\ servers[c] = None

CliCreateServer(c) ==
  /\ cli[c].pc = "created"
  /\ CanCreateIn(c)
  /\ servers' = [servers EXCEPT ![c] = [cidrs |-> cli[c].cidrs, born |-> cli[c].born]]
  /\ cli' = [cli EXCEPT ![c] = CliIdle]
  /\ UNCHANGED <<ns, cache, stream, seen, op, births>>

\* A call is refused or fails, or the process is killed: nothing is undone.
CliFail(c) ==
  /\ cli[c].pc # "idle"
  /\ cli' = [cli EXCEPT ![c] = CliIdle]
  /\ UNCHANGED <<ns, servers, cache, stream, seen, op, births>>

\* A flat-mode cluster takes a namespace and no CIDRs.
CliCreateFlat(c) ==
  /\ ns[c] = None
  /\ CreateNamespace(c, None, {})
  /\ UNCHANGED <<servers, cache, cli, op>>

-----------------------------------------------------------------------------
(* The operator, for a resource with spec.vnode.                           *)

\* ensureNamespace: Get, from the cache.
OpGet(c) ==
  /\ op.pc = "idle"
  /\ op' = IF cache[c] # None /\ cache[c].cidrs # None
           THEN [pc |-> "recorded", cluster |-> c, copy |-> cache[c],
                 cidrs |-> cache[c].cidrs, seen |-> {}]
           ELSE [pc |-> "allocate", cluster |-> c, copy |-> cache[c],
                 cidrs |-> None, seen |-> {}]
  /\ UNCHANGED <<ns, servers, cache, stream, seen, cli, births>>

\* The cache shows the namespace that exists, not one that had its name.
Current(c) == ns[c] # None /\ cache[c].born = ns[c].born

\* allocateVNodeCIDRs: List, from the cache.
OpPick ==
  /\ op.pc = "allocate"
  /\ PickFreeVNodeCIDRs(cache) # None
  /\ op' = [op EXCEPT !.pc = "picked", !.cidrs = PickFreeVNodeCIDRs(cache),
                      !.seen = {c \in Holders(cache) : Current(c)}]
  /\ UNCHANGED <<ns, servers, cache, stream, seen, cli, births>>

OpCreateNamespace ==
  /\ op.pc = "picked"
  /\ op.copy = None
  /\ ns[op.cluster] = None
  /\ CreateNamespace(op.cluster, op.cidrs, op.seen)
  /\ op' = [op EXCEPT !.pc = "recorded", !.copy = [born |-> births', cidrs |-> op.cidrs,
                                                    terminating |-> FALSE]]
  /\ UNCHANGED <<servers, cache, cli>>

\* Mutant: the annotations are patched onto whatever the namespace is now.
OpPatchAnnotations ==
  /\ op.pc = "picked"
  /\ op.copy # None
  /\ ns[op.cluster] # None
  /\ Write(op.cluster, [ns[op.cluster] EXCEPT !.cidrs = op.cidrs])
  /\ seen' = [seen EXCEPT ![op.cluster] = op.seen]
  /\ op' = [op EXCEPT !.pc = "recorded"]
  /\ UNCHANGED <<servers, cache, cli, births>>

\* The update of a namespace found without a pair.
OpAnnotate ==
  /\ op.pc = "picked"
  /\ op.copy # None
  /\ ns[op.cluster] = op.copy
  /\ Write(op.cluster, [op.copy EXCEPT !.cidrs = op.cidrs])
  /\ seen' = [seen EXCEPT ![op.cluster] = op.seen]
  /\ op' = [op EXCEPT !.pc = "recorded"]
  /\ UNCHANGED <<servers, cache, cli, births>>

\* ensureStatefulSet: Create, or Update the arguments.
OpEnsureServer ==
  /\ op.pc = "recorded"
  /\ servers[op.cluster] # None \/ CanCreateIn(op.cluster)
  /\ servers' = [servers EXCEPT ![op.cluster] = [cidrs |-> op.cidrs, born |-> op.copy.born]]
  /\ op' = OpIdle
  /\ UNCHANGED <<ns, cache, stream, seen, cli, births>>

\* Mutant: a failed annotation is logged and the reconcile goes on.
OpFailAndContinue ==
  /\ op.pc # "idle"
  /\ op' = IF op.pc = "picked" /\ op.copy # None THEN [op EXCEPT !.pc = "recorded"] ELSE OpIdle
  /\ UNCHANGED <<ns, servers, cache, stream, seen, cli, births>>

\* A call is refused or fails, or the operator restarts; Reconcile ends.
OpFail ==
  /\ op.pc # "idle"
  /\ op' = OpIdle
  /\ UNCHANGED <<ns, servers, cache, stream, seen, cli, births>>

-----------------------------------------------------------------------------

Cli ==
  \E c \in ByCli :
    \/ CliPick(c)
    \/ CliCreateNamespace(c)
    \/ CliCreateServer(c)
    \/ CliFail(c)
    \/ CliCreateFlat(c)

Operator ==
  \/ \E c \in ByOperator : OpGet(c)
  \/ OpPick
  \/ OpCreateNamespace
  \/ OpAnnotate
  \/ OpEnsureServer
  \/ OpFail

Host == CacheUpdate \/ \E c \in Clusters : DeleteNamespace(c) \/ NamespaceGone(c)

Next == Cli \/ Operator \/ Host

Spec == Init /\ [][Next]_vars

-----------------------------------------------------------------------------
(* Properties.                                                             *)

Share(p, q) == p.pod = q.pod \/ p.svc = q.svc

\* Two clusters share a CIDR only if their allocations raced: neither pair was
\* picked with the other one in view.
CollisionOnlyByRace ==
  \A c, d \in Holders(ns) :
    c # d /\ Share(ns[c].cidrs, ns[d].cidrs) => c \notin seen[d] /\ d \notin seen[c]

\* A recorded pair stays for the life of the namespace: a reconcile that reads
\* the cache before its own annotation reached it does not pick again.
RecordedCidrsStay ==
  [][\A c \in Clusters :
       ns[c] # None /\ ns'[c] # None /\ ns[c].born = ns'[c].born /\ ns[c].cidrs # None =>
         ns'[c].cidrs = ns[c].cidrs]_vars

\* The API server and agents of a cluster run with the pair recorded for the
\* very namespace they were started for, whoever started them.
ServersUseRecorded ==
  \A c \in Clusters :
    servers[c] # None /\ ns[c] # None /\ servers[c].born = ns[c].born =>
      servers[c].cidrs = ns[c].cidrs

\* "Ten slots per family supports up to ten concurrent vnode clusters on one
\* host" (cidr.go:23): no pair is found only when as many clusters hold one.
PoolServesItsSize ==
  /\ PickFreeVNodeCIDRs(ns) = None => Cardinality(Holders(ns)) >= PoolSize
  /\ PickFreeVNodeCIDRs(cache) = None => Cardinality(Holders(cache)) >= PoolSize

\* "Each vnode cluster is allocated a unique pod and service CIDR" (README.md:196).
UniqueCidrs ==
  \A c, d \in Holders(ns) : c # d => ~Share(ns[c].cidrs, ns[d].cidrs)
=============================================================================
