--------------------------- MODULE ClusterObjects ---------------------------
(***************************************************************************)
(* What is made of the options of a virtual cluster.  The source says it   *)
(* twice: the builders of pkg/k8s/builders.go, which the operator uses,    *)
(* and the create functions of pkg/k8s/manifests.go, which the CLI uses    *)
(* when it makes a cluster directly.                                       *)
(*                                                                         *)
(* Of the StatefulSet there is what differs from one cluster to another    *)
(* and what others rely on: the mode k3s is started in, the hosts in its   *)
(* certificate (TLS-SAN) in the order of the arguments, and the mode the   *)
(* syncer is told.  Images, probes, sizes and labels are left out, and so  *)
(* are quotas; the pairs of CIDRs are in CidrAlloc.                        *)
(***************************************************************************)
EXTENDS Sequences

CONSTANTS
  Hosts,  \* external host names
  NoHost  \* none given

ASSUME HostsAssumption == NoHost \notin Hosts

Exposures == {"none", "LoadBalancer", "Ingress"}
ServiceTypes == {"ClusterIP", "LoadBalancer"}

\* BuilderOptions and CreateOptions; the spec of a VirtualCluster as well.
Options == [vnode : BOOLEAN, expose : Exposures, host : Hosts \cup {NoHost}]

\* The host is the last TLS-SAN argument, whatever the exposure is.
Sans(host) == IF host = NoHost THEN <<>> ELSE <<host>>

(* builders.go. *)

BuildService(opts) == IF opts.expose = "LoadBalancer" THEN "LoadBalancer" ELSE "ClusterIP"
\* Mutant: the host is only given to the Ingress.
k3sArgsWithoutHost(opts) == [vnode |-> opts.vnode, sans |-> <<>>]
k3sArgs(opts) == [vnode |-> opts.vnode, sans |-> Sans(opts.host)]
syncerEnv(opts) == [vnode |-> opts.vnode]
BuildStatefulSet(opts) == [args |-> k3sArgs(opts), env |-> syncerEnv(opts)]

(* manifests.go.  An Ingress is its host, NoHost included. *)

BuildIngress(host) == host
serviceType(opts) == IF opts.expose = "LoadBalancer" THEN "LoadBalancer" ELSE "ClusterIP"
buildK3sServerArgs(host, vnode) == [vnode |-> vnode, sans |-> Sans(host)]
buildSyncerEnv(vnode) == [vnode |-> vnode]
newStatefulSet(opts) ==
  [args |-> buildK3sServerArgs(opts.host, opts.vnode), env |-> buildSyncerEnv(opts.vnode)]

\* Every StatefulSet there can be: expose adds a host it does not find.
StatefulSets == [args : [vnode : BOOLEAN, sans : Seq(Hosts)], env : [vnode : BOOLEAN]]
=============================================================================
