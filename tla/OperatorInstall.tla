--------------------------- MODULE OperatorInstall ---------------------------
(***************************************************************************)
(* Installing and removing the operator (pkg/k8s/operator_deploy.go), the  *)
(* CustomResourceDefinition and the VirtualClusters under it, and whether  *)
(* an operator process runs that may do its work.                          *)
(*                                                                         *)
(* The commands are processes; every step of theirs is one API call or     *)
(* some calls in a row on one kind of object.  A CRD that is deleted       *)
(* deletes its resources and stays, terminating, until the last one is     *)
(* gone, which a finalizer may delay; a namespace that is deleted stays    *)
(* until it is empty.  All resources here have one name, each in a         *)
(* namespace of its own.                                                   *)
(***************************************************************************)
EXTENDS FiniteSets, CliCommands, ClusterObjects

CONSTANTS
  CrNamespaces, \* namespaces VirtualClusters of the name are in, numbered in the order of a list
  None          \* no object

Modes == {"auto", "legacy", "operator"}

ASSUME CommandsAssumption ==
  UNION Plans \subseteq [op : Ops, mode : Modes, at : CrNamespaces, opts : Options]
ASSUME NamespacesAssumption == CrNamespaces \subseteq Nat \ {0} /\ IsFiniteSet(CrNamespaces)

VARIABLES
  crd,       \* the CustomResourceDefinition
  schema,    \* whose: one made by "install" knows no spec.vnode, and drops it
  crs,       \* namespace -> the VirtualCluster
  queued,    \* namespaces whose resource the operator has an event of
  opNs,      \* the operator's namespace
  parts,     \* its ServiceAccount, ClusterRole with binding, and Deployment
  pod,       \* its process runs
  alone      \* history: an install has met no uninstall and no terminating CRD

installVars == <<crd, schema, opNs, parts, alone>>
resourceVars == <<crs, queued>>

Parts == {"account", "rbac", "deployment"}
ObjectStates == {"absent", "present", "terminating"}

\* A status: the phase, with the step that failed when it is Failed.
Ensures == {"namespace", "roles", "services", "server", "ingress", "agents"}
Phases == {"", "Pending", "Running"} \cup Ensures

\* observed: the status is about this spec.  asked is a history field: spec.vnode as it was
\* submitted.
VirtualClusters == [spec : Options, asked : BOOLEAN, finalizer : BOOLEAN, deleting : BOOLEAN,
                    phase : Phases, observed : BOOLEAN]

ASSUME NoneAssumption == None \notin StatefulSets \cup Hosts \cup {NoHost} \cup VirtualClusters

Existing == {n \in CrNamespaces : crs[n] # None}
Deleting(n) == crs[n] # None /\ crs[n].deleting

\* The operator runs and the API server lets it work.
Alive == pod /\ {"account", "rbac"} \subseteq parts

-----------------------------------------------------------------------------
(* InstallOperator.                                                        *)

\* A CRD that is there is left as it is, a terminating one too.
InstallCRD(c) ==
  /\ At(c, "install", "planned")
  /\ \/ crd = "absent" /\ crd' = "present" /\ schema' = "cli"
     \/ crd # "absent" /\ UNCHANGED <<crd, schema>>
  /\ alone' = (crd # "terminating" /\ ~Running("uninstall"))
  /\ GoTo(c, "namespace")
  /\ UNCHANGED <<resourceVars, opNs, parts, pod, faults>>

EnsureNamespaceExists(c) ==
  /\ At(c, "install", "namespace")
  /\ opNs' = IF opNs = "absent" THEN "present" ELSE opNs
  /\ GoTo(c, "account")
  /\ UNCHANGED <<crd, schema, resourceVars, parts, pod, alone, faults>>

\* Get, and Create if it is not found, which a namespace that terminates refuses.
EnsurePart(c, part, next) ==
  /\ At(c, "install", part)
  /\ \/ /\ part \in parts \/ opNs = "present"
        /\ parts' = parts \cup {part}
        /\ GoTo(c, next)
     \/ /\ part \notin parts /\ opNs # "present"
        /\ GoTo(c, "failed")
        /\ UNCHANGED parts
  /\ UNCHANGED <<crd, schema, resourceVars, opNs, pod, alone, faults>>

EnsureOperatorServiceAccount(c) == EnsurePart(c, "account", "rbac")
EnsureOperatorDeployment(c) == EnsurePart(c, "deployment", "done")

\* Cluster-wide, so no namespace is in the way.
EnsureOperatorRBAC(c) ==
  /\ At(c, "install", "rbac")
  /\ parts' = parts \cup {"rbac"}
  /\ GoTo(c, "deployment")
  /\ UNCHANGED <<crd, schema, resourceVars, opNs, pod, alone, faults>>

-----------------------------------------------------------------------------
(* UninstallOperator.                                                      *)

\* Mutant: the Deployment is left to go with its namespace.
DeleteDeploymentNever(c) ==
  /\ At(c, "uninstall", "planned")
  /\ alone' = FALSE
  /\ GoTo(c, "rights")
  /\ UNCHANGED <<crd, schema, resourceVars, opNs, parts, pod, faults>>

DeleteDeployment(c) ==
  /\ At(c, "uninstall", "planned")
  /\ parts' = parts \ {"deployment"}
  /\ alone' = FALSE
  /\ GoTo(c, "rights")
  /\ UNCHANGED <<crd, schema, resourceVars, opNs, pod, faults>>

\* The errors of these calls are dropped.
DeleteRights(c) ==
  /\ At(c, "uninstall", "rights")
  /\ \/ parts' = parts \ {"account", "rbac"} /\ UNCHANGED faults
     \/ Fault /\ \E kept \in {"account", "rbac"} : parts' = parts \ ({"account", "rbac"} \ {kept})
  /\ GoTo(c, "namespace")
  /\ UNCHANGED <<crd, schema, resourceVars, opNs, pod, alone>>

DeleteOperatorNamespace(c) ==
  /\ At(c, "uninstall", "namespace")
  /\ opNs' = IF opNs = "present" THEN "terminating" ELSE opNs
  /\ GoTo(c, "crd")
  /\ UNCHANGED <<crd, schema, resourceVars, parts, pod, alone, faults>>

\* The resources without a finalizer are gone with the CRD, the others are being
\* deleted and keep it.
UninstallCRD(c) ==
  /\ At(c, "uninstall", "crd")
  /\ LET kept == {n \in Existing : crs[n].finalizer}
     IN /\ crs' = [n \in CrNamespaces |->
                     IF n \in kept THEN [crs[n] EXCEPT !.deleting = TRUE] ELSE None]
        /\ crd' = IF crd = "absent" \/ kept = {} THEN "absent" ELSE "terminating"
  /\ queued' = IF pod THEN queued \cup Existing ELSE queued
  /\ GoTo(c, "done")
  /\ UNCHANGED <<schema, opNs, parts, pod, alone, faults>>

-----------------------------------------------------------------------------
(* The host: it finishes what is being deleted, and runs the operator.     *)

CrdRemoved ==
  /\ crd = "terminating" /\ Existing = {}
  /\ crd' = "absent"
  /\ UNCHANGED <<pc, schema, resourceVars, opNs, parts, pod, alone, faults>>

OperatorNamespaceRemoved ==
  /\ opNs = "terminating"
  /\ opNs' = "absent"
  /\ parts' = parts \ {"account", "deployment"}
  /\ UNCHANGED <<pc, crd, schema, resourceVars, pod, alone, faults>>

\* A manager lists what there is when it starts, and cannot without the CRD.
OperatorStarts ==
  /\ ~pod /\ {"account", "deployment"} \subseteq parts /\ crd # "absent"
  /\ pod' = TRUE
  /\ queued' = Existing
  /\ UNCHANGED <<pc, crd, schema, crs, opNs, parts, alone, faults>>

OperatorStops ==
  /\ pod /\ "deployment" \notin parts
  /\ pod' = FALSE
  /\ queued' = {}
  /\ UNCHANGED <<pc, crd, schema, crs, opNs, parts, alone, faults>>

OperatorCrashes ==
  /\ pod /\ Fault
  /\ queued' = Existing
  /\ UNCHANGED <<pc, crd, schema, crs, opNs, parts, pod, alone>>

Install(c) ==
  \/ InstallCRD(c) \/ EnsureNamespaceExists(c) \/ EnsureOperatorServiceAccount(c)
  \/ EnsureOperatorRBAC(c) \/ EnsureOperatorDeployment(c)

Uninstall(c) ==
  \/ DeleteDeployment(c) \/ DeleteRights(c) \/ DeleteOperatorNamespace(c) \/ UninstallCRD(c)
=============================================================================
