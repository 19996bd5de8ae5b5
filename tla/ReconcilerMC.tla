---------------------------- MODULE ReconcilerMC ----------------------------
EXTENDS Reconciler

\* One kind of each sort: optional and always updated, cluster-wide and created
\* only, updated if it differs, optional and refused without a host.
MCObjects == {"limits", "clusterrole", "statefulset", "ingress"}

\* The first spec sets resource limits and asks for an Ingress without naming its
\* host; the next one names the host and drops the limits.
MCWanted == [s \in 1..MaxSpecs |-> IF s = 1 THEN {"limits", "ingress"} ELSE {"ingress"}]
MCNoHost == {1}
ReadyNoHost == {}

\* Every spec differs from the others in every field.
MCInPlace == [o \in Kinds |-> [s \in 1..MaxSpecs |-> s]]
MCFixed == [o \in Kinds |-> [s \in 1..MaxSpecs |-> s]]

\* What every cluster has, and specs that differ in the storage only.
CoreObjects == {"services", "statefulset"}
CoreWanted == [s \in 1..MaxSpecs |-> {}]
StorageInPlace == [o \in Kinds |-> [s \in 1..MaxSpecs |-> 1]]
=============================================================================
