--------------------------- MODULE CidrAlloc_proofs ---------------------------
(***************************************************************************)
(* Theorems about CidrAlloc, for every set of clusters, every size of the  *)
(* pool and any lag of the cache.                                          *)
(*                                                                         *)
(* All but the last rest on one fact, Kept: a namespace there after a      *)
(* step is a new one, or has the pair it had.  What was read of a          *)
(* namespace is then still true of it (Carries), however old the copy: the *)
(* cache's, one in the stream, the operator's or a command's; and a pair   *)
(* that was avoided stays where it was until its namespace goes (Avoids).  *)
(* The last is about picking alone, whatever is listed: what is used up    *)
(* has no least free slot, and so no free one.                             *)
(***************************************************************************)
EXTENDS CidrAlloc, SequenceTheorems, FiniteSetTheorems, WellFoundedInduction, TLAPS

\* If n is the namespace that was born then, it has this pair.
Carries(n, born, cidrs) == n # None /\ n.born = born => n.cidrs = cidrs

\* What m, read some time ago, says is true of n if it is the same namespace.
TrueCopy(m, n) ==
  m # None =>
    /\ m.born <= births
    /\ m.cidrs # None => Carries(n, m.born, m.cidrs)

\* These clusters have pairs, and none of them meets this one.
Avoids(cidrs, avoided) ==
  \A c \in avoided : c \in Holders(ns) /\ ~Share(ns[c].cidrs, cidrs)

NsInv == \A c \in Clusters : ns[c] # None => ns[c].born <= births

CacheInv == \A c \in Clusters : TrueCopy(cache[c], ns[c])

StreamInv == \A i \in 1..Len(stream) : TrueCopy(stream[i].ns, ns[stream[i].cluster])

ServerInv ==
  \A c \in Clusters : servers[c] # None =>
    /\ ns[c] # None
    /\ servers[c].born <= births
    /\ Carries(ns[c], servers[c].born, servers[c].cidrs)

\* A pair meets none of those it was picked to avoid.
SeenInv == \A d \in Holders(ns) : Avoids(ns[d].cidrs, seen[d])

CommandInv(c) ==
  /\ cli[c].pc # "idle" => cli[c].cidrs \in Pairs
  /\ cli[c].pc = "picked" => Avoids(cli[c].cidrs, cli[c].seen)
  /\ cli[c].pc = "created" =>
       cli[c].born <= births /\ Carries(ns[c], cli[c].born, cli[c].cidrs)

CliInv == \A c \in Clusters : CommandInv(c)

OpInv ==
  /\ op.pc # "idle" => op.cluster \in Clusters
  /\ op.pc # "idle" /\ op.copy # None => op.copy.born <= births
  /\ op.pc \in {"allocate", "picked"} /\ op.copy # None => op.copy.cidrs = None
  /\ op.pc = "picked" => op.cidrs \in Pairs /\ Avoids(op.cidrs, op.seen)
  /\ op.pc = "recorded" =>
       /\ op.cidrs \in Pairs
       /\ op.copy # None
       /\ Carries(ns[op.cluster], op.copy.born, op.cidrs)

IInv == TypeOK /\ NsInv /\ CacheInv /\ StreamInv /\ ServerInv /\ SeenInv /\ CliInv /\ OpInv

\* A namespace that is there afterwards is a new one, or has the pair it had.
Kept ==
  \A c \in Clusters : ns'[c] # None =>
    \/ ns[c] = None /\ ns'[c].born = births + 1
    \/ /\ ns[c] # None /\ ns'[c].born = ns[c].born
       /\ ns[c].cidrs # None => ns'[c].cidrs = ns[c].cidrs

\* The births that were counted stay counted.
Counted == births \in Nat /\ births' \in Nat /\ births <= births'

NoneGone == \A c \in Clusters : ns[c] # None => ns'[c] # None

-----------------------------------------------------------------------------
(* Picking.                                                                *)

\* The slot that is found is in the pool and free.
LEMMA FirstFreeIsFree ==
  ASSUME NEW used, FirstFree(used) # 0
  PROVE  FirstFree(used) \in Slots /\ FirstFree(used) \notin used
BY DEF FirstFree, IsFirstFree

\* The pair that is picked meets none of those in view.
LEMMA PickedIsFree ==
  ASSUME NEW view, PickFreeVNodeCIDRs(view) # None
  PROVE  /\ PickFreeVNodeCIDRs(view) \in Pairs
         /\ \A c \in Holders(view) : ~Share(view[c].cidrs, PickFreeVNodeCIDRs(view))
<1> DEFINE pods == {view[c].cidrs.pod : c \in Holders(view)}
           svcs == {view[c].cidrs.svc : c \in Holders(view)}
           p == FirstFree(pods)
           s == FirstFree(svcs)
<1>1. p # 0 /\ s # 0 /\ PickFreeVNodeCIDRs(view) = [pod |-> p, svc |-> s]
  BY DEF PickFreeVNodeCIDRs
<1>2. p \in Slots /\ p \notin pods
  BY <1>1, FirstFreeIsFree
<1>3. s \in Slots /\ s \notin svcs
  BY <1>1, FirstFreeIsFree
<1> HIDE DEF p, s
<1>4. PickFreeVNodeCIDRs(view) \in Pairs
  BY <1>1, <1>2, <1>3 DEF Pairs
<1>5. \A c \in Holders(view) : view[c].cidrs.pod # p /\ view[c].cidrs.svc # s
  BY <1>2, <1>3
<1> QED  BY <1>1, <1>4, <1>5 DEF Share

-----------------------------------------------------------------------------
(* What a change of the namespaces leaves true.                            *)

LEMMA KeptCarries ==
  ASSUME Kept, births \in Nat, NEW c \in Clusters, NEW born \in Nat, born <= births,
         NEW cidrs \in Pairs, Carries(ns[c], born, cidrs)
  PROVE  Carries(ns'[c], born, cidrs)
<1>1. SUFFICES ASSUME ns'[c] # None, ns'[c].born = born
               PROVE  ns'[c].cidrs = cidrs
  BY DEF Carries
<1>2. ns[c] # None /\ ns[c].born = born /\ (ns[c].cidrs # None => ns'[c].cidrs = ns[c].cidrs)
  BY <1>1 DEF Kept
<1> QED  BY <1>2, NoneAssumption DEF Carries

LEMMA KeptAvoids ==
  ASSUME Kept, NEW cidrs, NEW avoided, NEW kept, kept \subseteq avoided,
         \A c \in kept : ns'[c] # None, Avoids(cidrs, avoided)
  PROVE  Avoids(cidrs, kept)'
<1>1. ASSUME NEW c \in kept
      PROVE  c \in Holders(ns)' /\ ~Share(ns'[c].cidrs, cidrs)
  <2>1. c \in Clusters /\ ns[c] # None /\ ns[c].cidrs # None /\ ~Share(ns[c].cidrs, cidrs)
    BY <1>1 DEF Avoids, Holders
  <2>2. ns'[c] # None /\ ns'[c].cidrs = ns[c].cidrs
    BY <1>1, <2>1 DEF Kept
  <2> QED  BY <2>1, <2>2 DEF Holders
<1> QED  BY <1>1 DEF Avoids

LEMMA WriteKeeps ==
  ASSUME IInv, Kept, Counted, cache' = cache, NEW c \in Clusters,
         NEW value \in Namespaces \cup {None}, Write(c, value),
         value # None => value.born <= births'
  PROVE  NsInv' /\ CacheInv' /\ StreamInv'
<1>1. NsInv'
  <2>1. ASSUME NEW d \in Clusters, ns'[d] # None
        PROVE  ns'[d].born <= births'
    BY <2>1 DEF IInv, TypeOK, Write, NsInv, Counted, Namespaces
  <2> QED  BY <2>1 DEF NsInv
<1>2. CacheInv'
  <2>1. ASSUME NEW d \in Clusters, cache[d] # None
        PROVE  /\ cache[d].born <= births'
               /\ cache[d].cidrs # None => Carries(ns'[d], cache[d].born, cache[d].cidrs)
    <3>1. cache[d].born \in Nat /\ cache[d].born <= births /\ cache[d].cidrs \in Pairs \cup {None}
      BY <2>1 DEF IInv, TypeOK, CacheInv, TrueCopy, Namespaces
    <3>2. cache[d].cidrs # None => Carries(ns[d], cache[d].born, cache[d].cidrs)
      BY <2>1 DEF IInv, CacheInv, TrueCopy
    <3> QED  BY <3>1, <3>2, KeptCarries DEF Counted
  <2> QED  BY <2>1 DEF CacheInv, TrueCopy
<1>3. StreamInv'
  <2> DEFINE change == [cluster |-> c, ns |-> value]
  <2>1. /\ stream \in Seq([cluster : Clusters, ns : Namespaces \cup {None}])
        /\ stream' = Append(stream, change)
        /\ Len(stream') = Len(stream) + 1
        /\ stream'[Len(stream) + 1] = change
        /\ \A i \in 1..Len(stream) : stream'[i] = stream[i]
    BY AppendProperties DEF IInv, TypeOK, Write
  <2>2. ns'[c] = value
    BY DEF IInv, TypeOK, Write
  <2>3. ASSUME NEW i \in 1..Len(stream), stream[i].ns # None
        PROVE  /\ stream[i].ns.born <= births'
               /\ stream[i].ns.cidrs # None =>
                    Carries(ns'[stream[i].cluster], stream[i].ns.born, stream[i].ns.cidrs)
    <3> stream[i] \in [cluster : Clusters, ns : Namespaces \cup {None}]
      BY <2>1, ElementOfSeq
    <3>1. stream[i].cluster \in Clusters /\ stream[i].ns \in Namespaces
      BY <2>3
    <3>2. stream[i].ns.born \in Nat /\ stream[i].ns.cidrs \in Pairs \cup {None}
      BY <3>1 DEF Namespaces
    <3>3. /\ stream[i].ns.born <= births
          /\ stream[i].ns.cidrs # None =>
               Carries(ns[stream[i].cluster], stream[i].ns.born, stream[i].ns.cidrs)
      BY <2>3 DEF IInv, StreamInv, TrueCopy
    <3> QED  BY <3>1, <3>2, <3>3, KeptCarries DEF Counted
  <2>4. ASSUME value # None
        PROVE  value.born <= births' /\ Carries(ns'[c], value.born, value.cidrs)
    BY <2>2, <2>4 DEF Carries
  <2>5. ASSUME NEW i \in 1..Len(stream')
        PROVE  TrueCopy(stream[i].ns, ns[stream[i].cluster])'
    <3>1. CASE i \in 1..Len(stream)
      BY <2>1, <2>3, <3>1 DEF TrueCopy
    <3>2. CASE i = Len(stream) + 1
      BY <2>1, <2>4, <3>2 DEF TrueCopy
    <3> QED  BY <2>1, <2>5, <3>1, <3>2, LenProperties
  <2> QED  BY <2>5 DEF StreamInv
<1> QED  BY <1>1, <1>2, <1>3

LEMMA ServersKept ==
  ASSUME IInv, Kept, Counted, NEW c \in Clusters, servers'[c] = servers[c],
         servers[c] # None, ns'[c] # None
  PROVE  /\ servers'[c].born <= births'
         /\ Carries(ns'[c], servers'[c].born, servers'[c].cidrs)
<1>1. servers[c].born \in Nat /\ servers[c].cidrs \in Pairs
  BY DEF IInv, TypeOK, Server
<1>2. servers[c].born <= births /\ Carries(ns[c], servers[c].born, servers[c].cidrs)
  BY DEF IInv, ServerInv
<1> QED  BY <1>1, <1>2, KeptCarries DEF Counted

\* A command that a step leaves alone, but for what it no longer has to avoid.
LEMMA CommandKept ==
  ASSUME IInv, Kept, Counted, NEW c \in Clusters,
         cli'[c].pc = cli[c].pc, cli'[c].cidrs = cli[c].cidrs, cli'[c].born = cli[c].born,
         cli'[c].seen \subseteq cli[c].seen,
         \A d \in cli'[c].seen : ns[d] # None => ns'[d] # None
  PROVE  CommandInv(c)'
<1>1. cli[c].born \in Nat
  BY DEF IInv, TypeOK, CliState
<1>2. CommandInv(c)
  BY DEF IInv, CliInv
<1>3. ASSUME cli[c].pc = "picked"
      PROVE  Avoids(cli[c].cidrs, cli[c].seen)'
  <2> DEFINE cidrs == cli[c].cidrs
             avoided == cli[c].seen
  <2>1. Avoids(cidrs, avoided)
    BY <1>2, <1>3 DEF CommandInv
  <2>2. \A d \in cli'[c].seen : ns'[d] # None
    BY <2>1 DEF Avoids, Holders
  <2>3. \A d \in cli'[c].seen : d \in Holders(ns)' /\ ~Share(ns'[d].cidrs, cli'[c].cidrs)
    <3> TAKE d \in cli'[c].seen
    <3>1. d \in Clusters /\ ns[d] # None /\ ns[d].cidrs # None /\ ~Share(ns[d].cidrs, cidrs)
      BY <2>1 DEF Avoids, Holders
    <3>2. ns'[d] # None /\ ns'[d].cidrs = ns[d].cidrs
      BY <2>2, <3>1 DEF Kept
    <3> QED  BY <3>1, <3>2 DEF Holders
  <2> QED  BY <2>3 DEF Avoids
<1>4. ASSUME cli[c].pc = "created"
      PROVE  cli[c].born <= births' /\ Carries(ns'[c], cli[c].born, cli[c].cidrs)
  BY <1>1, <1>2, <1>4, KeptCarries DEF CommandInv, Counted
<1> QED  BY <1>2, <1>3, <1>4 DEF CommandInv

\* The worker, when a step leaves it alone but for what it no longer has to avoid.
LEMMA WorkerKept ==
  ASSUME IInv, Kept, Counted,
         op'.pc = op.pc, op'.cluster = op.cluster, op'.copy = op.copy, op'.cidrs = op.cidrs,
         op'.seen \subseteq op.seen,
         \A d \in op'.seen : ns[d] # None => ns'[d] # None
  PROVE  OpInv'
<1>1. OpInv /\ op \in OpState
  BY DEF IInv, TypeOK
<1>2. ASSUME op.pc # "idle", op.copy # None
      PROVE  op.copy.born \in Nat /\ op.copy.born <= births /\ op.copy.born <= births'
  BY <1>1, <1>2 DEF OpInv, OpState, Namespaces, Counted
<1>3. ASSUME op.pc = "picked"
      PROVE  Avoids(op.cidrs, op.seen)'
  <2>1. Avoids(op.cidrs, op.seen)
    BY <1>1, <1>3 DEF OpInv
  <2>2. \A d \in op'.seen : d \in Holders(ns)' /\ ~Share(ns'[d].cidrs, op'.cidrs)
    <3> TAKE d \in op'.seen
    <3>1. d \in Clusters /\ ns[d] # None /\ ns[d].cidrs # None /\ ~Share(ns[d].cidrs, op.cidrs)
      BY <2>1 DEF Avoids, Holders
    <3>2. ns'[d] # None /\ ns'[d].cidrs = ns[d].cidrs
      BY <3>1 DEF Kept
    <3> QED  BY <3>1, <3>2 DEF Holders
  <2> QED  BY <2>2 DEF Avoids
<1>4. ASSUME op.pc = "recorded"
      PROVE  Carries(ns'[op.cluster], op.copy.born, op.cidrs)
  <2>1. /\ op.cluster \in Clusters /\ op.copy # None /\ op.cidrs \in Pairs
        /\ Carries(ns[op.cluster], op.copy.born, op.cidrs)
    BY <1>1, <1>4 DEF OpInv
  <2> QED  BY <2>1, <1>2, <1>4, KeptCarries DEF Counted
<1> QED  BY <1>1, <1>2, <1>3, <1>4 DEF OpInv

-----------------------------------------------------------------------------
(* The type invariant.                                                     *)

LEMMA WriteType ==
  ASSUME TypeOK, NEW c \in Clusters, NEW value \in Namespaces \cup {None}, Write(c, value)
  PROVE  /\ ns' \in [Clusters -> Namespaces \cup {None}]
         /\ stream' \in Seq([cluster : Clusters, ns : Namespaces \cup {None}])
BY AppendProperties DEF TypeOK, Write

LEMMA CreateType ==
  ASSUME TypeOK, NEW c \in Clusters, NEW cidrs \in Pairs \cup {None},
         NEW avoided \in SUBSET Clusters, CreateNamespace(c, cidrs, avoided)
  PROVE  /\ ns' \in [Clusters -> Namespaces \cup {None}]
         /\ stream' \in Seq([cluster : Clusters, ns : Namespaces \cup {None}])
         /\ seen' \in [Clusters -> SUBSET Clusters]
         /\ births' \in Nat
<1> DEFINE new == [born |-> births + 1, cidrs |-> cidrs, terminating |-> FALSE]
<1>1. births' = births + 1 /\ births' \in Nat /\ new \in Namespaces /\ Write(c, new)
  BY DEF TypeOK, CreateNamespace, Namespaces
<1>2. seen' \in [Clusters -> SUBSET Clusters]
  BY DEF TypeOK, CreateNamespace
<1> HIDE DEF new
<1> QED  BY <1>1, <1>2, WriteType

LEMMA CliStateType ==
  ASSUME NEW r \in CliState, NEW d, NEW b \in Nat
  PROVE  /\ [r EXCEPT !.pc = "created", !.born = b] \in CliState
         /\ [r EXCEPT !.seen = @ \ {d}] \in CliState
BY DEF CliState

LEMMA TypeStep ==
  ASSUME IInv, [Next]_vars
  PROVE  TypeOK'
<1> USE DEF IInv
<1>1. ASSUME NEW c \in Clusters, CliPick(c) PROVE TypeOK'
  <2>1. PickFreeVNodeCIDRs(ns) \in Pairs /\ Holders(ns) \in SUBSET Clusters
    BY <1>1, PickedIsFree DEF CliPick, Holders
  <2> QED  BY <1>1, <2>1 DEF CliPick, TypeOK, CliState
<1>2. ASSUME NEW c \in Clusters, CliCreateNamespace(c) PROVE TypeOK'
  <2>1. cli[c].cidrs \in Pairs \cup {None} /\ cli[c].seen \in SUBSET Clusters
    BY DEF TypeOK, CliState
  <2>2. births' \in Nat
    BY <1>2, <2>1, CreateType DEF CliCreateNamespace
  <2>3. cli' \in [Clusters -> CliState]
    <3>1. [cli[c] EXCEPT !.pc = "created", !.born = births'] \in CliState
      BY <2>2, CliStateType DEF TypeOK
    <3>2. cli' = [cli EXCEPT ![c] = [cli[c] EXCEPT !.pc = "created", !.born = births']]
      BY <1>2 DEF CliCreateNamespace, TypeOK
    <3> QED  BY <3>1, <3>2 DEF TypeOK
  <2> QED  BY <1>2, <2>1, <2>3, CreateType DEF CliCreateNamespace, TypeOK
<1>3. ASSUME NEW c \in Clusters, CliCreateServer(c) PROVE TypeOK'
  <2>1. cli[c].cidrs \in Pairs /\ cli[c].born \in Nat
    BY <1>3 DEF CliCreateServer, CliInv, CommandInv, TypeOK, CliState
  <2>2. servers' \in [Clusters -> Server \cup {None}]
    BY <1>3, <2>1 DEF CliCreateServer, TypeOK, Server
  <2> QED  BY <1>3, <2>2 DEF CliCreateServer, TypeOK, CliState, CliIdle
<1>4. ASSUME NEW c \in Clusters, CliFail(c) PROVE TypeOK'
  BY <1>4 DEF CliFail, TypeOK, CliState, CliIdle
<1>5. ASSUME NEW c \in Clusters, CliCreateFlat(c) PROVE TypeOK'
  <2>1. None \in Pairs \cup {None} /\ {} \in SUBSET Clusters
    OBVIOUS
  <2> QED  BY <1>5, <2>1, CreateType DEF CliCreateFlat, TypeOK
<1>6. ASSUME NEW c \in Clusters, OpGet(c) PROVE TypeOK'
  <2>1. cache[c] \in Namespaces \cup {None} /\ (cache[c] # None => cache[c].cidrs \in Pairs \cup {None})
    BY DEF TypeOK, Namespaces
  <2> QED  BY <1>6, <2>1 DEF OpGet, TypeOK, OpState
<1>7. CASE OpPick
  <2>1. PickFreeVNodeCIDRs(cache) \in Pairs /\ Holders(cache) \in SUBSET Clusters
    BY <1>7, PickedIsFree DEF OpPick, Holders
  <2>2. op' \in OpState
    BY <1>7, <2>1 DEF OpPick, TypeOK, OpState
  <2> QED  BY <1>7, <2>2 DEF OpPick, TypeOK
<1>8. CASE OpCreateNamespace
  <2>1. op.cluster \in Clusters /\ op.cidrs \in Pairs /\ op.seen \in SUBSET Clusters
    BY <1>8 DEF OpCreateNamespace, OpInv, TypeOK, OpState
  <2>2. births' \in Nat
    BY <1>8, <2>1, CreateType DEF OpCreateNamespace
  <2>3. op' \in OpState
    BY <1>8, <2>1, <2>2 DEF OpCreateNamespace, TypeOK, OpState, Namespaces
  <2> QED  BY <1>8, <2>1, <2>3, CreateType DEF OpCreateNamespace, TypeOK
<1>9. CASE OpAnnotate
  <2>1. op.cluster \in Clusters /\ op.cidrs \in Pairs /\ op.seen \in SUBSET Clusters
        /\ op.copy \in Namespaces
    BY <1>9 DEF OpAnnotate, OpInv, TypeOK, OpState
  <2>2. [op.copy EXCEPT !.cidrs = op.cidrs] \in Namespaces
    BY <2>1 DEF Namespaces
  <2>3. op' \in OpState
    BY <1>9 DEF OpAnnotate, TypeOK, OpState
  <2> QED  BY <1>9, <2>1, <2>2, <2>3, WriteType DEF OpAnnotate, TypeOK
<1>10. CASE OpEnsureServer
  <2>1. op.cluster \in Clusters /\ op.cidrs \in Pairs /\ op.copy.born \in Nat
    BY <1>10 DEF OpEnsureServer, OpInv, TypeOK, OpState, Namespaces
  <2> QED  BY <1>10, <2>1 DEF OpEnsureServer, TypeOK, Server, OpState, OpIdle
<1>11. CASE OpFail
  BY <1>11 DEF OpFail, TypeOK, OpState, OpIdle
<1>12. CASE CacheUpdate
  <2>1. /\ Head(stream) \in [cluster : Clusters, ns : Namespaces \cup {None}]
        /\ Tail(stream) \in Seq([cluster : Clusters, ns : Namespaces \cup {None}])
    BY <1>12, HeadTailProperties DEF CacheUpdate, TypeOK
  <2> QED  BY <1>12, <2>1 DEF CacheUpdate, TypeOK
<1>13. ASSUME NEW c \in Clusters, DeleteNamespace(c) PROVE TypeOK'
  <2>1. [ns[c] EXCEPT !.terminating = TRUE] \in Namespaces
    BY <1>13 DEF DeleteNamespace, TypeOK, Namespaces
  <2> QED  BY <1>13, <2>1, WriteType DEF DeleteNamespace, TypeOK
<1>14. ASSUME NEW c \in Clusters, NamespaceGone(c) PROVE TypeOK'
  <2>1. cli' \in [Clusters -> CliState]
    <3>1. ASSUME NEW d \in Clusters PROVE [cli[d] EXCEPT !.seen = @ \ {c}] \in CliState
      BY CliStateType DEF TypeOK
    <3> QED  BY <1>14, <3>1 DEF NamespaceGone
  <2>3. op' \in OpState /\ seen' \in [Clusters -> SUBSET Clusters]
    BY <1>14 DEF NamespaceGone, TypeOK, OpState
  <2>4. servers' \in [Clusters -> Server \cup {None}]
    BY <1>14 DEF NamespaceGone, TypeOK
  <2>2. None \in Namespaces \cup {None}
    OBVIOUS
  <2> QED  BY <1>14, <2>1, <2>2, <2>3, <2>4, WriteType DEF NamespaceGone, TypeOK
<1>15. CASE UNCHANGED vars
  BY <1>15 DEF vars, TypeOK
<1> QED
  BY <1>1, <1>2, <1>3, <1>4, <1>5, <1>6, <1>7, <1>8, <1>9, <1>10, <1>11, <1>12, <1>13, <1>14, <1>15,
     ClustersAssumption DEF Next, Cli, Operator, Host

-----------------------------------------------------------------------------
(* Steps that leave the namespaces alone.                                  *)

LEMMA Unmoved ==
  ASSUME IInv, UNCHANGED <<ns, births>>
  PROVE  /\ Kept /\ Counted /\ NsInv'
         /\ cache' = cache => CacheInv'
         /\ stream' = stream => StreamInv'
         /\ servers' = servers => ServerInv'
         /\ seen' = seen => SeenInv'
         /\ cli' = cli => CliInv'
         /\ op' = op => OpInv'
<1> USE DEF IInv
<1>1. Kept /\ Counted /\ NsInv'
  BY DEF Kept, Counted, NsInv, TypeOK
<1>2. cache' = cache => CacheInv'
  BY DEF CacheInv, TrueCopy, Carries
<1>3. stream' = stream => StreamInv'
  BY DEF StreamInv, TrueCopy, Carries
<1>4. servers' = servers => ServerInv'
  BY DEF ServerInv, Carries
<1>5. seen' = seen => SeenInv'
  BY DEF SeenInv, Avoids, Holders
<1>6. cli' = cli => CliInv'
  BY DEF CliInv, CommandInv, Avoids, Holders, Carries
<1>7. op' = op => OpInv'
  BY DEF OpInv, Avoids, Holders, Carries
<1> QED  BY <1>1, <1>2, <1>3, <1>4, <1>5, <1>6, <1>7

LEMMA CliStep ==
  ASSUME IInv, TypeOK', NEW c \in Clusters, CliPick(c) \/ CliCreateServer(c) \/ CliFail(c)
  PROVE  IInv' /\ Kept
<1>1. UNCHANGED <<ns, births, cache, stream, seen, op>>
  BY DEF CliPick, CliCreateServer, CliFail
<1>2. CommandInv(c)' /\ \A d \in Clusters \ {c} : cli'[d] = cli[d]
  <2>1. CASE CliPick(c)
    <3> DEFINE pick == PickFreeVNodeCIDRs(ns)
    <3>1. pick \in Pairs /\ \A d \in Holders(ns) : ~Share(ns[d].cidrs, pick)
      BY <2>1, PickedIsFree DEF CliPick
    <3>2. cli'[c].pc = "picked" /\ cli'[c].cidrs = pick /\ cli'[c].seen = Holders(ns)
      BY <2>1 DEF CliPick, IInv, TypeOK
    <3> HIDE DEF pick
    <3>3. Avoids(cli[c].cidrs, cli[c].seen)'
      BY <1>1, <3>1, <3>2 DEF Avoids, Holders
    <3> QED  BY <2>1, <3>1, <3>2, <3>3 DEF CommandInv, CliPick, IInv, TypeOK
  <2>2. CASE CliCreateServer(c) \/ CliFail(c)
    BY <2>2 DEF CliCreateServer, CliFail, CliIdle, CommandInv, IInv, TypeOK
  <2> QED  BY <2>1, <2>2
<1>3. CliInv'
  BY <1>1, <1>2, Unmoved, CommandKept DEF CliInv
<1>4. ServerInv'
  <2>1. CASE servers' = servers
    BY <1>1, <2>1, Unmoved
  <2>2. CASE CliCreateServer(c)
    <3>1. ns[c] # None /\ cli[c].born <= births /\ Carries(ns[c], cli[c].born, cli[c].cidrs)
      BY <2>2 DEF CliCreateServer, CanCreateIn, IInv, CliInv, CommandInv
    <3>2. servers'[c] = [cidrs |-> cli[c].cidrs, born |-> cli[c].born]
          /\ \A d \in Clusters \ {c} : servers'[d] = servers[d]
      BY <2>2 DEF CliCreateServer, IInv, TypeOK
    <3> QED  BY <1>1, <3>1, <3>2 DEF IInv, ServerInv, Carries
  <2> QED  BY <2>1, <2>2 DEF CliPick, CliFail
<1> QED  BY <1>1, <1>3, <1>4, Unmoved DEF IInv

LEMMA OpStep ==
  ASSUME IInv, TypeOK', (\E c \in Clusters : OpGet(c)) \/ OpPick \/ OpEnsureServer \/ OpFail
  PROVE  IInv' /\ Kept
<1>1. UNCHANGED <<ns, births, cache, stream, seen, cli>>
  BY DEF OpGet, OpPick, OpEnsureServer, OpFail
<1>2. OpInv'
  <2>1. ASSUME NEW c \in Clusters, OpGet(c)
        PROVE  OpInv'
    <3>1. TrueCopy(cache[c], ns[c]) /\ cache[c] \in Namespaces \cup {None}
      BY DEF IInv, CacheInv, TypeOK
    <3>2. CASE cache[c] # None /\ cache[c].cidrs # None
      <4>1. op' = [pc |-> "recorded", cluster |-> c, copy |-> cache[c],
                   cidrs |-> cache[c].cidrs, seen |-> {}]
        BY <2>1, <3>2 DEF OpGet
      <4> QED  BY <1>1, <3>1, <3>2, <4>1 DEF OpInv, TrueCopy, Namespaces
    <3>3. CASE ~(cache[c] # None /\ cache[c].cidrs # None)
      <4>1. op' = [pc |-> "allocate", cluster |-> c, copy |-> cache[c],
                   cidrs |-> None, seen |-> {}]
        BY <2>1, <3>3 DEF OpGet
      <4> QED  BY <1>1, <3>1, <3>3, <4>1 DEF OpInv, TrueCopy
    <3> QED  BY <3>2, <3>3
  <2>2. CASE OpPick
    <3> DEFINE pick == PickFreeVNodeCIDRs(cache)
    <3>1. pick \in Pairs /\ \A d \in Holders(cache) : ~Share(cache[d].cidrs, pick)
      BY <2>2, PickedIsFree DEF OpPick
    <3>2. /\ op'.pc = "picked" /\ op'.cidrs = pick
          /\ op'.seen = {c \in Holders(cache) : Current(c)}
          /\ op'.cluster = op.cluster /\ op'.copy = op.copy /\ op.pc = "allocate"
      BY <2>2 DEF OpPick, IInv, TypeOK, OpState
    <3> HIDE DEF pick
    <3>3. ASSUME NEW d \in Holders(cache), Current(d)
          PROVE  d \in Holders(ns) /\ ~Share(ns[d].cidrs, pick)
      <4>1. d \in Clusters /\ cache[d] # None /\ cache[d].cidrs # None
            /\ ns[d] # None /\ ns[d].born = cache[d].born
        BY <3>3 DEF Holders, Current
      <4>2. ns[d].cidrs = cache[d].cidrs
        BY <4>1 DEF IInv, CacheInv, TrueCopy, Carries
      <4> QED  BY <3>1, <4>1, <4>2 DEF Holders
    <3>4. Avoids(op.cidrs, op.seen)'
      BY <1>1, <3>2, <3>3 DEF Avoids, Holders
    <3> QED  BY <1>1, <3>1, <3>2, <3>4 DEF OpInv, IInv
  <2>3. CASE OpEnsureServer \/ OpFail
    BY <2>3 DEF OpEnsureServer, OpFail, OpIdle, OpInv
  <2> QED  BY <2>1, <2>2, <2>3
<1>3. ServerInv'
  <2>1. CASE servers' = servers
    BY <1>1, <2>1, Unmoved
  <2>2. CASE OpEnsureServer
    <3>1. /\ op.cluster \in Clusters /\ op.copy # None /\ op.copy.born <= births
          /\ Carries(ns[op.cluster], op.copy.born, op.cidrs)
      BY <2>2 DEF OpEnsureServer, IInv, OpInv
    <3>2. ns[op.cluster] # None
      BY <2>2, <3>1 DEF OpEnsureServer, CanCreateIn, IInv, ServerInv
    <3>3. /\ servers'[op.cluster] = [cidrs |-> op.cidrs, born |-> op.copy.born]
          /\ \A d \in Clusters \ {op.cluster} : servers'[d] = servers[d]
      BY <2>2, <3>1 DEF OpEnsureServer, IInv, TypeOK
    <3> QED  BY <1>1, <3>1, <3>2, <3>3 DEF IInv, ServerInv, Carries
  <2> QED  BY <2>1, <2>2 DEF OpGet, OpPick, OpFail
<1> QED  BY <1>1, <1>2, <1>3, Unmoved DEF IInv

LEMMA CacheStep ==
  ASSUME IInv, TypeOK', CacheUpdate
  PROVE  IInv' /\ Kept
<1>1. UNCHANGED <<ns, births, servers, seen, cli, op>>
  BY DEF CacheUpdate
<1> DEFINE first == Head(stream)
<1>2. /\ Len(stream) \in Nat /\ Len(stream) >= 1
      /\ first = stream[1] /\ first \in [cluster : Clusters, ns : Namespaces \cup {None}]
      /\ Len(stream') = Len(stream) - 1
      /\ \A i \in 1..Len(stream') : stream'[i] = stream[i + 1]
  <2> DEFINE S == [cluster : Clusters, ns : Namespaces \cup {None}]
  <2>1. stream \in Seq(S) /\ stream # << >> /\ stream' = Tail(stream)
    BY DEF CacheUpdate, IInv, TypeOK
  <2> HIDE DEF S
  <2>2. Len(stream) \in Nat \ {0}
    BY <2>1, EmptySeq
  <2>3. first = stream[1] /\ first \in S
    BY <2>1, <2>2, HeadTailProperties
  <2>4. Len(stream') = Len(stream) - 1 /\ \A i \in 1..Len(stream') : stream'[i] = stream[i + 1]
    BY <2>1, HeadTailProperties
  <2> QED  BY <2>2, <2>3, <2>4 DEF S
<1>3. CacheInv'
  <2>1. first.cluster \in Clusters /\ TrueCopy(first.ns, ns[first.cluster])
    BY <1>2 DEF IInv, StreamInv
  <2>2. cache'[first.cluster] = first.ns
        /\ \A d \in Clusters \ {first.cluster} : cache'[d] = cache[d]
    BY <2>1 DEF CacheUpdate, IInv, TypeOK
  <2> QED  BY <1>1, <2>1, <2>2 DEF IInv, CacheInv, TrueCopy
<1>4. StreamInv'
  <2>1. ASSUME NEW i \in 1..Len(stream')
        PROVE  TrueCopy(stream[i].ns, ns[stream[i].cluster])'
    <3>1. i + 1 \in 1..Len(stream) /\ stream'[i] = stream[i + 1]
      BY <1>2, <2>1
    <3> QED  BY <1>1, <3>1 DEF IInv, StreamInv, TrueCopy
  <2> QED  BY <2>1 DEF StreamInv
<1> QED  BY <1>1, <1>3, <1>4, Unmoved DEF IInv

-----------------------------------------------------------------------------
(* Steps that change a namespace.                                          *)

LEMMA CreateStep ==
  ASSUME IInv, NEW c \in Clusters, ns[c] = None, NEW cidrs \in Pairs \cup {None},
         NEW avoided, Avoids(cidrs, avoided), CreateNamespace(c, cidrs, avoided),
         UNCHANGED <<servers, cache>>
  PROVE  /\ Kept /\ Counted /\ NoneGone
         /\ NsInv' /\ CacheInv' /\ StreamInv' /\ ServerInv' /\ SeenInv'
         /\ births' = births + 1
         /\ ns'[c] = [born |-> births + 1, cidrs |-> cidrs, terminating |-> FALSE]
<1> DEFINE new == [born |-> births + 1, cidrs |-> cidrs, terminating |-> FALSE]
<1>1. /\ births \in Nat /\ births' = births + 1 /\ Write(c, new)
      /\ seen' = [seen EXCEPT ![c] = avoided]
      /\ new \in Namespaces /\ new.born = births'
  BY DEF IInv, TypeOK, CreateNamespace, Namespaces
<1> HIDE DEF new
<1>2. /\ ns'[c] = new /\ \A d \in Clusters \ {c} : ns'[d] = ns[d]
      /\ new # None
  BY <1>1, NoneAssumption DEF IInv, TypeOK, Write
<1>3. Kept /\ Counted /\ NoneGone
  BY <1>1, <1>2 DEF Kept, Counted, NoneGone
<1>4. NsInv' /\ CacheInv' /\ StreamInv'
  BY <1>1, <1>3, WriteKeeps
<1>5. ServerInv'
  <2>1. ASSUME NEW d \in Clusters, servers[d] # None
        PROVE  ns'[d] # None
    BY <1>3, <2>1 DEF IInv, ServerInv, NoneGone
  <2> QED  BY <1>3, <2>1, ServersKept DEF ServerInv
<1>6. SeenInv'
  <2>1. Avoids(cidrs, avoided)'
    <3>1. \A d \in avoided : ns'[d] # None
      BY <1>3 DEF Avoids, Holders, NoneGone
    <3> QED  BY <1>3, <3>1, KeptAvoids
  <2>2. ASSUME NEW d \in Holders(ns)', d # c
        PROVE  Avoids(ns[d].cidrs, seen[d])'
    <3>1. d \in Holders(ns) /\ ns'[d] = ns[d] /\ seen'[d] = seen[d]
      BY <1>1, <1>2, <2>2 DEF Holders, IInv, TypeOK
    <3>2. \A e \in seen[d] :
            /\ e \in Clusters /\ ns[e] # None /\ ns[e].cidrs # None
            /\ ~Share(ns[e].cidrs, ns[d].cidrs)
      BY <3>1 DEF IInv, SeenInv, Avoids, Holders
    <3>3. \A e \in seen[d] : ns'[e] # None /\ ns'[e].cidrs = ns[e].cidrs
      BY <1>3, <3>2 DEF Kept, NoneGone
    <3> QED  BY <3>1, <3>2, <3>3 DEF Avoids, Holders
  <2>3. ns'[c].cidrs = cidrs /\ seen'[c] = avoided
    BY <1>1, <1>2 DEF new, IInv, TypeOK
  <2> QED  BY <2>1, <2>2, <2>3 DEF SeenInv, Avoids
<1> QED  BY <1>1, <1>2, <1>3, <1>4, <1>5, <1>6 DEF new

LEMMA CliCreateStep ==
  ASSUME IInv, TypeOK', NEW c \in Clusters, CliCreateNamespace(c) \/ CliCreateFlat(c)
  PROVE  IInv' /\ Kept
<1>1. CASE CliCreateNamespace(c)
  <2>1. /\ cli[c].pc = "picked" /\ cli[c].cidrs \in Pairs /\ Avoids(cli[c].cidrs, cli[c].seen)
        /\ ns[c] = None /\ CreateNamespace(c, cli[c].cidrs, cli[c].seen)
        /\ UNCHANGED <<servers, cache, op>>
    BY <1>1 DEF CliCreateNamespace, IInv, CliInv, CommandInv
  <2>2. /\ Kept /\ Counted /\ NoneGone
        /\ NsInv' /\ CacheInv' /\ StreamInv' /\ ServerInv' /\ SeenInv'
        /\ births' = births + 1 /\ ns'[c].cidrs = cli[c].cidrs
    <3> DEFINE cidrs == cli[c].cidrs
               avoided == cli[c].seen
    <3>1. /\ cidrs \in Pairs \cup {None} /\ Avoids(cidrs, avoided) /\ ns[c] = None
          /\ CreateNamespace(c, cidrs, avoided) /\ UNCHANGED <<servers, cache>>
      BY <2>1
    <3> HIDE DEF cidrs, avoided
    <3>2. /\ Kept /\ Counted /\ NoneGone
          /\ NsInv' /\ CacheInv' /\ StreamInv' /\ ServerInv' /\ SeenInv'
          /\ births' = births + 1
          /\ ns'[c] = [born |-> births + 1, cidrs |-> cidrs, terminating |-> FALSE]
      BY <3>1, CreateStep
    <3> QED  BY <3>2 DEF cidrs
  <2>3. ASSUME NEW d \in Clusters, d # c
        PROVE  CommandInv(d)'
    <3>1. cli'[d] = cli[d]
      BY <1>1, <2>3 DEF CliCreateNamespace, IInv, TypeOK
    <3> QED  BY <2>2, <3>1, CommandKept DEF NoneGone, IInv, TypeOK, CliState
  <2>4. CommandInv(c)'
    <3>1. cli'[c].pc = "created" /\ cli'[c].cidrs = cli[c].cidrs /\ cli'[c].born = births'
      BY <1>1 DEF CliCreateNamespace, IInv, TypeOK, CliState
    <3> QED  BY <2>1, <2>2, <3>1 DEF CommandInv, Carries, Counted
  <2>5. OpInv'
    BY <2>1, <2>2, WorkerKept DEF NoneGone, IInv, TypeOK, OpState
  <2> QED  BY <2>2, <2>3, <2>4, <2>5 DEF IInv, CliInv
<1>2. CASE CliCreateFlat(c)
  <2>1. /\ ns[c] = None /\ CreateNamespace(c, None, {}) /\ UNCHANGED <<servers, cache, cli, op>>
        /\ Avoids(None, {}) /\ None \in Pairs \cup {None}
    BY <1>2 DEF CliCreateFlat, Avoids
  <2>2. /\ Kept /\ Counted /\ NoneGone
        /\ NsInv' /\ CacheInv' /\ StreamInv' /\ ServerInv' /\ SeenInv'
    BY <2>1, CreateStep
  <2>3. CliInv' /\ OpInv'
    BY <2>1, <2>2, CommandKept, WorkerKept DEF NoneGone, IInv, CliInv, TypeOK, CliState, OpState
  <2> QED  BY <2>2, <2>3 DEF IInv
<1> QED  BY <1>1, <1>2

LEMMA OpCreateStep ==
  ASSUME IInv, TypeOK', OpCreateNamespace
  PROVE  IInv' /\ Kept
<1>1. /\ op.cluster \in Clusters /\ op.cidrs \in Pairs /\ Avoids(op.cidrs, op.seen)
      /\ ns[op.cluster] = None /\ CreateNamespace(op.cluster, op.cidrs, op.seen)
      /\ UNCHANGED <<servers, cache, cli>>
  BY DEF OpCreateNamespace, IInv, OpInv
<1>2. /\ Kept /\ Counted /\ NoneGone
      /\ NsInv' /\ CacheInv' /\ StreamInv' /\ ServerInv' /\ SeenInv'
      /\ births' = births + 1
      /\ ns'[op.cluster].born = births' /\ ns'[op.cluster].cidrs = op.cidrs
  <2> DEFINE c == op.cluster
             cidrs == op.cidrs
             avoided == op.seen
  <2>1. /\ c \in Clusters /\ cidrs \in Pairs \cup {None} /\ Avoids(cidrs, avoided)
        /\ ns[c] = None /\ CreateNamespace(c, cidrs, avoided) /\ UNCHANGED <<servers, cache>>
    BY <1>1
  <2> HIDE DEF c, cidrs, avoided
  <2>2. /\ Kept /\ Counted /\ NoneGone
        /\ NsInv' /\ CacheInv' /\ StreamInv' /\ ServerInv' /\ SeenInv'
        /\ births' = births + 1
        /\ ns'[c] = [born |-> births + 1, cidrs |-> cidrs, terminating |-> FALSE]
    BY <2>1, CreateStep
  <2> QED  BY <2>2 DEF c, cidrs
<1>3. CliInv'
  BY <1>1, <1>2, CommandKept DEF NoneGone, IInv, CliInv, TypeOK, CliState
<1>4. OpInv'
  <2>1. /\ op'.pc = "recorded" /\ op'.cluster = op.cluster /\ op'.cidrs = op.cidrs
        /\ op'.copy = [born |-> births', cidrs |-> op.cidrs, terminating |-> FALSE]
    BY DEF OpCreateNamespace, IInv, TypeOK, OpState
  <2>2. op'.copy # None
    <3>1. op'.copy \in Namespaces
      BY <1>1, <1>2, <2>1 DEF Counted, Namespaces
    <3> QED  BY <3>1, NoneAssumption
  <2> QED  BY <1>1, <1>2, <2>1, <2>2 DEF OpInv, Carries, Counted
<1> QED  BY <1>2, <1>3, <1>4 DEF IInv

\* A namespace that is changed but for its birth, its pair included if it had none.
LEMMA ChangeStep ==
  ASSUME IInv, NEW c \in Clusters, ns[c] # None, NEW value \in Namespaces,
         value.born = ns[c].born, ns[c].cidrs # None => value.cidrs = ns[c].cidrs,
         Write(c, value), UNCHANGED <<servers, cache, cli, births>>
  PROVE  /\ Kept /\ Counted /\ NoneGone
         /\ NsInv' /\ CacheInv' /\ StreamInv' /\ ServerInv' /\ CliInv'
         /\ ns'[c] = value /\ \A d \in Clusters \ {c} : ns'[d] = ns[d]
<1>1. ns'[c] = value /\ value # None /\ \A d \in Clusters \ {c} : ns'[d] = ns[d]
  BY NoneAssumption DEF IInv, TypeOK, Write
<1>2. Kept /\ Counted /\ NoneGone
  BY <1>1 DEF Kept, Counted, NoneGone, IInv, TypeOK
<1>3. NsInv' /\ CacheInv' /\ StreamInv'
  <2>1. value.born <= births'
    BY DEF IInv, NsInv
  <2> QED  BY <1>2, <2>1, WriteKeeps
<1>4. ServerInv'
  <2>1. ASSUME NEW d \in Clusters, servers[d] # None
        PROVE  ns'[d] # None
    BY <1>2, <2>1 DEF IInv, ServerInv, NoneGone
  <2> QED  BY <1>2, <2>1, ServersKept DEF ServerInv
<1>5. CliInv'
  BY <1>2, CommandKept DEF NoneGone, IInv, CliInv, TypeOK, CliState
<1> QED  BY <1>1, <1>2, <1>3, <1>4, <1>5

LEMMA DeleteStep ==
  ASSUME IInv, TypeOK', NEW c \in Clusters, DeleteNamespace(c)
  PROVE  IInv' /\ Kept
<1> DEFINE value == [ns[c] EXCEPT !.terminating = TRUE]
<1>1. /\ ns[c] # None /\ ns[c] \in Namespaces /\ value \in Namespaces
      /\ value.born = ns[c].born /\ value.cidrs = ns[c].cidrs /\ Write(c, value)
      /\ UNCHANGED <<servers, cache, cli, births, seen, op>>
  BY DEF DeleteNamespace, IInv, TypeOK, Namespaces
<1> HIDE DEF value
<1>2. /\ Kept /\ Counted /\ NoneGone
      /\ NsInv' /\ CacheInv' /\ StreamInv' /\ ServerInv' /\ CliInv'
      /\ ns'[c] = value /\ \A d \in Clusters \ {c} : ns'[d] = ns[d]
  BY <1>1, ChangeStep
<1>3. OpInv'
  BY <1>1, <1>2, WorkerKept DEF NoneGone, IInv, TypeOK, OpState
<1>4. \A d \in Clusters :
        /\ ns[d] # None <=> ns'[d] # None
        /\ ns[d] # None => ns'[d].cidrs = ns[d].cidrs
  BY <1>1, <1>2, NoneAssumption
<1>5. SeenInv'
  <2>1. \A e \in Clusters : e \in Holders(ns)' <=> e \in Holders(ns)
    BY <1>4 DEF Holders
  <2>2. ASSUME NEW d \in Holders(ns)'
        PROVE  Avoids(ns[d].cidrs, seen[d])'
    <3>1. d \in Clusters /\ d \in Holders(ns) /\ ns'[d].cidrs = ns[d].cidrs /\ seen'[d] = seen[d]
      BY <1>1, <1>4, <2>1, <2>2 DEF Holders
    <3>2. \A e \in seen[d] : e \in Holders(ns) /\ ~Share(ns[e].cidrs, ns[d].cidrs)
      BY <3>1 DEF IInv, SeenInv, Avoids
    <3>3. \A e \in Holders(ns) : e \in Holders(ns)' /\ ns'[e].cidrs = ns[e].cidrs
      BY <1>4, <2>1 DEF Holders
    <3> QED  BY <3>1, <3>2, <3>3 DEF Avoids
  <2> QED  BY <2>2 DEF SeenInv
<1> QED  BY <1>2, <1>3, <1>5 DEF IInv

LEMMA AnnotateStep ==
  ASSUME IInv, TypeOK', OpAnnotate
  PROVE  IInv' /\ Kept
<1> DEFINE c == op.cluster
           value == [op.copy EXCEPT !.cidrs = op.cidrs]
<1>1. /\ op.pc = "picked" /\ c \in Clusters /\ ns[c] = op.copy /\ op.copy # None
      /\ op.copy.cidrs = None /\ op.copy \in Namespaces /\ op.cidrs \in Pairs
      /\ Avoids(op.cidrs, op.seen)
  BY DEF OpAnnotate, IInv, OpInv, TypeOK, OpState
<1>2. /\ value \in Namespaces /\ value.born = ns[c].born /\ value.cidrs = op.cidrs
      /\ Write(c, value) /\ UNCHANGED <<servers, cache, cli, births>>
      /\ seen' = [seen EXCEPT ![c] = op.seen]
  BY <1>1 DEF OpAnnotate, Namespaces
<1>3. /\ op'.pc = "recorded" /\ op'.cluster = c /\ c' = c /\ op'.copy = op.copy /\ op'.cidrs = op.cidrs
  BY DEF OpAnnotate, IInv, TypeOK, OpState
<1> HIDE DEF c, value
<1>4. /\ Kept /\ Counted /\ NoneGone
      /\ NsInv' /\ CacheInv' /\ StreamInv' /\ ServerInv' /\ CliInv'
      /\ ns'[c] = value /\ \A d \in Clusters \ {c} : ns'[d] = ns[d]
  BY <1>1, <1>2, ChangeStep
<1>5. OpInv'
  <2>1. op.copy.born <= births'
    BY <1>1, <1>2 DEF IInv, OpInv
  <2> QED  BY <1>1, <1>2, <1>3, <1>4, <2>1 DEF OpInv, Carries
<1>6. SeenInv'
  <2>1. c \notin Holders(ns)
    BY <1>1 DEF Holders
  <2>2. \A e \in Holders(ns) : e \in Holders(ns)' /\ ns'[e] = ns[e]
    BY <1>4, <2>1 DEF Holders
  <2>3. ASSUME NEW d \in Holders(ns)', d # c
        PROVE  Avoids(ns[d].cidrs, seen[d])'
    <3>1. d \in Holders(ns) /\ ns'[d] = ns[d] /\ seen'[d] = seen[d]
      BY <1>2, <1>4, <2>3 DEF Holders, IInv, TypeOK
    <3>2. \A e \in seen[d] : e \in Holders(ns) /\ ~Share(ns[e].cidrs, ns[d].cidrs)
      BY <3>1 DEF IInv, SeenInv, Avoids
    <3> QED  BY <2>2, <3>1, <3>2 DEF Avoids
  <2>4. Avoids(ns[c].cidrs, seen[c])'
    <3>1. ns'[c].cidrs = op.cidrs /\ seen'[c] = op.seen
      BY <1>1, <1>2, <1>4 DEF IInv, TypeOK
    <3> QED  BY <1>1, <1>3, <2>2, <3>1 DEF Avoids
  <2> QED  BY <1>3, <2>3, <2>4 DEF SeenInv
<1> QED  BY <1>4, <1>5, <1>6 DEF IInv

LEMMA GoneStep ==
  ASSUME IInv, TypeOK', NEW c \in Clusters, NamespaceGone(c)
  PROVE  IInv' /\ Kept
<1>1. /\ ns[c] # None /\ Write(c, None) /\ UNCHANGED <<cache, births>>
      /\ ns'[c] = None /\ \A d \in Clusters \ {c} : ns'[d] = ns[d]
  BY DEF NamespaceGone, Write, IInv, TypeOK
<1>2. Kept /\ Counted
  BY <1>1 DEF Kept, Counted, IInv, TypeOK
<1>3. NsInv' /\ CacheInv' /\ StreamInv'
  BY <1>1, <1>2, WriteKeeps
<1>4. ServerInv'
  <2>1. servers'[c] = None /\ \A d \in Clusters \ {c} : servers'[d] = servers[d]
    BY DEF NamespaceGone, IInv, TypeOK
  <2> QED  BY <1>1, <2>1 DEF IInv, ServerInv, Carries
<1>5. SeenInv'
  <2>1. ASSUME NEW d \in Holders(ns)'
        PROVE  Avoids(ns[d].cidrs, seen[d])'
    <3>1. d \in Holders(ns) /\ d # c /\ ns'[d] = ns[d]
      BY <1>1, <2>1 DEF Holders
    <3>2. seen'[d] = seen[d] \ {c}
      BY <3>1 DEF NamespaceGone, Holders
    <3>3. \A e \in seen[d] : e \in Holders(ns) /\ ~Share(ns[e].cidrs, ns[d].cidrs)
      BY <3>1 DEF IInv, SeenInv, Avoids
    <3>4. \A e \in Holders(ns) \ {c} : e \in Holders(ns)' /\ ns'[e] = ns[e]
      BY <1>1 DEF Holders
    <3> QED  BY <3>1, <3>2, <3>3, <3>4 DEF Avoids
  <2> QED  BY <2>1 DEF SeenInv
<1>6. CliInv'
  <2>1. ASSUME NEW d \in Clusters
        PROVE  CommandInv(d)'
    <3>1. cli[d] \in CliState
      BY DEF IInv, TypeOK
    <3>2. cli'[d] = [cli[d] EXCEPT !.seen = cli[d].seen \ {c}]
      BY DEF NamespaceGone
    <3>3. /\ cli'[d].pc = cli[d].pc /\ cli'[d].cidrs = cli[d].cidrs /\ cli'[d].born = cli[d].born
          /\ cli'[d].seen = cli[d].seen \ {c}
      BY <3>1, <3>2 DEF CliState
    <3>4. \A e \in cli'[d].seen : ns[e] # None => ns'[e] # None
      BY <1>1, <3>1, <3>3 DEF CliState
    <3> QED  BY <1>2, <3>3, <3>4, CommandKept
  <2> QED  BY <2>1 DEF CliInv
<1>7. OpInv'
  <2>1. op \in OpState /\ op' = [op EXCEPT !.seen = op.seen \ {c}]
    BY DEF NamespaceGone, IInv, TypeOK
  <2>2. /\ op'.pc = op.pc /\ op'.cluster = op.cluster /\ op'.copy = op.copy
        /\ op'.cidrs = op.cidrs /\ op'.seen = op.seen \ {c}
    BY <2>1 DEF OpState
  <2>3. \A e \in op'.seen : ns[e] # None => ns'[e] # None
    BY <1>1, <2>1, <2>2 DEF OpState
  <2> QED  BY <1>2, <2>2, <2>3, WorkerKept
<1> QED  BY <1>2, <1>3, <1>4, <1>5, <1>6, <1>7 DEF IInv

-----------------------------------------------------------------------------
(* The theorems.                                                           *)

LEMMA InitInv == Init => IInv
<1> SUFFICES ASSUME Init PROVE IInv
  OBVIOUS
<1>1. TypeOK
  BY DEF Init, TypeOK, CliState, OpState, CliIdle, OpIdle
<1>2. NsInv /\ CacheInv /\ StreamInv /\ ServerInv /\ SeenInv
  BY DEF Init, NsInv, CacheInv, StreamInv, ServerInv, SeenInv, TrueCopy, Holders
<1>3. CliInv /\ OpInv
  BY DEF Init, CliInv, CommandInv, OpInv, CliIdle, OpIdle
<1> QED  BY <1>1, <1>2, <1>3 DEF IInv

LEMMA StepInv == IInv /\ [Next]_vars => IInv' /\ Kept
<1> SUFFICES ASSUME IInv, [Next]_vars PROVE IInv' /\ Kept
  OBVIOUS
<1>1. TypeOK'
  BY TypeStep
<1>2. CASE Cli
  BY <1>1, <1>2, CliStep, CliCreateStep, ClustersAssumption DEF Cli
<1>3. CASE Operator
  <2>1. CASE (\E c \in Clusters : OpGet(c)) \/ OpPick \/ OpEnsureServer \/ OpFail
    BY <1>1, <2>1, OpStep
  <2> QED  BY <1>1, <1>3, <2>1, OpCreateStep, AnnotateStep, ClustersAssumption DEF Operator
<1>4. CASE Host
  BY <1>1, <1>4, CacheStep, DeleteStep, GoneStep DEF Host
<1>5. CASE UNCHANGED vars
  BY <1>1, <1>5, Unmoved DEF vars, IInv
<1> QED  BY <1>2, <1>3, <1>4, <1>5 DEF Next

LEMMA InvAlways == Spec => []IInv
<1>1. IInv /\ [Next]_vars => IInv'
  BY StepInv
<1> QED  BY InitInv, <1>1, PTL DEF Spec

\* Every variable keeps its type, and no namespace or server a half-picked pair
\* (pickFreeVNodeCIDRs, allocateVNodeCIDRs and ensureStatefulSet).
THEOREM TypesHold == Spec => []TypeOK
<1>1. IInv => TypeOK
  BY DEF IInv
<1> QED  BY InvAlways, <1>1, PTL

\* Whoever starts the API server and agents of a cluster, CreateVirtualCluster or
\* ensureStatefulSet, they run with the pair recorded for that very namespace.
THEOREM ServersMatchNamespaces == Spec => []ServersUseRecorded
<1>1. IInv => ServersUseRecorded
  BY DEF IInv, ServerInv, Carries, ServersUseRecorded
<1> QED  BY InvAlways, <1>1, PTL

\* Two clusters share a CIDR only if neither pair was picked by listing the other's
\* (pickFreeVNodeCIDRs): every collision is a race, none is a miscounted slot.
THEOREM CollisionsAreRaces == Spec => []CollisionOnlyByRace
<1>1. IInv => CollisionOnlyByRace
  BY DEF IInv, SeenInv, Avoids, Share, CollisionOnlyByRace
<1> QED  BY InvAlways, <1>1, PTL

\* A pair that is recorded stays for the life of its namespace, however late the
\* operator's cache shows it (allocateVNodeCIDRs).
THEOREM RecordsStay == Spec => RecordedCidrsStay
<1> DEFINE Stays ==
      \A c \in Clusters :
        ns[c] # None /\ ns'[c] # None /\ ns[c].born = ns'[c].born /\ ns[c].cidrs # None =>
          ns'[c].cidrs = ns[c].cidrs
<1>1. IInv /\ [Next]_vars => [Stays]_vars
  BY StepInv DEF Kept
<1> QED  BY InvAlways, <1>1, PTL DEF Spec, RecordedCidrsStay

-----------------------------------------------------------------------------
(* The size of the pool.                                                   *)

\* A set of numbers that is not empty has a least one.
LEMMA LeastNatural ==
  ASSUME NEW S \in SUBSET Nat, S # {}
  PROVE  \E least \in S : \A s \in S : least <= s
<1> DEFINE Below == {p \in Nat \X Nat : p[1] < p[2]}
<1>1. IsWellFoundedOn(Below, Nat)
  BY NatLessThanWellFounded, Zenon DEF OpToRel
<1>2. PICK least \in S : \A s \in S : <<s, least>> \notin Below
  <2> HIDE DEF Below
  <2> QED  BY <1>1, WFMin
<1>3. ASSUME NEW s \in S PROVE least <= s
  <2>1. s \in Nat /\ least \in Nat
    OBVIOUS
  <2>2. s < least => <<s, least>> \in Below
    BY <2>1
  <2> HIDE DEF Below
  <2> QED  BY <1>2, <2>1, <2>2
<1> QED  BY <1>3

\* FirstFree gives up only when every slot of the pool is used.
LEMMA AllUsed ==
  ASSUME NEW used, FirstFree(used) = 0
  PROVE  Slots \subseteq used
<1> DEFINE Free == Slots \ used
<1>1. SUFFICES ASSUME Free # {} PROVE FALSE
  OBVIOUS
<1>2. Free \in SUBSET Nat /\ 0 \notin Slots
  BY PoolAssumption DEF Slots
<1>3. PICK s \in Free : \A t \in Free : s <= t
  BY <1>1, <1>2, LeastNatural
<1>4. \A t \in 1..(s - 1) : t \in Slots /\ ~(s <= t)
  BY <1>3, PoolAssumption DEF Slots
<1>5. s \in Slots /\ IsFirstFree(s, used)
  BY <1>3, <1>4 DEF IsFirstFree
<1> QED  BY <1>2, <1>5 DEF FirstFree

\* As many clusters hold a pair as there are slots in use of either family.
LEMMA ExhaustedByHolders ==
  ASSUME NEW view, NEW slot, Slots \subseteq {slot[c] : c \in Holders(view)}
  PROVE  Cardinality(Holders(view)) >= PoolSize
<1> DEFINE used == {slot[c] : c \in Holders(view)}
<1>1. IsFiniteSet(Holders(view))
  BY ClustersAssumption, FS_Subset DEF Holders
<1>2. IsFiniteSet(used) /\ Cardinality(used) <= Cardinality(Holders(view))
  <2> DEFINE slotOf == [c \in Holders(view) |-> slot[c]]
  <2>1. slotOf \in Surjection(Holders(view), used)
    BY DEF Surjection
  <2> HIDE DEF slotOf, used
  <2> QED  BY <1>1, <2>1, FS_Surjection
<1>3. Cardinality(Slots) <= Cardinality(used)
  BY <1>2, FS_Subset
<1>4. Cardinality(Slots) = PoolSize
  BY PoolAssumption, FS_Interval DEF Slots
<1>5. IsFiniteSet(Slots)
  BY <1>2, FS_Subset
<1> QED  BY <1>1, <1>2, <1>3, <1>4, <1>5, FS_CardinalityType

\* pickFreeVNodeCIDRs finds no pair only when as many clusters hold one.
LEMMA NonePicked ==
  ASSUME NEW view, PickFreeVNodeCIDRs(view) = None
  PROVE  Cardinality(Holders(view)) >= PoolSize
<1> DEFINE pods == [c \in Clusters |-> view[c].cidrs.pod]
           svcs == [c \in Clusters |-> view[c].cidrs.svc]
           usedPods == {view[c].cidrs.pod : c \in Holders(view)}
           usedSvcs == {view[c].cidrs.svc : c \in Holders(view)}
<1>1. \A used : FirstFree(used) = 0 \/ FirstFree(used) \in Slots
  BY DEF FirstFree
<1>2. FirstFree(usedPods) = 0 \/ FirstFree(usedSvcs) = 0
  <2> DEFINE pair == [pod |-> FirstFree(usedPods), svc |-> FirstFree(usedSvcs)]
  <2>1. SUFFICES ASSUME FirstFree(usedPods) # 0, FirstFree(usedSvcs) # 0 PROVE FALSE
    OBVIOUS
  <2>2. pair \in Pairs
    BY <1>1, <2>1 DEF Pairs
  <2>3. PickFreeVNodeCIDRs(view) = pair
    BY <2>1 DEF PickFreeVNodeCIDRs
  <2> QED  BY <2>2, <2>3, NoneAssumption
<1>3. usedPods = {pods[c] : c \in Holders(view)} /\ usedSvcs = {svcs[c] : c \in Holders(view)}
  BY DEF Holders
<1>4. Slots \subseteq usedPods \/ Slots \subseteq usedSvcs
  BY <1>2, AllUsed
<1> QED
  <2> HIDE DEF pods, svcs, usedPods, usedSvcs
  <2> QED  BY <1>3, <1>4, ExhaustedByHolders

\* The pool serves as many clusters as it has slots (cidr.go:23): a pair is refused only
\* when that many clusters hold one, in the API server's list or in the operator's cache.
THEOREM PoolIsUsedUp == Spec => []PoolServesItsSize
<1>1. PoolServesItsSize
  BY NonePicked DEF PoolServesItsSize
<1> QED  BY <1>1, PTL
=============================================================================
