----------------------------- MODULE ObjectSync -----------------------------
(***************************************************************************)
(* The one-way loops of pkg/syncer/syncer.go that copy ConfigMaps          *)
(* (syncConfigMaps, syncConfigMapToHost) and Secrets (syncSecrets,         *)
(* syncSecretToHost) of a virtual cluster into its namespace on the host.  *)
(* One instance of this module is one such loop.                           *)
(*                                                                         *)
(* The virtual API server is its history of committed changes.  A watch    *)
(* opened with empty list options first delivers an ADDED event for every  *)
(* object that exists, then every later change in commit order.  When it   *)
(* closes, or the syncer restarts, the events still queued are gone and    *)
(* the loop opens a new watch; it keeps no state of its own.  The loop is  *)
(* the only writer of the host objects and handles one event at a time, so *)
(* a handler's Get followed by Create or Update is one step.  A handler    *)
(* whose call fails logs the error and goes on: the event is dropped.      *)
(*                                                                         *)
(* Abstracted: an object's content is the revision that wrote it; the      *)
(* fields only a Create copies (annotations, a Secret's type) are the      *)
(* revision of that Create, "born".                                        *)
(***************************************************************************)
EXTENDS Naturals, Sequences, FiniteSets

CONSTANTS
  Keys,        \* virtual objects: [name |-> words, ns |-> words]
  SystemKeys,  \* the objects the loop's filters skip
  NoObject,    \* the host holds no object of a name
  MaxRev,      \* bound: changes committed to the virtual cluster
  MaxFaults    \* bound: closed watches and failed calls

ASSUME KeysAssumption ==
  /\ SystemKeys \subseteq Keys
  /\ \A k \in Keys : k = [name |-> k.name, ns |-> k.ns]
ASSUME FiniteAssumption == IsFiniteSet(Keys)
ASSUME BoundsAssumption == MaxRev \in Nat /\ MaxFaults \in Nat
ASSUME NoObjectAssumption == NoObject \notin [key : Keys, rev : Nat, born : Nat]

VARIABLES
  history,   \* changes committed to the virtual API server, oldest first
  latest,    \* key -> revision of its latest change, 0 if it never had one
  watching,  \* the loop holds an open watch
  queue,     \* events delivered on the watch and not yet handled
  host,      \* host name -> the object of that name in the host namespace
  applied,   \* key -> revision of the last event its handler completed
  missed,    \* keys whose latest change the loop will not be told of again
  faults     \* closed watches and failed calls so far

vars == <<history, latest, watching, queue, host, applied, missed, faults>>

Change == [key : Keys, op : {"put", "delete"}]
Event == [type : {"ADDED", "MODIFIED", "DELETED"}, key : Keys, rev : Nat]
HostObject == [key : Keys, rev : Nat, born : Nat]

(***************************************************************************)
(* <cluster>-x-<name>-x-<namespace>.  A name is modelled by its words,     *)
(* what stands between its hyphens, which tells any two names apart; the   *)
(* separator -x- then adds the word "x".  The cluster's name is the same   *)
(* for every object of the namespace and is left out.                      *)
(***************************************************************************)
HostName(k) == k.name \o <<"x">> \o k.ns

HostNames == {HostName(k) : k \in Keys}

Exists(k) == latest[k] # 0 /\ history[latest[k]].op = "put"

\* Every variable has its type; what the host stores is a whole object built by
\* the upsert, not the event it came from.
TypeOK ==
  /\ history \in Seq(Change)
  /\ latest \in [Keys -> Nat]
  /\ watching \in BOOLEAN
  /\ queue \in Seq(Event)
  /\ host \in [HostNames -> HostObject \cup {NoObject}]
  /\ applied \in [Keys -> Nat]
  /\ missed \in SUBSET Keys
  /\ faults \in Nat

\* The syncer starts in a fresh virtual cluster, before its first watch.
Init ==
  /\ history = << >>
  /\ latest = [k \in Keys |-> 0]
  /\ watching = FALSE
  /\ queue = << >>
  /\ host = [h \in HostNames |-> NoObject]
  /\ applied = [k \in Keys |-> 0]
  /\ missed = {}
  /\ faults = 0

-----------------------------------------------------------------------------
(* The virtual API server.                                                 *)

Commit(k, op, type) ==
  LET r == Len(history) + 1 IN
  /\ Len(history) < MaxRev
  /\ history' = Append(history, [key |-> k, op |-> op])
  /\ latest' = [latest EXCEPT ![k] = r]
  /\ queue' = IF watching
              THEN Append(queue, [type |-> type, key |-> k, rev |-> r])
              ELSE queue
  /\ UNCHANGED <<watching, host, applied, faults>>

VirtualCreate(k) == ~Exists(k) /\ Commit(k, "put", "ADDED") /\ UNCHANGED missed

VirtualUpdate(k) == Exists(k) /\ Commit(k, "put", "MODIFIED") /\ UNCHANGED missed

\* Nobody will report a removal that no watch was open to see.
VirtualDelete(k) ==
  /\ Exists(k)
  /\ Commit(k, "delete", "DELETED")
  /\ missed' = IF watching THEN missed ELSE missed \cup {k}

-----------------------------------------------------------------------------
(* The watch.                                                              *)

\* Every order in which the objects of a set can be listed.
Listings(S) ==
  {s \in [1..Cardinality(S) -> S] :
     /\ \A i, j \in 1..Cardinality(S) : s[i] = s[j] => i = j
     /\ \A k \in S : \E i \in 1..Cardinality(S) : s[i] = k}

OpenWatch ==
  /\ ~watching
  /\ watching' = TRUE
  /\ \E s \in Listings({k \in Keys : Exists(k)}) :
       queue' = [i \in 1..Len(s) |->
                   [type |-> "ADDED", key |-> s[i], rev |-> latest[s[i]]]]
  /\ UNCHANGED <<history, latest, host, applied, missed, faults>>

Pending(k) == {i \in DOMAIN queue : queue[i].key = k}

\* The channel closes, or the syncer restarts.
CloseWatch ==
  /\ watching
  /\ faults < MaxFaults
  /\ faults' = faults + 1
  /\ watching' = FALSE
  /\ queue' = << >>
  /\ missed' = missed \cup {k \in Keys : Pending(k) # {} /\ ~Exists(k)}
  /\ UNCHANGED <<history, latest, host, applied>>

-----------------------------------------------------------------------------
(* The handlers.                                                           *)

\* Mutant: the event itself is stored.
UpsertedFromEvent(h, e) == e

\* Mutant: an object the host already has is left as it is, as for pods.
UpsertedOnce(h, e) ==
  IF host[h] = NoObject THEN [key |-> e.key, rev |-> e.rev, born |-> e.rev] ELSE host[h]

\* syncConfigMapToHost and syncSecretToHost: Create, or Update in place.
Upserted(h, e) ==
  [key |-> e.key, rev |-> e.rev,
   born |-> IF host[h] = NoObject THEN e.rev ELSE host[h].born]

Handled(e) ==
  /\ queue' = Tail(queue)
  /\ applied' = [applied EXCEPT ![e.key] = e.rev]
  /\ missed' = missed \ {e.key}
  /\ UNCHANGED <<history, latest, watching, faults>>

SkipSystem ==
  /\ queue # << >>
  /\ Head(queue).key \in SystemKeys
  /\ Handled(Head(queue))
  /\ UNCHANGED host

\* Mutant: only ADDED events are handled, MODIFIED ones block the queue.
HandleUpsertAdded ==
  /\ queue # << >>
  /\ Head(queue).key \notin SystemKeys
  /\ Head(queue).type = "ADDED"
  /\ LET h == HostName(Head(queue).key)
     IN host' = [host EXCEPT ![h] = Upserted(h, Head(queue))]
  /\ Handled(Head(queue))

HandleUpsert ==
  /\ queue # << >>
  /\ Head(queue).key \notin SystemKeys
  /\ Head(queue).type \in {"ADDED", "MODIFIED"}
  /\ LET h == HostName(Head(queue).key)
     IN host' = [host EXCEPT ![h] = Upserted(h, Head(queue))]
  /\ Handled(Head(queue))

\* Mutant: DELETED events are ignored, as by syncNodes.
HandleDeleteIgnored ==
  /\ queue # << >>
  /\ Head(queue).key \notin SystemKeys
  /\ Head(queue).type = "DELETED"
  /\ Handled(Head(queue))
  /\ UNCHANGED host

\* A Delete of an object the host does not have is no error.
HandleDelete ==
  /\ queue # << >>
  /\ Head(queue).key \notin SystemKeys
  /\ Head(queue).type = "DELETED"
  /\ host' = [host EXCEPT ![HostName(Head(queue).key)] = NoObject]
  /\ Handled(Head(queue))

\* Get, Create, Update or Delete fails; the error is logged.
HandleFailure ==
  /\ queue # << >>
  /\ Head(queue).key \notin SystemKeys
  /\ faults < MaxFaults
  /\ faults' = faults + 1
  /\ queue' = Tail(queue)
  /\ missed' = missed \cup {Head(queue).key}
  /\ UNCHANGED <<history, latest, watching, host, applied>>

-----------------------------------------------------------------------------

Environment ==
  \/ \E k \in Keys : VirtualCreate(k) \/ VirtualUpdate(k) \/ VirtualDelete(k)
  \/ CloseWatch
  \/ HandleFailure

Loop == OpenWatch \/ SkipSystem \/ HandleUpsert \/ HandleDelete

Next == Environment \/ Loop

Spec == Init /\ [][Next]_vars

\* The loop always takes its next event or reopens its watch; nothing obliges
\* the users to write or the calls to fail.
FairSpec == Spec /\ WF_vars(Loop)

-----------------------------------------------------------------------------
(* Properties.                                                             *)

\* The mirrored objects that share their host name with no other: all of them when
\* no name, or no namespace, has a word "x" (ObjectSync_proofs), which the code does
\* not check.  Objects that meet on the host overwrite and delete one another's copy.
Separate ==
  {k \in Keys \ SystemKeys :
     \A j \in Keys \ SystemKeys : HostName(j) = HostName(k) => j = k}

\* The revision the host's copy of k carries, 0 if the host has no copy of k.
HostRev(k) ==
  LET o == host[HostName(k)]
  IN IF o = NoObject THEN 0 ELSE IF o.key = k THEN o.rev ELSE 0

VirtualRev(k) == IF Exists(k) THEN latest[k] ELSE 0

\* While the watch is open, an object with no event queued has on the host
\* exactly its present state, and no copy if it is gone, unless its latest
\* change fell into a closed watch or a failed call.  In particular reopening
\* the watch (watchWithRetry) repairs every object that still exists, and no object
\* the loop writes under another host name disturbs it.
Coherent ==
  \A k \in Separate :
    watching /\ Pending(k) = {} /\ k \notin missed => HostRev(k) = VirtualRev(k)

\* Without faults the fields that only a Create copies (annotations, a Secret's
\* type) come from the incarnation of the object the host's data comes from:
\* an object deleted and created again is created again on the host.
SameIncarnation ==
  faults = 0 =>
    \A k \in Separate :
      LET o == host[HostName(k)]
      IN o # NoObject =>
           \A r \in o.born..o.rev : ~(history[r].key = k /\ history[r].op = "delete")

\* The r-th change, or a later one of its object, is on the host, or the object's latest
\* change was lost to a fault.
Arrived(r) ==
  /\ r <= Len(history)
  /\ LET k == history[r].key IN k \in SystemKeys \/ applied[k] >= r \/ k \in missed

\* Every write of an object reaches the host, or is overtaken by a later one that does,
\* unless it was lost to a fault.
WritesArrive == \A r \in 1..MaxRev : Len(history) = r ~> Arrived(r)

\* "Resources created inside the virtual cluster appear in the host namespace"
\* (README.md:53): with everything handled and no fault, every object the filters
\* let through has its copy.  Two objects can share a host name, and then the
\* second overwrites the first.
ResourcesAppear ==
  watching /\ queue = << >> /\ faults = 0 =>
    \A k \in Keys \ SystemKeys : Exists(k) => HostRev(k) # 0

\* The loop implements the one-way mirror: what the host holds for an object is
\* a state the object had, and it never goes back to an older one.
M == INSTANCE Mirror WITH
       Mirrored <- Separate,
       position <- [k \in Separate |-> applied[k]],
       replica <- [k \in Separate |-> HostRev(k)]

ImplementsMirror == M!Spec
=============================================================================
