-------------------------- MODULE ObjectSync_proofs --------------------------
(***************************************************************************)
(* Theorems about ObjectSync, for every set of objects and every bound.    *)
(*                                                                         *)
(* The inductive invariant relates three places a change can be: in the    *)
(* history, in the queue, and applied to the host.  Its heart is Caught:   *)
(* an object without queued events has been carried to its latest change   *)
(* unless that change is among the missed ones.  Coherent alone is not     *)
(* inductive: it says nothing while the watch is closed, and nothing of    *)
(* what the queued events will do.                                         *)
(***************************************************************************)
EXTENDS ObjectSync, FiniteSetTheorems, SequenceTheorems, TLAPS

\* The latest change of every object is where "latest" says.
HistoryInv ==
  /\ \A k \in Keys :
       /\ latest[k] \in 0..Len(history)
       /\ latest[k] # 0 => history[latest[k]].key = k
  /\ \A r \in 1..Len(history) : r <= latest[history[r].key]

\* A queued event reports a committed change, and none already passed by.
EventInv ==
  \A i \in 1..Len(queue) :
    /\ queue[i].rev \in 1..Len(history)
    /\ history[queue[i].rev].key = queue[i].key
    /\ queue[i].type = "DELETED" <=> history[queue[i].rev].op = "delete"
    /\ applied[queue[i].key] <= queue[i].rev

\* Events of one object are queued in the order of its changes.
OrderInv ==
  \A i, j \in 1..Len(queue) :
    i <= j /\ queue[i].key = queue[j].key => queue[i].rev <= queue[j].rev

\* A closed watch holds no events.
ClosedInv == ~watching => queue = << >>

\* What was applied to an object is a change of that object.
AppliedInv ==
  \A k \in Keys :
    /\ applied[k] \in 0..Len(history)
    /\ applied[k] # 0 => history[applied[k]].key = k

\* The last event queued for an object reports its latest change.
LastInv ==
  \A k \in Keys, i \in 1..Len(queue) :
    /\ queue[i].key = k
    /\ \A j \in 1..Len(queue) : queue[j].key = k => j <= i
    => queue[i].rev = latest[k]

\* An object with no event queued and none lost was carried over up to its
\* latest change.
Caught ==
  \A k \in Keys :
    /\ k \notin missed
    /\ \A i \in 1..Len(queue) : queue[i].key # k
    /\ watching \/ ~Exists(k)
    => applied[k] = latest[k]

\* What the loop knows: the part of the invariant that host names play no part in.
LoopInv ==
  /\ TypeOK
  /\ HistoryInv
  /\ EventInv
  /\ OrderInv
  /\ ClosedInv
  /\ AppliedInv
  /\ LastInv
  /\ Caught

\* The host holds of every object with a host name of its own what its last applied
\* change left there.
HostInv ==
  \A k \in Separate :
    LET o == host[HostName(k)]
    IN IF applied[k] = 0 \/ history[applied[k]].op = "delete"
       THEN o = NoObject
       ELSE o # NoObject /\ o.key = k /\ o.rev = applied[k]

\* The inductive invariant.
IInv == LoopInv /\ HostInv

\* Without faults the watch is open since the first thing was applied, so a deletion
\* that is newer than what was applied, or than a queued event, is in the queue.
Queued(r) == \E i \in 1..Len(queue) : queue[i].rev = r

DeletionsQueued ==
  /\ ~watching => \A k \in Keys : applied[k] = 0
  /\ \A r \in 1..Len(history) : history[r].op = "delete" =>
       /\ applied[history[r].key] \in 1..(r - 1) => Queued(r)
       /\ \A i \in 1..Len(queue) : queue[i].key = history[r].key /\ queue[i].rev < r => Queued(r)

Born == \A k \in Separate : host[HostName(k)] # NoObject => host[HostName(k)].born > 0

IncarnationInv == faults = 0 => DeletionsQueued /\ Born /\ SameIncarnation

-----------------------------------------------------------------------------

\* HostName only returns names of the set the host is a function on.
LEMMA HostNameType == \A k \in Keys : HostName(k) \in HostNames
BY DEF HostNames

\* The loop starts with nothing committed, queued or applied.
LEMMA InitLoopInv == Init => LoopInv
<1> SUFFICES ASSUME Init PROVE LoopInv
  OBVIOUS
<1>1. TypeOK
  <2>1. history \in Seq(Change) /\ queue \in Seq(Event)
    BY DEF Init
  <2>2. latest \in [Keys -> Nat] /\ applied \in [Keys -> Nat]
    BY DEF Init
  <2>3. host \in [HostNames -> HostObject \cup {NoObject}]
    BY DEF Init
  <2>4. watching \in BOOLEAN /\ missed \in SUBSET Keys /\ faults \in Nat
    BY DEF Init
  <2> QED BY <2>1, <2>2, <2>3, <2>4 DEF TypeOK
<1>2. Len(history) = 0 /\ Len(queue) = 0
  BY DEF Init
<1>3. HistoryInv /\ EventInv /\ OrderInv /\ LastInv
  BY <1>2 DEF Init, HistoryInv, EventInv, OrderInv, LastInv
<1>4. ClosedInv /\ AppliedInv /\ Caught
  BY <1>2 DEF Init, ClosedInv, AppliedInv, Caught
<1> QED BY <1>1, <1>3, <1>4 DEF LoopInv

\* A commit extends the history, and the queue if the watch is open.
LEMMA CommitStep ==
  ASSUME LoopInv, NEW k \in Keys, NEW op \in {"put", "delete"},
         NEW type \in {"ADDED", "MODIFIED", "DELETED"},
         Commit(k, op, type),
         type = "DELETED" <=> op = "delete",
         missed' = IF op = "delete" /\ ~watching THEN missed \cup {k} ELSE missed
  PROVE  LoopInv'
<1> DEFINE r == Len(history) + 1
<1> DEFINE c == [key |-> k, op |-> op]
<1> DEFINE e == [type |-> type, key |-> k, rev |-> r]
<1> USE DEF LoopInv
<1>1. /\ history' = Append(history, c)
      /\ latest' = [latest EXCEPT ![k] = r]
      /\ queue' = IF watching THEN Append(queue, e) ELSE queue
      /\ UNCHANGED <<watching, host, applied, faults>>
  BY DEF Commit
<1>2. TypeOK /\ c \in Change /\ r \in Nat /\ e \in Event
  BY DEF TypeOK, Change, Event
<1>3. TypeOK'
  BY <1>1, <1>2 DEF TypeOK
<1>4. /\ Len(history') = r
      /\ \A i \in 1..Len(history) : history'[i] = history[i]
      /\ history'[r] = c
  BY <1>1, <1>2 DEF TypeOK
<1>5. /\ \A i \in 1..Len(queue) : queue'[i] = queue[i]
      /\ watching => Len(queue') = Len(queue) + 1 /\ queue'[Len(queue) + 1] = e
      /\ ~watching => queue' = queue
  BY <1>1, <1>2 DEF TypeOK
<1>6. /\ latest'[k] = r
      /\ \A l \in Keys : l # k => latest'[l] = latest[l]
  BY <1>1, <1>2 DEF TypeOK
<1>7. \A i \in 1..Len(history) : history[i] \in Change
  BY <1>2 DEF TypeOK
<1>8. \A i \in 1..Len(queue) : queue[i] \in Event
  BY <1>2 DEF TypeOK
<1>9. Len(history) \in Nat /\ Len(queue) \in Nat
  BY <1>2 DEF TypeOK
<1> HIDE DEF r, c, e
<1>10. HistoryInv'
  <2>1. \A l \in Keys : /\ latest'[l] \in 0..Len(history')
                        /\ latest'[l] # 0 => history'[latest'[l]].key = l
    BY <1>4, <1>6, <1>9 DEF HistoryInv, r, c
  <2>2. ASSUME NEW i \in 1..Len(history') PROVE i <= latest'[history'[i].key]
    <3>1. CASE i = r
      BY <3>1, <1>4, <1>6, <1>9 DEF r, c
    <3>2. CASE i # r
      BY <3>2, <1>4, <1>6, <1>7, <1>9 DEF HistoryInv, r, Change
    <3> QED BY <3>1, <3>2
  <2> QED BY <2>1, <2>2 DEF HistoryInv
<1>11. AppliedInv'
  BY <1>1, <1>4, <1>9 DEF AppliedInv, r
<1>12. EventInv'
  <2> SUFFICES ASSUME NEW i \in 1..Len(queue')
               PROVE  /\ queue'[i].rev \in 1..Len(history')
                      /\ history'[queue'[i].rev].key = queue'[i].key
                      /\ queue'[i].type = "DELETED" <=> history'[queue'[i].rev].op = "delete"
                      /\ applied'[queue'[i].key] <= queue'[i].rev
    BY DEF EventInv
  <2>1. CASE i \in 1..Len(queue)
    BY <2>1, <1>1, <1>4, <1>5, <1>8, <1>9 DEF EventInv, r
  <2>2. CASE i \notin 1..Len(queue)
    <3>1. watching /\ queue'[i] = e
      BY <2>2, <1>5, <1>9
    <3> QED BY <3>1, <1>1, <1>4, <1>9 DEF AppliedInv, r, c, e
  <2> QED BY <2>1, <2>2
<1>13. OrderInv'
  <2> SUFFICES ASSUME NEW i \in 1..Len(queue'), NEW j \in 1..Len(queue'),
                      i <= j, queue'[i].key = queue'[j].key
               PROVE  queue'[i].rev <= queue'[j].rev
    BY DEF OrderInv
  <2>1. CASE j \in 1..Len(queue)
    BY <2>1, <1>5, <1>9 DEF OrderInv
  <2>2. CASE j \notin 1..Len(queue)
    <3>1. queue'[j].rev = r
      BY <2>2, <1>5, <1>9 DEF e
    <3> QED BY <3>1, <1>4, <1>12, <1>9 DEF EventInv, r
  <2> QED BY <2>1, <2>2
<1>14. ClosedInv'
  BY <1>1, <1>5 DEF ClosedInv
<1>15. LastInv'
  <2> SUFFICES ASSUME NEW l \in Keys, NEW i \in 1..Len(queue'),
                      queue'[i].key = l,
                      \A j \in 1..Len(queue') : queue'[j].key = l => j <= i
               PROVE  queue'[i].rev = latest'[l]
    BY DEF LastInv
  <2>1. watching
    BY <1>5, <1>9 DEF ClosedInv
  <2>2. CASE l = k
    BY <2>1, <2>2, <1>5, <1>6, <1>9 DEF e
  <2>3. CASE l # k
    <3>1. i \in 1..Len(queue)
      BY <2>1, <2>3, <1>5, <1>9 DEF e
    <3> QED BY <3>1, <2>1, <2>3, <1>5, <1>6, <1>9 DEF LastInv
  <2> QED BY <2>2, <2>3
<1>16. Caught'
  <2> SUFFICES ASSUME NEW l \in Keys, l \notin missed',
                      \A i \in 1..Len(queue') : queue'[i].key # l,
                      watching' \/ ~Exists(l)'
               PROVE  applied'[l] = latest'[l]
    BY DEF Caught
  <2>1. l # k
    <3> SUFFICES ASSUME l = k PROVE FALSE
      OBVIOUS
    <3>1. ~watching
      BY <1>5, <1>9 DEF e
    <3>2. op = "delete"
      BY <3>1, <1>1, <1>4, <1>6, <1>9 DEF Exists, r, c
    <3> QED BY <3>1, <3>2
  <2>2. l \notin missed
    OBVIOUS
  <2>3. \A i \in 1..Len(queue) : queue[i].key # l
    BY <1>5, <1>9
  <2>4. watching \/ ~Exists(l)
    <3>1. Exists(l)' <=> Exists(l)
      BY <2>1, <1>4, <1>6, <1>9 DEF Exists, HistoryInv
    <3> QED BY <3>1, <1>1
  <2> QED BY <2>1, <2>2, <2>3, <2>4, <1>1, <1>6 DEF Caught
<1> QED BY <1>3, <1>10, <1>11, <1>12, <1>13, <1>14, <1>15, <1>16

\* What taking the first event leaves of the queue.
LEMMA TailOfQueue ==
  ASSUME TypeOK, queue # << >>, queue' = Tail(queue)
  PROVE  /\ Len(queue) \in Nat \ {0}
         /\ Head(queue) = queue[1]
         /\ Head(queue) \in Event
         /\ queue' \in Seq(Event)
         /\ Len(queue') = Len(queue) - 1
         /\ \A i \in 1..Len(queue') : queue'[i] = queue[i + 1]
BY DEF TypeOK

\* Dropping the first event keeps what is known of the others.
LEMMA DequeueStep ==
  ASSUME LoopInv, queue # << >>, queue' = Tail(queue),
         UNCHANGED <<history, latest, watching>>
  PROVE  HistoryInv' /\ OrderInv' /\ ClosedInv' /\ LastInv'
<1> USE DEF LoopInv
<1>1. /\ Len(queue) \in Nat \ {0}
      /\ Len(queue') = Len(queue) - 1
      /\ \A i \in 1..Len(queue') : queue'[i] = queue[i + 1]
  BY TailOfQueue
<1>2. HistoryInv'
  BY DEF HistoryInv
<1>3. OrderInv'
  <2> SUFFICES ASSUME NEW i \in 1..Len(queue'), NEW j \in 1..Len(queue'),
                      i <= j, queue'[i].key = queue'[j].key
               PROVE  queue'[i].rev <= queue'[j].rev
    BY DEF OrderInv
  <2>1. i + 1 \in 1..Len(queue) /\ j + 1 \in 1..Len(queue) /\ i + 1 <= j + 1
    BY <1>1
  <2> QED BY <2>1, <1>1 DEF OrderInv
<1>4. ClosedInv'
  BY DEF ClosedInv
<1>5. LastInv'
  <2> SUFFICES ASSUME NEW l \in Keys, NEW i \in 1..Len(queue'),
                      queue'[i].key = l,
                      \A j \in 1..Len(queue') : queue'[j].key = l => j <= i
               PROVE  queue'[i].rev = latest[l]
    BY DEF LastInv
  <2>1. i + 1 \in 1..Len(queue) /\ queue[i + 1].key = l
    BY <1>1
  <2>2. ASSUME NEW j \in 1..Len(queue), queue[j].key = l PROVE j <= i + 1
    <3>1. CASE j = 1
      BY <3>1, <1>1
    <3>2. CASE j # 1
      <4>1. j - 1 \in 1..Len(queue') /\ queue'[j - 1] = queue[j]
        BY <3>2, <1>1
      <4>2. queue'[j - 1].key = l
        BY <4>1, <2>2
      <4>3. j - 1 <= i
        BY <4>1, <4>2
      <4> QED BY <4>3, <1>1
    <3> QED BY <3>1, <3>2
  <2> QED BY <2>1, <2>2, <1>1 DEF LastInv
<1> QED BY <1>2, <1>3, <1>4, <1>5

\* A completed handler.
LEMMA HandledStep ==
  ASSUME LoopInv, queue # << >>, Handled(Head(queue)),
         host' \in [HostNames -> HostObject \cup {NoObject}]
  PROVE  LoopInv'
<1> DEFINE e == Head(queue)
<1> USE DEF LoopInv
<1>1. /\ queue' = Tail(queue)
      /\ applied' = [applied EXCEPT ![e.key] = e.rev]
      /\ missed' = missed \ {e.key}
      /\ UNCHANGED <<history, latest, watching, faults>>
  BY DEF Handled
<1>2. /\ Len(queue) \in Nat \ {0}
      /\ e = queue[1] /\ e \in Event
      /\ queue' \in Seq(Event)
      /\ Len(queue') = Len(queue) - 1
      /\ \A i \in 1..Len(queue') : queue'[i] = queue[i + 1]
  BY <1>1, TailOfQueue
<1>3. \A i \in 1..Len(queue) : queue[i] \in Event
  BY DEF TypeOK
<1> HIDE DEF e
<1>4. e.key \in Keys /\ e.rev \in 1..Len(history) /\ history[e.rev].key = e.key
  BY <1>2 DEF EventInv, Event
<1>5. /\ applied'[e.key] = e.rev
      /\ \A l \in Keys : l # e.key => applied'[l] = applied[l]
  BY <1>1, <1>4 DEF TypeOK
<1>6. TypeOK'
  BY <1>1, <1>2, <1>4 DEF TypeOK
<1>7. HistoryInv' /\ OrderInv' /\ ClosedInv' /\ LastInv'
  BY <1>1, DequeueStep
<1>8. AppliedInv'
  BY <1>1, <1>4, <1>5 DEF AppliedInv
<1>9. EventInv'
  <2> SUFFICES ASSUME NEW i \in 1..Len(queue')
               PROVE  /\ queue'[i].rev \in 1..Len(history)
                      /\ history[queue'[i].rev].key = queue'[i].key
                      /\ queue'[i].type = "DELETED" <=> history[queue'[i].rev].op = "delete"
                      /\ applied'[queue'[i].key] <= queue'[i].rev
    BY <1>1 DEF EventInv
  <2>1. i + 1 \in 1..Len(queue) /\ queue'[i] = queue[i + 1] /\ 1 <= i + 1
    BY <1>2
  <2>2. queue'[i].key = e.key => e.rev <= queue'[i].rev
    BY <2>1, <1>2 DEF OrderInv
  <2>3. queue'[i].key \in Keys
    BY <2>1, <1>3 DEF Event
  <2> QED BY <2>1, <2>2, <2>3, <1>5 DEF EventInv
<1>10. Caught'
  <2> SUFFICES ASSUME NEW l \in Keys, l \notin missed',
                      \A i \in 1..Len(queue') : queue'[i].key # l,
                      watching \/ ~Exists(l)
               PROVE  applied'[l] = latest[l]
    BY <1>1 DEF Caught, Exists
  <2>1. ASSUME NEW i \in 1..Len(queue), queue[i].key = l PROVE i = 1
    <3> SUFFICES ASSUME i # 1 PROVE FALSE
      OBVIOUS
    <3>1. i - 1 \in 1..Len(queue') /\ queue'[i - 1] = queue[i]
      BY <1>2
    <3> QED BY <3>1, <2>1
  <2>2. CASE l = e.key
    <3>1. e.rev = latest[l]
      BY <2>1, <2>2, <1>2 DEF LastInv
    <3> QED BY <3>1, <2>2, <1>5
  <2>3. CASE l # e.key
    <3>1. l \notin missed
      BY <2>3, <1>1
    <3>2. \A i \in 1..Len(queue) : queue[i].key # l
      BY <2>1, <2>3, <1>2
    <3> QED BY <3>1, <3>2, <2>3, <1>5 DEF Caught
  <2> QED BY <2>2, <2>3
<1> QED BY <1>6, <1>7, <1>8, <1>9, <1>10

\* A failed handler.
LEMMA FailureStep ==
  ASSUME LoopInv, HandleFailure
  PROVE  LoopInv'
<1> DEFINE e == Head(queue)
<1> USE DEF LoopInv
<1>1. /\ queue # << >>
      /\ queue' = Tail(queue)
      /\ missed' = missed \cup {e.key}
      /\ faults' = faults + 1
      /\ UNCHANGED <<history, latest, watching, host, applied>>
  BY DEF HandleFailure
<1>2. /\ Len(queue) \in Nat \ {0}
      /\ e = queue[1] /\ e \in Event
      /\ queue' \in Seq(Event)
      /\ Len(queue') = Len(queue) - 1
      /\ \A i \in 1..Len(queue') : queue'[i] = queue[i + 1]
  BY <1>1, TailOfQueue
<1> HIDE DEF e
<1>3. TypeOK'
  BY <1>1, <1>2 DEF TypeOK, Event
<1>4. HistoryInv' /\ OrderInv' /\ ClosedInv' /\ LastInv'
  BY <1>1, DequeueStep
<1>5. AppliedInv'
  BY <1>1 DEF AppliedInv
<1>6. EventInv'
  BY <1>1, <1>2 DEF EventInv
<1>7. Caught'
  <2> SUFFICES ASSUME NEW l \in Keys, l \notin missed',
                      \A i \in 1..Len(queue') : queue'[i].key # l,
                      watching \/ ~Exists(l)
               PROVE  applied[l] = latest[l]
    BY <1>1 DEF Caught, Exists
  <2>1. ASSUME NEW i \in 1..Len(queue) PROVE queue[i].key # l
    <3>1. CASE i = 1
      BY <3>1, <1>1, <1>2
    <3>2. CASE i # 1
      <4>1. i - 1 \in 1..Len(queue') /\ queue'[i - 1] = queue[i]
        BY <3>2, <1>2
      <4> QED BY <4>1
    <3> QED BY <3>1, <3>2
  <2> QED BY <2>1, <1>1 DEF Caught
<1> QED BY <1>3, <1>4, <1>5, <1>6, <1>7

\* What was carried over of an object is never newer than its latest change.
LEMMA AppliedBehind ==
  ASSUME LoopInv
  PROVE  \A k \in Keys : applied[k] <= latest[k]
<1> USE DEF LoopInv
<1> SUFFICES ASSUME NEW k \in Keys PROVE applied[k] <= latest[k]
  OBVIOUS
<1>1. applied[k] \in 0..Len(history) /\ latest[k] \in Nat /\ Len(history) \in Nat
  BY DEF AppliedInv, TypeOK
<1>2. CASE applied[k] = 0
  BY <1>1, <1>2
<1>3. CASE applied[k] # 0
  <2>1. history[applied[k]].key = k /\ applied[k] \in 1..Len(history)
    BY <1>1, <1>3 DEF AppliedInv
  <2>2. applied[k] <= latest[history[applied[k]].key]
    BY <2>1 DEF HistoryInv
  <2> QED BY <2>1, <2>2
<1> QED BY <1>2, <1>3

\* A new watch lists every object that exists, each at its latest revision.
LEMMA OpenStep ==
  ASSUME LoopInv, OpenWatch
  PROVE  LoopInv'
<1> DEFINE S == {k \in Keys : Exists(k)}
<1> USE DEF LoopInv
<1>1. /\ ~watching /\ watching'
      /\ UNCHANGED <<history, latest, host, applied, missed, faults>>
  BY DEF OpenWatch
<1>2. PICK s \in Listings(S) :
        queue' = [i \in 1..Len(s) |->
                    [type |-> "ADDED", key |-> s[i], rev |-> latest[s[i]]]]
  BY DEF OpenWatch
<1>3. Cardinality(S) \in Nat
  BY FiniteAssumption, FS_Subset, FS_CardinalityType
<1> DEFINE n == Cardinality(S)
<1>4. /\ s \in [1..n -> S]
      /\ \A i, j \in 1..n : s[i] = s[j] => i = j
      /\ \A k \in S : \E i \in 1..n : s[i] = k
  BY <1>2 DEF Listings
<1> HIDE DEF n, S
<1>5. Len(s) = n /\ n \in Nat
  BY <1>3, <1>4 DEF n
<1>6. \A i \in 1..n : /\ s[i] \in Keys /\ Exists(s[i])
                      /\ latest[s[i]] \in 1..Len(history)
                      /\ history[latest[s[i]]].key = s[i]
                      /\ history[latest[s[i]]].op = "put"
                      /\ applied[s[i]] <= latest[s[i]]
  <2> SUFFICES ASSUME NEW i \in 1..n
               PROVE  /\ s[i] \in Keys /\ Exists(s[i])
                      /\ latest[s[i]] \in 1..Len(history)
                      /\ history[latest[s[i]]].key = s[i]
                      /\ history[latest[s[i]]].op = "put"
                      /\ applied[s[i]] <= latest[s[i]]
    OBVIOUS
  <2>1. s[i] \in Keys /\ Exists(s[i])
    BY <1>4 DEF S
  <2>2. latest[s[i]] \in 1..Len(history) /\ history[latest[s[i]]].key = s[i]
    BY <2>1 DEF HistoryInv, Exists, TypeOK
  <2>3. applied[s[i]] <= latest[s[i]]
    BY <2>1, AppliedBehind
  <2> QED BY <2>1, <2>2, <2>3 DEF Exists
<1>7. /\ Len(queue') = n
      /\ \A i \in 1..n : queue'[i] = [type |-> "ADDED", key |-> s[i], rev |-> latest[s[i]]]
  BY <1>2, <1>5
<1>8. queue' \in Seq(Event)
  <2>1. queue' \in [1..n -> Event]
    BY <1>2, <1>5, <1>6 DEF Event
  <2> QED BY <2>1, <1>5
<1>9. TypeOK'
  BY <1>1, <1>8 DEF TypeOK
<1>10. HistoryInv' /\ AppliedInv' /\ ClosedInv'
  BY <1>1 DEF HistoryInv, AppliedInv, ClosedInv
<1>11. EventInv'
  BY <1>1, <1>6, <1>7 DEF EventInv
<1>12. OrderInv'
  BY <1>4, <1>5, <1>6, <1>7, <1>1 DEF OrderInv, HistoryInv, TypeOK
<1>13. LastInv'
  BY <1>1, <1>7 DEF LastInv
<1>14. Caught'
  <2> SUFFICES ASSUME NEW l \in Keys, l \notin missed,
                      \A i \in 1..Len(queue') : queue'[i].key # l
               PROVE  applied[l] = latest[l]
    BY <1>1 DEF Caught, Exists
  <2>1. ~Exists(l)
    BY <1>4, <1>7 DEF S
  <2>2. Len(queue) = 0
    BY <1>1 DEF ClosedInv
  <2> QED BY <2>1, <2>2 DEF Caught
<1> QED BY <1>9, <1>10, <1>11, <1>12, <1>13, <1>14

\* A closed watch forgets its events; removals among them are lost for good.
LEMMA CloseStep ==
  ASSUME LoopInv, CloseWatch
  PROVE  LoopInv'
<1> USE DEF LoopInv
<1>1. /\ watching /\ watching' = FALSE /\ queue' = << >>
      /\ missed' = missed \cup {k \in Keys : Pending(k) # {} /\ ~Exists(k)}
      /\ faults' = faults + 1
      /\ UNCHANGED <<history, latest, host, applied>>
  BY DEF CloseWatch
<1>2. queue' \in Seq(Event) /\ Len(queue') = 0
  BY <1>1
<1>3. TypeOK'
  <2> DEFINE G == {k \in Keys : Pending(k) # {} /\ ~Exists(k)}
  <2>1. G \subseteq Keys
    OBVIOUS
  <2>2. missed' = missed \cup G
    BY <1>1
  <2> HIDE DEF G
  <2>3. missed' \in SUBSET Keys
    BY <2>1, <2>2 DEF TypeOK
  <2>4. watching' \in BOOLEAN
    BY <1>1
  <2>5. faults' \in Nat
    BY <1>1 DEF TypeOK
  <2> QED BY <1>1, <1>2, <2>3, <2>4, <2>5 DEF TypeOK
<1>4. HistoryInv' /\ AppliedInv' /\ ClosedInv'
  BY <1>1 DEF HistoryInv, AppliedInv, ClosedInv
<1>5. EventInv' /\ OrderInv' /\ LastInv'
  BY <1>2 DEF EventInv, OrderInv, LastInv
<1>6. Caught'
  <2> SUFFICES ASSUME NEW l \in Keys, l \notin missed', ~Exists(l)
               PROVE  applied[l] = latest[l]
    BY <1>1 DEF Caught, Exists
  <2>1. l \notin missed /\ Pending(l) = {}
    BY <1>1
  <2>2. \A i \in 1..Len(queue) : queue[i].key # l
    BY <2>1 DEF Pending, TypeOK
  <2> QED BY <2>1, <2>2 DEF Caught
<1> QED BY <1>3, <1>4, <1>5, <1>6

\* Every step of the specification keeps what the loop knows consistent.
LEMMA NextLoopInv ==
  ASSUME LoopInv, [Next]_vars
  PROVE  LoopInv'
<1> USE DEF LoopInv
<1>1. ASSUME NEW k \in Keys, VirtualCreate(k) PROVE LoopInv'
  BY <1>1, CommitStep DEF VirtualCreate
<1>2. ASSUME NEW k \in Keys, VirtualUpdate(k) PROVE LoopInv'
  BY <1>2, CommitStep DEF VirtualUpdate
<1>3. ASSUME NEW k \in Keys, VirtualDelete(k) PROVE LoopInv'
  BY <1>3, CommitStep DEF VirtualDelete
<1>4. CASE SkipSystem
  BY <1>4, HandledStep DEF SkipSystem, TypeOK
<1>5. CASE HandleUpsert
  <2> DEFINE e == Head(queue)  h == HostName(e.key)
  <2>1. e \in Event /\ queue # << >>
    BY <1>5, TailOfQueue DEF HandleUpsert, Handled
  <2>2. h \in HostNames
    BY <2>1, HostNameType DEF Event
  <2>3. Upserted(h, e) \in HostObject
    BY <2>1, <2>2 DEF Upserted, TypeOK, HostObject, Event
  <2>4. host' \in [HostNames -> HostObject \cup {NoObject}]
    BY <1>5, <2>3 DEF HandleUpsert, TypeOK
  <2> QED BY <1>5, <2>1, <2>4, HandledStep DEF HandleUpsert
<1>6. CASE HandleDelete
  <2>1. host' \in [HostNames -> HostObject \cup {NoObject}]
    BY <1>6 DEF HandleDelete, TypeOK
  <2> QED BY <1>6, <2>1, HandledStep DEF HandleDelete
<1>7. CASE UNCHANGED vars
  BY <1>7 DEF vars, TypeOK, HistoryInv, EventInv, OrderInv, ClosedInv, AppliedInv,
     LastInv, Caught, Exists
<1> QED
  BY <1>1, <1>2, <1>3, <1>4, <1>5, <1>6, <1>7, OpenStep, CloseStep, FailureStep
  DEF Next, Environment, Loop

(***************************************************************************)
(* What the loop does to the host.                                         *)
(***************************************************************************)

\* The host namespace starts empty.
LEMMA InitHostInv == Init => HostInv
BY HostNameType DEF Init, HostInv, Separate

\* Handling ADDED or MODIFIED leaves the event's state on the host and no other
\* object's copy touched (syncConfigMapToHost, syncSecretToHost).
LEMMA UpsertHostInv ==
  ASSUME IInv, HandleUpsert
  PROVE  HostInv'
<1> DEFINE e == Head(queue)
<1> USE DEF IInv, LoopInv
<1>1. /\ e \in Event /\ queue # << >> /\ e = queue[1] /\ Len(queue) \in Nat \ {0}
      /\ applied' = [applied EXCEPT ![e.key] = e.rev]
      /\ history' = history
      /\ host' = [host EXCEPT ![HostName(e.key)] = Upserted(HostName(e.key), e)]
      /\ e.key \notin SystemKeys
      /\ e.type # "DELETED"
  BY TailOfQueue DEF HandleUpsert, Handled, Event
<1> HIDE DEF e
<1>2. e.key \in Keys /\ e.rev \in 1..Len(history) /\ history[e.rev].op # "delete"
  BY <1>1 DEF EventInv, Event
<1>3. HostName(e.key) \in HostNames
  BY <1>2, HostNameType
<1> DEFINE u == Upserted(HostName(e.key), e)
<1>4. u \in HostObject /\ u.key = e.key /\ u.rev = e.rev
  BY <1>1, <1>3 DEF Upserted, HostObject, Event, TypeOK
<1>5. u # NoObject
  BY <1>4, NoObjectAssumption DEF HostObject
<1> HIDE DEF u
<1>6. host'[HostName(e.key)] = u
  BY <1>1, <1>3 DEF TypeOK, u
<1> SUFFICES ASSUME NEW k \in Separate
             PROVE  LET o == host'[HostName(k)]
                    IN IF applied'[k] = 0 \/ history[applied'[k]].op = "delete"
                       THEN o = NoObject
                       ELSE o # NoObject /\ o.key = k /\ o.rev = applied'[k]
  BY <1>1 DEF HostInv
<1> k \in Keys \ SystemKeys
  BY DEF Separate
<1>7. CASE k = e.key
  <2>1. applied'[k] = e.rev /\ e.rev # 0
    BY <1>7, <1>1, <1>2 DEF TypeOK
  <2> QED BY <2>1, <1>1, <1>2, <1>4, <1>5, <1>6, <1>7
<1>8. CASE k # e.key
  <2>1. HostName(k) # HostName(e.key)
    BY <1>8, <1>1, <1>2 DEF Separate
  <2>2. host'[HostName(k)] = host[HostName(k)]
    BY <2>1, <1>1, <1>3, HostNameType DEF TypeOK
  <2>3. applied'[k] = applied[k]
    BY <1>8, <1>1, <1>2 DEF TypeOK
  <2> QED BY <2>2, <2>3 DEF HostInv
<1> QED BY <1>7, <1>8

\* Handling DELETED removes the object's copy and no other.
LEMMA DeleteHostInv ==
  ASSUME IInv, HandleDelete
  PROVE  HostInv'
<1> DEFINE e == Head(queue)
<1> USE DEF IInv, LoopInv
<1>1. /\ e \in Event /\ queue # << >> /\ e = queue[1] /\ Len(queue) \in Nat \ {0}
      /\ applied' = [applied EXCEPT ![e.key] = e.rev]
      /\ history' = history
      /\ host' = [host EXCEPT ![HostName(e.key)] = NoObject]
      /\ e.type = "DELETED" /\ e.key \notin SystemKeys
  BY TailOfQueue DEF HandleDelete, Handled, Event
<1> HIDE DEF e
<1>2. e.key \in Keys /\ e.rev \in 1..Len(history) /\ history[e.rev].op = "delete"
  BY <1>1 DEF EventInv, Event
<1>3. HostName(e.key) \in HostNames
  BY <1>2, HostNameType
<1>4. host'[HostName(e.key)] = NoObject
  BY <1>1, <1>3 DEF TypeOK
<1> SUFFICES ASSUME NEW k \in Separate
             PROVE  LET o == host'[HostName(k)]
                    IN IF applied'[k] = 0 \/ history[applied'[k]].op = "delete"
                       THEN o = NoObject
                       ELSE o # NoObject /\ o.key = k /\ o.rev = applied'[k]
  BY <1>1 DEF HostInv
<1> k \in Keys \ SystemKeys
  BY DEF Separate
<1>5. CASE k = e.key
  <2>1. applied'[k] = e.rev
    BY <1>5, <1>1, <1>2 DEF TypeOK
  <2> QED BY <2>1, <1>2, <1>4, <1>5
<1>6. CASE k # e.key
  <2>1. HostName(k) # HostName(e.key)
    BY <1>6, <1>1, <1>2 DEF Separate
  <2>2. host'[HostName(k)] = host[HostName(k)]
    BY <2>1, <1>1, <1>3, HostNameType DEF TypeOK
  <2>3. applied'[k] = applied[k]
    BY <1>6, <1>1, <1>2 DEF TypeOK
  <2> QED BY <2>2, <2>3 DEF HostInv
<1> QED BY <1>5, <1>6

\* An event the filters drop leaves the host as it is.
LEMMA SkipHostInv ==
  ASSUME IInv, SkipSystem
  PROVE  HostInv'
<1> DEFINE e == Head(queue)
<1>1. /\ applied' = [applied EXCEPT ![e.key] = e.rev]
      /\ UNCHANGED <<history, host>>
      /\ e.key \in SystemKeys
  BY DEF SkipSystem, Handled
<1> HIDE DEF e
<1> SUFFICES ASSUME NEW k \in Separate
             PROVE  LET o == host[HostName(k)]
                    IN IF applied'[k] = 0 \/ history[applied'[k]].op = "delete"
                       THEN o = NoObject
                       ELSE o # NoObject /\ o.key = k /\ o.rev = applied'[k]
  BY <1>1 DEF HostInv
<1> k \in Keys \ SystemKeys
  BY DEF Separate
<1>2. applied'[k] = applied[k]
  BY <1>1 DEF IInv, LoopInv, TypeOK
<1> QED BY <1>2 DEF IInv, HostInv

\* A step that touches neither the host nor what was applied.
LEMMA QuietHostInv ==
  ASSUME IInv, UNCHANGED <<host, applied>>,
         \A i \in 1..Len(history) : history'[i] = history[i]
  PROVE  HostInv'
<1> SUFFICES ASSUME NEW k \in Separate
             PROVE  LET o == host[HostName(k)]
                    IN IF applied[k] = 0 \/ history'[applied[k]].op = "delete"
                       THEN o = NoObject
                       ELSE o # NoObject /\ o.key = k /\ o.rev = applied[k]
  BY DEF HostInv
<1> k \in Keys
  BY DEF Separate
<1>1. applied[k] # 0 => history'[applied[k]] = history[applied[k]]
  BY DEF IInv, LoopInv, TypeOK, AppliedInv
<1> QED BY <1>1 DEF IInv, HostInv

\* Commits append to the history: earlier changes stay where they are.
LEMMA CommitPrefix ==
  ASSUME TypeOK, NEW k \in Keys, NEW op \in {"put", "delete"}, NEW type, Commit(k, op, type)
  PROVE  /\ UNCHANGED <<host, applied>>
         /\ history' = Append(history, [key |-> k, op |-> op])
         /\ \A i \in 1..Len(history) : history'[i] = history[i]
<1>1. history \in Seq(Change) /\ [key |-> k, op |-> op] \in Change
  BY DEF TypeOK, Change
<1> QED BY <1>1 DEF Commit

\* Every step of the specification keeps the host in line with what was applied.
LEMMA NextHostInv ==
  ASSUME IInv, [Next]_vars
  PROVE  HostInv'
<1>1. TypeOK
  BY DEF IInv, LoopInv
<1>2. ASSUME NEW k \in Keys, VirtualCreate(k) \/ VirtualUpdate(k) PROVE HostInv'
  BY <1>1, <1>2, CommitPrefix, QuietHostInv DEF VirtualCreate, VirtualUpdate
<1>3. ASSUME NEW k \in Keys, VirtualDelete(k) PROVE HostInv'
  BY <1>1, <1>3, CommitPrefix, QuietHostInv DEF VirtualDelete
<1>4. CASE OpenWatch \/ CloseWatch \/ HandleFailure \/ UNCHANGED vars
  BY <1>4, QuietHostInv DEF OpenWatch, CloseWatch, HandleFailure, vars
<1> QED
  BY <1>2, <1>3, <1>4, UpsertHostInv, DeleteHostInv, SkipHostInv
  DEF Next, Environment, Loop

(***************************************************************************)
(* What an object's annotations and type come from.                        *)
(***************************************************************************)

\* Nothing has happened.
LEMMA InitIncarnation == Init => IncarnationInv
BY HostNameType DEF Init, IncarnationInv, DeletionsQueued, Born, SameIncarnation, Separate

LEMMA HistoryTyped ==
  ASSUME TypeOK, NEW r \in 1..Len(history)
  PROVE  history[r].key \in Keys
<1>1. history[r] \in Change
  BY DEF TypeOK
<1> QED BY <1>1 DEF Change

\* A queued event other than the first stays queued.
LEMMA StaysQueued ==
  ASSUME LoopInv, queue # << >>, queue' = Tail(queue), NEW r, Queued(r), Head(queue).rev # r
  PROVE  Queued(r)'
<1>1. PICK i \in 1..Len(queue) : queue[i].rev = r
  BY DEF Queued
<1>2. /\ Len(queue) \in Nat \ {0} /\ Head(queue) = queue[1]
      /\ Len(queue') = Len(queue) - 1
      /\ \A j \in 1..Len(queue') : queue'[j] = queue[j + 1]
  BY TailOfQueue DEF LoopInv
<1>3. i # 1
  BY <1>1, <1>2
<1>4. i - 1 \in 1..Len(queue') /\ queue'[i - 1] = queue[i]
  BY <1>2, <1>3
<1> QED BY <1>1, <1>4 DEF Queued

\* A handled event is not one of the deletions still to come.
LEMMA HandledDeletions ==
  ASSUME LoopInv, DeletionsQueued, queue # << >>, Handled(Head(queue))
  PROVE  DeletionsQueued'
<1> DEFINE e == Head(queue)
<1> USE DEF LoopInv
<1>1. /\ queue' = Tail(queue)
      /\ applied' = [applied EXCEPT ![e.key] = e.rev]
      /\ UNCHANGED <<history, latest, watching>>
  BY DEF Handled
<1>2. /\ Len(queue) \in Nat \ {0}
      /\ e = queue[1] /\ e \in Event
      /\ Len(queue') = Len(queue) - 1
      /\ \A i \in 1..Len(queue') : queue'[i] = queue[i + 1]
  BY <1>1, TailOfQueue
<1>3. e.rev \in 1..Len(history) /\ history[e.rev].key = e.key /\ e.key \in Keys
  BY <1>2 DEF EventInv, Event
<1>4. watching'
  BY <1>1 DEF ClosedInv, TypeOK
<1> SUFFICES ASSUME NEW r \in 1..Len(history), history[r].op = "delete"
             PROVE  /\ applied'[history[r].key] \in 1..(r - 1) => Queued(r)'
                    /\ \A i \in 1..Len(queue') :
                         queue'[i].key = history[r].key /\ queue'[i].rev < r => Queued(r)'
  BY <1>1, <1>4 DEF DeletionsQueued, Queued
<1> HIDE DEF e
<1>5. e.rev # r /\ Queued(r) => Queued(r)'
  BY <1>1, <1>2, StaysQueued DEF e
<1>6. ASSUME applied'[history[r].key] \in 1..(r - 1) PROVE Queued(r)'
  <2>1. CASE history[r].key = e.key
    <3>1. e.rev < r
      BY <1>1, <1>3, <1>6, <2>1 DEF TypeOK
    <3>2. Queued(r)
      BY <1>2, <2>1, <3>1 DEF DeletionsQueued
    <3> QED BY <1>3, <1>5, <3>1, <3>2
  <2>2. CASE history[r].key # e.key
    <3>1. applied[history[r].key] \in 1..(r - 1)
      BY <1>1, <1>3, <1>6, <2>2 DEF TypeOK
    <3>2. e.rev # r
      BY <1>3, <2>2
    <3> QED BY <1>5, <3>1, <3>2 DEF DeletionsQueued
  <2> QED BY <2>1, <2>2
<1>7. ASSUME NEW i \in 1..Len(queue'), queue'[i].key = history[r].key, queue'[i].rev < r
      PROVE  Queued(r)'
  <2>1. i + 1 \in 1..Len(queue) /\ queue'[i] = queue[i + 1]
    BY <1>2
  <2>2. Queued(r)
    BY <1>7, <2>1 DEF DeletionsQueued
  <2>3. e.rev # r
    <3> SUFFICES ASSUME e.rev = r PROVE FALSE
      OBVIOUS
    <3>1. queue[1].key = queue[i + 1].key /\ 1 \in 1..Len(queue) /\ 1 <= i + 1
      BY <1>2, <1>3, <1>7, <2>1
    <3>2. queue[1].rev <= queue[i + 1].rev
      BY <2>1, <3>1 DEF OrderInv
    <3>3. queue[i + 1].rev \in 1..Len(history)
      BY <2>1 DEF EventInv
    <3> QED BY <1>2, <1>7, <2>1, <3>2, <3>3
  <2> QED BY <1>5, <2>2, <2>3
<1> QED BY <1>6, <1>7

\* A commit's event is queued when the watch is open.
LEMMA CommitDeletions ==
  ASSUME LoopInv, DeletionsQueued, NEW k \in Keys, NEW op \in {"put", "delete"}, NEW type,
         Commit(k, op, type)
  PROVE  DeletionsQueued'
<1> DEFINE n == Len(history) + 1
           e == [type |-> type, key |-> k, rev |-> n]
<1> USE DEF LoopInv
<1>1. /\ Len(history) \in Nat /\ Len(queue) \in Nat
      /\ Len(history') = n /\ history'[n] = [key |-> k, op |-> op]
      /\ \A r \in 1..Len(history) : history'[r] = history[r]
      /\ UNCHANGED <<watching, applied>>
  <2>1. history \in Seq(Change) /\ [key |-> k, op |-> op] \in Change
    BY DEF TypeOK, Change
  <2> QED BY <2>1 DEF Commit, TypeOK
<1>2. CASE watching
  <2>1. queue' = Append(queue, e)
    BY <1>2 DEF Commit
  <2>2. /\ Len(queue') = Len(queue) + 1 /\ queue'[Len(queue) + 1] = e
        /\ \A i \in 1..Len(queue) : queue'[i] = queue[i]
    BY <2>1 DEF TypeOK
  <2> HIDE DEF e
  <2>3. \A r : Queued(r) => Queued(r)'
    BY <1>1, <2>2 DEF Queued
  <2>4. Len(queue) + 1 \in 1..Len(queue') /\ queue'[Len(queue) + 1].rev = n
    BY <1>1, <2>2 DEF e
  <2> SUFFICES ASSUME NEW r \in 1..Len(history'), history'[r].op = "delete"
               PROVE  /\ applied'[history'[r].key] \in 1..(r - 1) => Queued(r)'
                      /\ \A i \in 1..Len(queue') :
                           queue'[i].key = history'[r].key /\ queue'[i].rev < r => Queued(r)'
    BY <1>1, <1>2 DEF DeletionsQueued, Queued
  <2>5. CASE r = n
    BY <2>4, <2>5 DEF Queued
  <2>6. CASE r # n
    <3>1. r \in 1..Len(history) /\ history'[r] = history[r] /\ r < n
      BY <1>1, <2>6
    <3>2. \A i \in 1..Len(queue') : i \in 1..Len(queue) \/ queue'[i] = e
      BY <1>1, <2>2
    <3>3. e.rev = n
      BY DEF e
    <3>4. applied'[history'[r].key] \in 1..(r - 1) => Queued(r)'
      BY <1>1, <2>3, <3>1 DEF DeletionsQueued
    <3>5. ASSUME NEW i \in 1..Len(queue'), queue'[i].key = history'[r].key, queue'[i].rev < r
          PROVE  Queued(r)'
      <4>1. i \in 1..Len(queue) /\ queue'[i] = queue[i]
        BY <1>1, <2>2, <3>1, <3>2, <3>3, <3>5
      <4> QED BY <2>3, <3>1, <3>5, <4>1 DEF DeletionsQueued
    <3> QED BY <3>4, <3>5
  <2> QED BY <2>5, <2>6
<1>3. CASE ~watching
  <2>1. queue' = queue /\ Len(queue) = 0
    BY <1>3 DEF Commit, ClosedInv
  <2>2. \A l \in Keys : applied'[l] = 0
    BY <1>1, <1>3 DEF DeletionsQueued
  <2>3. \A r \in 1..Len(history') : history'[r].key \in Keys
    <3>1. \A r \in 1..Len(history') : r = n \/ (r \in 1..Len(history) /\ history'[r] = history[r])
      BY <1>1
    <3> QED BY <1>1, <3>1, HistoryTyped
  <2> QED BY <1>1, <1>3, <2>1, <2>2, <2>3 DEF DeletionsQueued
<1> QED BY <1>2, <1>3

\* A list shows every object at its latest change.
LEMMA OpenDeletions ==
  ASSUME LoopInv, DeletionsQueued, OpenWatch
  PROVE  DeletionsQueued'
<1> DEFINE S == {k \in Keys : Exists(k)}
<1> USE DEF LoopInv
<1>1. /\ ~watching /\ watching'
      /\ UNCHANGED <<history, latest, applied>>
  BY DEF OpenWatch
<1>2. PICK s \in Listings(S) :
        queue' = [i \in 1..Len(s) |->
                    [type |-> "ADDED", key |-> s[i], rev |-> latest[s[i]]]]
  BY DEF OpenWatch
<1>3. Cardinality(S) \in Nat
  BY FiniteAssumption, FS_Subset, FS_CardinalityType
<1> DEFINE n == Cardinality(S)
<1>4. s \in [1..n -> S]
  BY <1>2 DEF Listings
<1> HIDE DEF n, S
<1>5. Len(s) = n /\ n \in Nat
  BY <1>3, <1>4 DEF n
<1>6. Len(queue') = n
  BY <1>2, <1>5
<1>7. \A i \in 1..n : queue'[i].rev = latest[queue'[i].key]
  BY <1>2, <1>5
<1>8. ASSUME NEW r \in 1..Len(history), NEW i \in 1..n,
             queue'[i].key = history[r].key, queue'[i].rev < r
      PROVE  FALSE
  <2>1. history[r].key \in Keys
    BY HistoryTyped
  <2>2. r <= latest[history[r].key] /\ latest[history[r].key] \in Nat
    BY <2>1 DEF HistoryInv, TypeOK
  <2>3. queue'[i].rev = latest[history[r].key]
    BY <1>7, <1>8
  <2> QED BY <1>8, <2>2, <2>3
<1>9. \A r \in 1..Len(history) : applied'[history[r].key] = 0
  BY <1>1, HistoryTyped DEF DeletionsQueued
<1> QED BY <1>1, <1>6, <1>8, <1>9 DEF DeletionsQueued

\* An update in place carries the object over no deletion: one in between would still
\* be queued, before the event that is handled.
LEMMA UpsertSame ==
  ASSUME IInv, faults = 0, DeletionsQueued, Born, SameIncarnation, HandleUpsert
  PROVE  Born' /\ SameIncarnation'
<1> DEFINE e == Head(queue)
<1> USE DEF IInv, LoopInv
<1>1. /\ e \in Event /\ queue # << >> /\ e = queue[1] /\ Len(queue) \in Nat \ {0}
      /\ history' = history /\ faults' = faults
      /\ host' = [host EXCEPT ![HostName(e.key)] = Upserted(HostName(e.key), e)]
      /\ e.key \notin SystemKeys
      /\ e.type # "DELETED"
  BY TailOfQueue DEF HandleUpsert, Handled, Event
<1> HIDE DEF e
<1>2. e.key \in Keys /\ e.rev \in 1..Len(history) /\ history[e.rev].op # "delete"
  BY <1>1 DEF EventInv, Event
<1>3. HostName(e.key) \in HostNames
  BY <1>2, HostNameType
<1> DEFINE old == host[HostName(e.key)]
           u == Upserted(HostName(e.key), e)
<1>4. u = [key |-> e.key, rev |-> e.rev, born |-> IF old = NoObject THEN e.rev ELSE old.born]
  BY DEF Upserted
<1>5. old # NoObject => old \in HostObject
  BY <1>3 DEF TypeOK
<1> DEFINE Whole(k, o) == /\ o.born > 0
                          /\ \A r \in o.born..o.rev : ~(history[r].key = k /\ history[r].op = "delete")
<1>6. e.key \in Separate /\ old # NoObject => Whole(e.key, old)
  BY DEF Born, SameIncarnation
<1>7. ASSUME e.key \in Separate PROVE Whole(e.key, u)
  <2>1. CASE old = NoObject
    <3>1. u.born = e.rev /\ u.rev = e.rev /\ u.key = e.key
      BY <1>4, <2>1
    <3>2. \A r \in u.born..u.rev : r = e.rev
      BY <1>2, <3>1
    <3> QED BY <1>2, <3>1, <3>2
  <2>2. CASE old # NoObject
    <3>1. u.born = old.born /\ u.rev = e.rev /\ u.key = e.key /\ old.born \in Nat
      BY <1>4, <1>5, <2>2 DEF HostObject
    <3>2. /\ old.rev = applied[e.key]
          /\ applied[e.key] # 0 /\ applied[e.key] \in Nat
      BY <1>2, <1>7, <2>2 DEF HostInv, TypeOK
    <3> SUFFICES ASSUME NEW r \in old.born..e.rev, history[r].key = e.key, history[r].op = "delete"
                 PROVE  FALSE
      BY <1>6, <1>7, <2>2, <3>1
    <3>3. r \in 1..Len(history) /\ old.born > 0
      BY <1>2, <1>6, <1>7, <2>2, <3>1
    <3>4. CASE r <= applied[e.key]
      <4>1. r \in old.born..old.rev
        BY <3>1, <3>2, <3>3, <3>4
      <4> QED BY <1>6, <1>7, <2>2, <3>2, <4>1
    <3>5. CASE r > applied[e.key]
      <4>1. applied[history[r].key] \in 1..(r - 1)
        BY <3>2, <3>3, <3>5
      <4>2. PICK i \in 1..Len(queue) : queue[i].rev = r
        BY <3>3, <4>1 DEF DeletionsQueued, Queued
      <4>3. queue[i].key = e.key
        BY <4>2 DEF EventInv
      <4>4. queue[1].rev <= queue[i].rev
        BY <1>1, <4>3 DEF OrderInv
      <4>5. e.rev <= r /\ r <= e.rev
        BY <1>1, <1>2, <3>3, <4>2, <4>4
      <4>6. r = e.rev
        BY <1>2, <3>3, <4>5
      <4> QED BY <1>2, <4>6
    <3> QED BY <3>2, <3>3, <3>4, <3>5
  <2> QED BY <2>1, <2>2
<1>8. \A h \in HostNames : host'[h] = IF h = HostName(e.key) THEN u ELSE host[h]
  BY <1>1, <1>3 DEF TypeOK
<1> HIDE DEF u
<1>9. ASSUME NEW k \in Separate, host'[HostName(k)] # NoObject
      PROVE  Whole(k, host'[HostName(k)])
  <2>1. k \in Keys /\ HostName(k) \in HostNames
    BY HostNameType DEF Separate
  <2>2. CASE k = e.key
    BY <1>7, <1>8, <2>1, <2>2
  <2>3. CASE k # e.key
    <3>1. HostName(k) # HostName(e.key)
      BY <1>1, <1>2, <2>3 DEF Separate
    <3>2. host'[HostName(k)] = host[HostName(k)]
      BY <1>8, <2>1, <3>1
    <3> QED BY <1>9, <3>2 DEF Born, SameIncarnation
  <2> QED BY <2>2, <2>3
<1> QED BY <1>1, <1>9 DEF Born, SameIncarnation

\* What is on the host was made of changes that are in the history for good.
LEMMA QuietSame ==
  ASSUME IInv, faults = 0, Born, SameIncarnation,
         \A h \in HostNames : host'[h] = host[h] \/ host'[h] = NoObject,
         \A i \in 1..Len(history) : history'[i] = history[i]
  PROVE  Born' /\ SameIncarnation'
<1> USE DEF IInv, LoopInv
<1>1. ASSUME NEW k \in Separate, host'[HostName(k)] # NoObject
      PROVE  LET o == host[HostName(k)]
             IN /\ host'[HostName(k)] = o /\ o \in HostObject /\ o.born > 0
                /\ o.rev <= Len(history)
                /\ \A r \in o.born..o.rev : ~(history[r].key = k /\ history[r].op = "delete")
  <2> DEFINE o == host[HostName(k)]
  <2>1. k \in Keys /\ HostName(k) \in HostNames
    BY HostNameType DEF Separate
  <2>2. host'[HostName(k)] = o /\ o # NoObject
    BY <1>1, <2>1
  <2>3. o \in HostObject /\ o.born > 0
    BY <2>1, <2>2 DEF Born, TypeOK
  <2>4. o.rev = applied[k]
    BY <2>2 DEF HostInv
  <2>5. \A r \in o.born..o.rev : ~(history[r].key = k /\ history[r].op = "delete")
    BY <2>2 DEF SameIncarnation
  <2> QED BY <2>1, <2>2, <2>3, <2>4, <2>5 DEF AppliedInv, TypeOK
<1>2. Born'
  BY <1>1 DEF Born
<1>3. ASSUME NEW k \in Separate, host'[HostName(k)] # NoObject,
             NEW r \in host'[HostName(k)].born..host'[HostName(k)].rev
      PROVE  ~(history'[r].key = k /\ history'[r].op = "delete")
  <2> DEFINE o == host[HostName(k)]
  <2>1. /\ host'[HostName(k)] = o /\ o \in HostObject /\ o.born > 0 /\ o.rev <= Len(history)
        /\ \A q \in o.born..o.rev : ~(history[q].key = k /\ history[q].op = "delete")
    BY <1>1, <1>3
  <2>2. o.born \in Nat /\ o.rev \in Nat /\ Len(history) \in Nat /\ r \in o.born..o.rev
    BY <1>3, <2>1 DEF HostObject, TypeOK
  <2> HIDE DEF o
  <2>3. r \in 1..Len(history)
    BY <2>1, <2>2
  <2> QED BY <2>1, <2>2, <2>3
<1> QED BY <1>2, <1>3 DEF SameIncarnation

LEMMA NextIncarnation ==
  ASSUME IInv, IncarnationInv, [Next]_vars
  PROVE  IncarnationInv'
<1> USE DEF IInv, LoopInv
<1> SUFFICES ASSUME faults' = 0 PROVE DeletionsQueued' /\ Born' /\ SameIncarnation'
  BY DEF IncarnationInv
<1>1. ~CloseWatch /\ ~HandleFailure
  BY DEF CloseWatch, HandleFailure, TypeOK
<1>2. faults = 0
  BY <1>1 DEF Next, Environment, Loop, VirtualCreate, VirtualUpdate, VirtualDelete, Commit,
              OpenWatch, SkipSystem, HandleUpsert, HandleDelete, Handled, vars
<1>3. DeletionsQueued /\ Born /\ SameIncarnation
  BY <1>2 DEF IncarnationInv
<1>4. ASSUME NEW k \in Keys, VirtualCreate(k) \/ VirtualUpdate(k) \/ VirtualDelete(k)
      PROVE  DeletionsQueued' /\ Born' /\ SameIncarnation'
  <2>1. PICK op \in {"put", "delete"} : \E type : Commit(k, op, type)
    BY <1>4 DEF VirtualCreate, VirtualUpdate, VirtualDelete
  <2>2. PICK type : Commit(k, op, type)
    BY <2>1
  <2>3. host' = host /\ \A i \in 1..Len(history) : history'[i] = history[i]
    BY <2>2, CommitPrefix
  <2> QED BY <1>2, <1>3, <2>2, <2>3, CommitDeletions, QuietSame
<1>5. CASE OpenWatch
  BY <1>2, <1>3, <1>5, OpenDeletions, QuietSame DEF OpenWatch
<1>6. CASE SkipSystem
  <2>1. queue # << >> /\ Handled(Head(queue)) /\ host' = host /\ history' = history
    BY <1>6 DEF SkipSystem, Handled
  <2> QED BY <1>2, <1>3, <2>1, HandledDeletions, QuietSame
<1>7. CASE HandleUpsert
  BY <1>2, <1>3, <1>7, HandledDeletions, UpsertSame DEF HandleUpsert
<1>8. CASE HandleDelete
  <2>1. queue # << >> /\ Handled(Head(queue)) /\ history' = history
    BY <1>8 DEF HandleDelete, Handled
  <2>2. \A h \in HostNames : host'[h] = host[h] \/ host'[h] = NoObject
    BY <1>8 DEF HandleDelete, TypeOK
  <2> QED BY <1>2, <1>3, <2>1, <2>2, HandledDeletions, QuietSame
<1>9. CASE UNCHANGED vars
  BY <1>3, <1>9 DEF vars, DeletionsQueued, Queued, Born, SameIncarnation
<1> QED BY <1>1, <1>4, <1>5, <1>6, <1>7, <1>8, <1>9 DEF Next, Environment, Loop

(***************************************************************************)
(* The results.                                                            *)
(***************************************************************************)

\* Every reachable state of the loop satisfies LoopInv.
LEMMA LoopInvariant == Spec => []LoopInv
<1>1. LoopInv /\ [Next]_vars => LoopInv'
  BY NextLoopInv
<1> QED BY InitLoopInv, <1>1, PTL DEF Spec

\* Type correctness of the loop (syncConfigMaps, syncSecrets) in any cluster.
THEOREM TypeCorrect == Spec => []TypeOK
<1>1. LoopInv => TypeOK
  BY DEF LoopInv
<1> QED BY LoopInvariant, <1>1, PTL

\* The host copies of the separate objects follow their objects' histories.
LEMMA Invariant == Spec => []IInv
<1>1. Init => IInv
  BY InitLoopInv, InitHostInv DEF IInv
<1>2. IInv /\ [Next]_vars => IInv'
  BY NextLoopInv, NextHostInv DEF IInv
<1> QED BY <1>1, <1>2, PTL DEF Spec

\* The revision of the host's copy is that of the last change carried over.
LEMMA HostRevIsApplied ==
  ASSUME IInv, NEW k \in Separate
  PROVE  HostRev(k) = IF applied[k] # 0 /\ history[applied[k]].op = "put"
                      THEN applied[k] ELSE 0
<1>1. applied[k] # 0 => history[applied[k]] \in Change
  BY DEF Separate, IInv, LoopInv, TypeOK, AppliedInv
<1>2. applied[k] # 0 => history[applied[k]].op \in {"put", "delete"}
  BY <1>1 DEF Change
<1> QED BY <1>2 DEF IInv, HostInv, HostRev

\* An object with nothing queued and nothing missed is on the host as it is in
\* the virtual cluster, and absent if it is gone: for any number of changes, closed
\* watches and failures, and whatever other objects meet on other host names.
THEOREM CoherentAlways == Spec => []Coherent
<1>1. IInv => Coherent
  <2> SUFFICES ASSUME IInv, NEW k \in Separate, watching, Pending(k) = {}, k \notin missed
               PROVE  HostRev(k) = VirtualRev(k)
    BY DEF Coherent
  <2> k \in Keys
    BY DEF Separate
  <2>1. \A i \in 1..Len(queue) : queue[i].key # k
    BY DEF Pending, IInv, LoopInv, TypeOK
  <2>2. applied[k] = latest[k]
    BY <2>1 DEF IInv, LoopInv, Caught
  <2> QED BY <2>2, HostRevIsApplied DEF VirtualRev, Exists
<1> QED BY Invariant, <1>1, PTL

\* While no watch closed and no call failed, the fields that only a Create copies come
\* from the incarnation the data comes from: syncConfigMapToHost and syncSecretToHost never
\* update the copy of a deleted object in place, however soon it is made again.
THEOREM SameIncarnationHolds == Spec => []SameIncarnation
<1>1. IInv /\ IncarnationInv /\ [Next]_vars => IncarnationInv'
  BY NextIncarnation
<1>2. Spec => []IncarnationInv
  BY InitIncarnation, <1>1, Invariant, PTL DEF Spec
<1>3. IncarnationInv => SameIncarnation
  BY DEF IncarnationInv, SameIncarnation
<1> QED BY <1>2, <1>3, PTL

\* The loop implements the one-way mirror: the host holds of each object a state
\* it really had, and never goes back to an older one.
THEOREM LoopImplementsMirror == Spec => ImplementsMirror
<1> DEFINE Mirrored == Separate
           RevsOK == \A k \in Mirrored :
                       HostRev(k) = IF applied[k] # 0 /\ history[applied[k]].op = "put"
                                    THEN applied[k] ELSE 0
<1>1. Init => M!Init
  BY HostNameType DEF Init, M!Init, HostRev, Separate
<1>2. IInv => RevsOK
  BY HostRevIsApplied
<1>3. IInv' => RevsOK'
  BY <1>2, PTL
<1>4. IInv /\ IInv' /\ [Next]_vars => [M!Next]_M!vars
  <2> SUFFICES ASSUME IInv, IInv', [Next]_vars PROVE [M!Next]_M!vars
    OBVIOUS
  <2>1. RevsOK /\ RevsOK'
    BY <1>2, <1>3
  <2>2. CASE UNCHANGED <<history, applied, host>>
    BY <2>2 DEF M!vars, HostRev
  <2>3. ASSUME NEW k \in Keys,
               VirtualCreate(k) \/ VirtualUpdate(k) \/ VirtualDelete(k)
        PROVE  M!Next
    <3>1. PICK op \in {"put", "delete"} :
            /\ UNCHANGED <<host, applied>>
            /\ history' = Append(history, [key |-> k, op |-> op])
      BY <2>3, CommitPrefix DEF VirtualCreate, VirtualUpdate, VirtualDelete, IInv, LoopInv
    <3>2. M!Commit(k, op)
      BY <3>1 DEF M!Commit, HostRev
    <3> QED BY <3>2 DEF M!Next
  <2>4. CASE SkipSystem
    <3>1. UNCHANGED <<history, host>>
      BY <2>4 DEF SkipSystem, Handled
    <3>2. \A k \in Mirrored : applied'[k] = applied[k]
      BY <2>4 DEF Separate, SkipSystem, Handled, IInv, LoopInv, TypeOK
    <3> QED BY <3>1, <3>2 DEF M!vars, HostRev
  <2>5. ASSUME HandleUpsert \/ HandleDelete PROVE [M!Next]_M!vars
    <3>1. PICK k \in Keys, r \in 1..Len(history) :
            /\ applied' = [applied EXCEPT ![k] = r]
            /\ history' = history
            /\ history[r].key = k
            /\ applied[k] <= r
      <4> DEFINE e == Head(queue)
      <4>1. /\ e \in Event /\ queue # << >> /\ e = queue[1] /\ Len(queue) \in Nat \ {0}
            /\ applied' = [applied EXCEPT ![e.key] = e.rev]
            /\ history' = history
        BY <2>5, TailOfQueue DEF IInv, LoopInv, HandleUpsert, HandleDelete, Handled
      <4> HIDE DEF e
      <4>2. /\ e.key \in Keys
            /\ e.rev \in 1..Len(history)
            /\ history[e.rev].key = e.key
            /\ applied[e.key] <= e.rev
        BY <4>1 DEF IInv, LoopInv, EventInv, Event
      <4> QED BY <4>1, <4>2
    <3> DEFINE replica == [l \in Mirrored |-> HostRev(l)]
               position == [l \in Mirrored |-> applied[l]]
    <3>2. \A l \in Mirrored : applied'[l] = IF l = k THEN r ELSE applied[l]
      BY <3>1 DEF Separate, IInv, LoopInv, TypeOK
    <3>3. \A l \in Mirrored : l # k => HostRev(l)' = HostRev(l)
      BY <2>1, <3>1, <3>2
    <3>4. CASE k \notin Mirrored
      <4>1. replica' = replica /\ position' = position
        BY <3>2, <3>3, <3>4
      <4> QED BY <3>1, <4>1 DEF M!vars
    <3>5. CASE k \in Mirrored
      <4>1. HostRev(k)' = M!CopyAt(r)
        BY <2>1, <3>1, <3>2, <3>5 DEF M!CopyAt
      <4>2. replica' = [replica EXCEPT ![k] = M!CopyAt(r)]
        BY <3>3, <4>1
      <4>3. position' = [position EXCEPT ![k] = r]
        BY <3>2
      <4>4. position[k] = applied[k] /\ r >= applied[k]
        BY <3>1, <3>5 DEF IInv, LoopInv, TypeOK
      <4>5. M!Advance(k, r)
        BY <3>1, <4>2, <4>3, <4>4 DEF M!Advance
      <4>6. r \in DOMAIN history
        BY DEF IInv, LoopInv, TypeOK
      <4> QED BY <3>5, <4>5, <4>6 DEF M!Next
    <3> QED BY <3>4, <3>5
  <2>6. CASE OpenWatch \/ CloseWatch \/ HandleFailure \/ UNCHANGED vars
    BY <2>6, <2>2 DEF OpenWatch, CloseWatch, HandleFailure, vars
  <2> QED BY <2>3, <2>4, <2>5, <2>6 DEF Next, Environment, Loop
<1> QED BY Invariant, <1>1, <1>4, PTL DEF Spec, ImplementsMirror, M!Spec

\* Every mirrored object has a host name of its own when no name has a word "x", or when
\* no namespace has one: the first, or the last, "x" of a host name then ends the name or
\* begins the namespace.  Two objects meet only where both occur (a-x in b, a in x-b).
THEOREM NamesWithoutSeparator ==
  ASSUME NEW Word,
         \A k \in Keys : k.name \in Seq(Word) /\ k.ns \in Seq(Word),
         \/ \A k \in Keys : \A i \in 1..Len(k.name) : k.name[i] # "x"
         \/ \A k \in Keys : \A i \in 1..Len(k.ns) : k.ns[i] # "x"
  PROVE  Separate = Keys \ SystemKeys
<1>1. ASSUME NEW k \in Keys
      PROVE  /\ Len(k.name) \in Nat /\ Len(k.ns) \in Nat
             /\ Len(HostName(k)) = Len(k.name) + 1 + Len(k.ns)
             /\ \A i \in 1..Len(k.name) : HostName(k)[i] = k.name[i]
             /\ HostName(k)[Len(k.name) + 1] = "x"
             /\ \A i \in 1..Len(k.ns) : HostName(k)[Len(k.name) + 1 + i] = k.ns[i]
  <2> DEFINE S == Word \cup {"x"}
             s == k.name  x == <<"x">>  t == k.ns
             sx == s \o x  all == sx \o t
  <2>1. s \in Seq(S) /\ x \in Seq(S) /\ t \in Seq(S) /\ Len(x) = 1 /\ x[1] = "x"
    OBVIOUS
  <2> HIDE DEF S, s, x, t
  <2>2. /\ sx \in Seq(S) /\ Len(sx) = Len(s) + Len(x)
        /\ \A i \in 1..Len(s) + Len(x) : sx[i] = IF i <= Len(s) THEN s[i] ELSE x[i - Len(s)]
    BY <2>1, ConcatProperties, Zenon
  <2> HIDE DEF sx
  <2>3. /\ Len(all) = Len(sx) + Len(t)
        /\ \A i \in 1..Len(sx) + Len(t) : all[i] = IF i <= Len(sx) THEN sx[i] ELSE t[i - Len(sx)]
    <3>1. sx \in Seq(S) /\ t \in Seq(S)
      BY <2>1, <2>2
    <3> QED BY <3>1, ConcatProperties, Zenon
  <2> HIDE DEF all
  <2>4. Len(s) \in Nat /\ Len(t) \in Nat /\ Len(sx) = Len(s) + 1 /\ Len(all) = Len(s) + 1 + Len(t)
    BY <2>1, <2>2, <2>3
  <2>5. /\ \A i \in 1..Len(s) : all[i] = s[i]
        /\ all[Len(s) + 1] = "x"
        /\ \A i \in 1..Len(t) : all[Len(s) + 1 + i] = t[i]
    <3>1. \A i \in 1..Len(s) : all[i] = sx[i] /\ sx[i] = s[i]
      BY <2>1, <2>2, <2>3, <2>4
    <3>2. all[Len(s) + 1] = sx[Len(s) + 1] /\ sx[Len(s) + 1] = x[1]
      BY <2>1, <2>2, <2>3, <2>4
    <3>3. \A i \in 1..Len(t) : all[Len(s) + 1 + i] = t[i]
      BY <2>2, <2>3, <2>4
    <3> QED BY <2>1, <3>1, <3>2, <3>3
  <2> QED BY <2>2, <2>3, <2>4, <2>5 DEF HostName, s, x, t, sx, all
<1> SUFFICES ASSUME NEW k1 \in Keys, NEW k2 \in Keys, HostName(k1) = HostName(k2)
             PROVE  k1 = k2
  BY DEF Separate
<1>2. ASSUME NEW j \in Keys, NEW k \in Keys, HostName(j) = HostName(k)
      PROVE  ~(Len(j.name) < Len(k.name))
  <2> DEFINE h == HostName(j)  t == j.ns  u == k.name
             m == Len(j.name)  p == Len(j.ns)  n == Len(k.name)  q == Len(k.ns)
  <2>1. /\ m \in Nat /\ p \in Nat /\ n \in Nat /\ q \in Nat /\ m + 1 + p = n + 1 + q
        /\ h[m + 1] = "x" /\ \A i \in 1..p : h[m + 1 + i] = t[i]
        /\ h[n + 1] = "x" /\ \A i \in 1..n : h[i] = u[i]
    <3>1. /\ m \in Nat /\ p \in Nat /\ Len(h) = m + 1 + p
          /\ h[m + 1] = "x" /\ \A i \in 1..p : h[m + 1 + i] = t[i]
      BY <1>1
    <3>2. /\ n \in Nat /\ q \in Nat /\ Len(HostName(k)) = n + 1 + q
          /\ HostName(k)[n + 1] = "x" /\ \A i \in 1..n : HostName(k)[i] = u[i]
      BY <1>1
    <3> QED BY <1>2, <3>1, <3>2
  <2>2. ~(\E i \in 1..n : u[i] = "x") \/ ~(\E i \in 1..p : t[i] = "x")
    OBVIOUS
  <2> HIDE DEF h, t, u, m, p, n, q
  <2>3. ASSUME m < n
        PROVE  (\E i \in 1..n : u[i] = "x") /\ (\E i \in 1..p : t[i] = "x")
    <3>1. m + 1 \in 1..n /\ u[m + 1] = "x"
      BY <2>1, <2>3
    <3>2. n - m \in 1..p /\ m + 1 + (n - m) = n + 1
      BY <2>1, <2>3
    <3>3. t[n - m] = "x"
      BY <2>1, <3>2
    <3> QED BY <3>1, <3>2, <3>3
  <2> QED BY <2>2, <2>3 DEF m, n
<1>3. /\ \A i \in 1..Len(k1.name) : HostName(k1)[i] = k1.name[i]
      /\ \A i \in 1..Len(k2.name) : HostName(k1)[i] = k2.name[i]
      /\ \A i \in 1..Len(k1.ns) : HostName(k1)[Len(k1.name) + 1 + i] = k1.ns[i]
      /\ \A i \in 1..Len(k2.ns) : HostName(k1)[Len(k2.name) + 1 + i] = k2.ns[i]
      /\ Len(k1.name) \in Nat /\ Len(k2.name) \in Nat /\ Len(k1.ns) \in Nat /\ Len(k2.ns) \in Nat
      /\ Len(k1.name) + 1 + Len(k1.ns) = Len(k2.name) + 1 + Len(k2.ns)
  <2>1. /\ \A i \in 1..Len(k1.name) : HostName(k1)[i] = k1.name[i]
        /\ \A i \in 1..Len(k1.ns) : HostName(k1)[Len(k1.name) + 1 + i] = k1.ns[i]
        /\ Len(k1.name) \in Nat /\ Len(k1.ns) \in Nat
        /\ Len(HostName(k1)) = Len(k1.name) + 1 + Len(k1.ns)
    BY <1>1
  <2>2. /\ \A i \in 1..Len(k2.name) : HostName(k2)[i] = k2.name[i]
        /\ \A i \in 1..Len(k2.ns) : HostName(k2)[Len(k2.name) + 1 + i] = k2.ns[i]
        /\ Len(k2.name) \in Nat /\ Len(k2.ns) \in Nat
        /\ Len(HostName(k2)) = Len(k2.name) + 1 + Len(k2.ns)
    BY <1>1
  <2> QED BY <2>1, <2>2
<1>4. Len(k1.name) = Len(k2.name) /\ Len(k1.ns) = Len(k2.ns)
  <2>1. ~(Len(k1.name) < Len(k2.name)) /\ ~(Len(k2.name) < Len(k1.name))
    BY <1>2, Zenon
  <2>2. \A a, b, c, d \in Nat :
          a + 1 + c = b + 1 + d /\ ~(a < b) /\ ~(b < a) => a = b /\ c = d
    OBVIOUS
  <2> QED BY <1>3, <2>1, <2>2, Zenon
<1>5. ASSUME NEW s \in Seq(Word), NEW t \in Seq(Word), Len(s) = Len(t),
             \A i \in 1..Len(s) : s[i] = t[i]
      PROVE  s = t
  BY <1>5
<1>6. k1.name = k2.name /\ k1.ns = k2.ns
  <2>1. /\ \A i \in 1..Len(k1.name) : k1.name[i] = k2.name[i]
        /\ \A i \in 1..Len(k1.ns) : k1.ns[i] = k2.ns[i]
    BY <1>3, <1>4
  <2>2. /\ k1.name \in Seq(Word) /\ k2.name \in Seq(Word)
        /\ k1.ns \in Seq(Word) /\ k2.ns \in Seq(Word)
    OBVIOUS
  <2> QED BY <1>4, <1>5, <2>1, <2>2
<1> QED BY <1>6, KeysAssumption
=============================================================================
