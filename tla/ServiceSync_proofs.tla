------------------------- MODULE ServiceSync_proofs -------------------------
(***************************************************************************)
(* Theorems about ServiceSync, for every number of Services, revisions,    *)
(* addresses and failures.                                                 *)
(*                                                                         *)
(* RevInv and AddressInv say that what a place on the way holds is no      *)
(* newer than what the place before it holds: for ports and selector from  *)
(* the virtual Service to the host, for addresses from the host to the     *)
(* virtual Service.  HealInv says what makes the two loops repair each     *)
(* other: where the Services disagree, an event or a write that will       *)
(* succeed is under way, or a collision that nothing makes up for.         *)
(***************************************************************************)
EXTENDS ServiceSync, SequenceTheorems, TLAPS

\* A handler has the Services it works on.
HandlerInv ==
  /\ vpc = "update" => vSvc # NoSvc /\ existing # NoSvc
  /\ hpc = "update" => hostSvc # NoSvc /\ copy # NoSvc

\* The last event a queue holds shows its Service as it is now, and so does the one
\* a handler works on when it was the last.
LatestInv ==
  /\ ~vwatching => vqueue = << >>
  /\ vwatching /\ virt # NoSvc =>
       /\ vqueue # << >> => vqueue[Len(vqueue)].svc = virt
       /\ vqueue = << >> /\ vpc = "update" => vSvc = virt
  /\ hwatching /\ host # NoSvc =>
       /\ hqueue # << >> => hqueue[Len(hqueue)] = host
       /\ hqueue = << >> /\ hpc = "update" => hostSvc = host

\* Ports and selector pass from the virtual Service over the queue and the handler
\* to the host in the order of their revisions.
RevInv ==
  /\ virt # NoSvc => virt.rev = revs
  /\ \A i \in 1..Len(vqueue) : vqueue[i].svc.rev <= revs
  /\ \A i, j \in 1..Len(vqueue) : i <= j => vqueue[i].svc.rev <= vqueue[j].svc.rev
  /\ vpc = "update" =>
       /\ vSvc.rev <= revs
       /\ \A i \in 1..Len(vqueue) : vSvc.rev <= vqueue[i].svc.rev
       /\ host # NoSvc => host.rev <= vSvc.rev
  /\ host # NoSvc =>
       /\ host.rev <= revs
       /\ \A i \in 1..Len(vqueue) : host.rev <= vqueue[i].svc.rev

\* An address names the host Service it was assigned to.
Assigned(h) ==
  /\ h.uid > 0 /\ h.uid <= born
  /\ h.lb.level = 0 => h.lb = NoAddress
  /\ h.lb.level > 0 => h.lb.from = h.uid

\* The order of the addresses of all host Services of the name.
Before(g, h) == g.uid < h.uid \/ (g.uid = h.uid /\ g.lb.level <= h.lb.level)
Shown(a, h) == a.level > 0 => a.from < h.uid \/ (a.from = h.uid /\ a.level <= h.lb.level)

Known(h) == Assigned(h) /\ (host # NoSvc => Before(h, host))

\* Addresses pass from the host over the queue and the handler to the virtual
\* Service in the order of their assignment.
AddressInv ==
  /\ host # NoSvc => Assigned(host) /\ host.uid = born
  /\ \A i \in 1..Len(hqueue) : Known(hqueue[i])
  /\ \A i, j \in 1..Len(hqueue) : i <= j => Before(hqueue[i], hqueue[j])
  /\ hpc = "update" =>
       /\ Known(hostSvc)
       /\ \A i \in 1..Len(hqueue) : Before(hostSvc, hqueue[i])
  /\ virt # NoSvc =>
       /\ virt.lb.level = 0 => virt.lb = NoAddress
       /\ virt.lb.level > 0 => virt.lb.from <= born
       /\ host # NoSvc => Shown(virt.lb, host)
       /\ \A i \in 1..Len(hqueue) : Shown(virt.lb, hqueue[i])
       /\ hpc = "update" => Shown(virt.lb, hostSvc)

\* A handler's copy is of the Service that is there now, as it was then, or of one
\* that was replaced.
CopyInv ==
  /\ virt # NoSvc => virt.uid <= uids
  /\ vpc = "update" =>
       /\ existing.uid <= born
       /\ host # NoSvc /\ existing.uid = host.uid => (existing.finalizer => host.finalizer)
  /\ hpc = "update" =>
       /\ copy.uid <= uids
       /\ virt # NoSvc /\ copy.uid = virt.uid => copy.notes <= virt.notes

Gone == host = NoSvc \/ host.terminating

\* While nothing is lost, the last event of a Service that is gone is its deletion.
LosslessInv ==
  lossless =>
    /\ ~vwatching => host = NoSvc /\ vpc = "idle"
    /\ vwatching /\ virt = NoSvc =>
         /\ vqueue # << >> => vqueue[Len(vqueue)].type = "DELETED"
         /\ vqueue = << >> => Gone /\ vpc = "idle"

\* What syncServices has in hand brings the host's ports and selector up to date.
ToHost == ~vwatching \/ vqueue # << >> \/ (vpc = "update" /\ existing = host)

\* What syncHostServices has in hand brings the address up to date.
FromHost ==
  ~hwatching \/ hqueue # << >> \/ (hpc = "update" /\ copy = virt /\ hostSvc.lb = host.lb)

\* A write that will collide with one the other loop does not pass on.
Collides ==
  \/ vpc = "update" /\ existing # host /\ existing.lb = host.lb
  \/ hpc = "update" /\ copy # virt /\ copy.rev = virt.rev

Both == virt # NoSvc /\ host # NoSvc /\ ~host.terminating

\* Where ports or address disagree, one of the loops has the repair in hand.
HealInv ==
  lossless /\ ~unhealed /\ Both =>
    \/ host.rev = virt.rev /\ SameAddress(virt.lb, host.lb)
    \/ host.rev # virt.rev /\ ToHost
    \/ ~SameAddress(virt.lb, host.lb) /\ FromHost
    \/ Collides

IInv ==
  /\ TypeOK /\ HandlerInv /\ LatestInv /\ RevInv /\ AddressInv /\ CopyInv
  /\ LosslessInv /\ HealInv

-----------------------------------------------------------------------------
(* Queues and Services.                                                    *)

LEMMA AppendIs ==
  ASSUME NEW S, NEW s \in Seq(S), NEW e \in S
  PROVE  /\ Append(s, e) \in Seq(S) /\ Len(Append(s, e)) = Len(s) + 1 /\ Len(s) \in Nat
         /\ Append(s, e) # << >>
         /\ \A i \in 1..Len(s) : Append(s, e)[i] = s[i]
         /\ Append(s, e)[Len(s) + 1] = e
BY AppendProperties, LenProperties

LEMMA TailIs ==
  ASSUME NEW S, NEW s \in Seq(S), s # << >>
  PROVE  /\ Head(s) = s[1] /\ Head(s) \in S /\ Tail(s) \in Seq(S)
         /\ Len(s) \in Nat /\ Len(s) > 0 /\ Len(Tail(s)) = Len(s) - 1
         /\ \A i \in 1..Len(Tail(s)) : i + 1 \in 1..Len(s) /\ Tail(s)[i] = s[i + 1]
         /\ Tail(s) # << >> => Tail(s)[Len(Tail(s))] = s[Len(s)]
         /\ Tail(s) = << >> => Head(s) = s[Len(s)]
<1>1. /\ Head(s) = s[1] /\ Head(s) \in S /\ Tail(s) \in Seq(S)
      /\ Len(Tail(s)) = Len(s) - 1
      /\ \A i \in 1..Len(Tail(s)) : Tail(s)[i] = s[i + 1]
  BY HeadTailProperties
<1>2. Len(s) \in Nat /\ Len(s) > 0
  BY EmptySeq, LenProperties
<1>3. Tail(s) # << >> => Len(Tail(s)) \in Nat /\ Len(Tail(s)) > 0
  BY <1>1, EmptySeq, LenProperties
<1>4. Len(<< >>) = 0
  OBVIOUS
<1>5. Tail(s) = << >> => Len(Tail(s)) = 0
  BY <1>4
<1>6. Tail(s) = << >> => Len(s) = 1
  BY <1>1, <1>2, <1>5
<1> QED  BY <1>1, <1>2, <1>3, <1>6

LEMMA SingleIs ==
  ASSUME NEW S, NEW e \in S
  PROVE  <<e>> \in Seq(S) /\ Len(<<e>>) = 1 /\ <<e>>[1] = e /\ <<e>> # << >>
<1>1. Len(<<e>>) = 1
  OBVIOUS
<1>2. <<e>>[1] = e
  OBVIOUS
<1>3. <<e>> \in Seq(S)
  OBVIOUS
<1>4. Len(<< >>) = 0
  OBVIOUS
<1> QED  BY <1>1, <1>2, <1>3, <1>4

Events == [type : {"ADDED", "MODIFIED", "DELETED"}, svc : VirtualService]

LEMMA Bounds ==
  /\ 0 \in 0..MaxNotes /\ 0 \in 0..MaxLevel /\ 0 \in 0..MaxUids /\ 0 \in 0..MaxRevs
  /\ 0 \in 0..MaxFaults
  /\ MaxUids \in Nat /\ MaxRevs \in Nat /\ MaxNotes \in Nat /\ MaxLevel \in Nat /\ MaxFaults \in Nat
  /\ NoAddress \in Address /\ NoAddress.level = 0 /\ NoAddress.from = 0
<1>1. /\ 0 \in 0..MaxNotes /\ 0 \in 0..MaxLevel /\ 0 \in 0..MaxUids /\ 0 \in 0..MaxRevs
      /\ 0 \in 0..MaxFaults
      /\ MaxUids \in Nat /\ MaxRevs \in Nat /\ MaxNotes \in Nat /\ MaxLevel \in Nat /\ MaxFaults \in Nat
  BY BoundsAssumption
<1> QED  BY <1>1 DEF NoAddress, Address

LEMMA Addresses ==
  ASSUME NEW a \in Address
  PROVE  /\ a.from \in Nat /\ a.level \in Nat /\ a.level \in 0..MaxLevel
         /\ a = [from |-> a.from, level |-> a.level]
BY Bounds DEF Address

\* What a virtual Service is, and what its writes change.
LEMMA VirtualServices ==
  ASSUME NEW s \in VirtualService
  PROVE  /\ s.uid \in Nat /\ s.rev \in Nat /\ s.notes \in Nat /\ s.lb \in Address /\ s # NoSvc
         /\ s.uid \in 1..MaxUids /\ s.rev \in 1..MaxRevs
         /\ \A r \in 1..MaxRevs : LET t == [s EXCEPT !.rev = r] IN
              t \in VirtualService /\ t.uid = s.uid /\ t.rev = r /\ t.notes = s.notes /\ t.lb = s.lb
         /\ \A n \in 0..MaxNotes : LET t == [s EXCEPT !.notes = n] IN
              t \in VirtualService /\ t.uid = s.uid /\ t.rev = s.rev /\ t.notes = n /\ t.lb = s.lb
         /\ \A a \in Address : LET t == [s EXCEPT !.lb = a] IN
              t \in VirtualService /\ t.uid = s.uid /\ t.rev = s.rev /\ t.notes = s.notes /\ t.lb = a
<1>1. /\ s.uid \in 1..MaxUids /\ s.rev \in 1..MaxRevs /\ s.notes \in 0..MaxNotes /\ s.lb \in Address
      /\ s # NoSvc
  BY NoSvcAssumption DEF VirtualService
<1>2. s.uid \in Nat /\ s.rev \in Nat /\ s.notes \in Nat
  BY <1>1, Bounds
<1>3. ASSUME NEW r \in 1..MaxRevs PROVE LET t == [s EXCEPT !.rev = r] IN
        t \in VirtualService /\ t.uid = s.uid /\ t.rev = r /\ t.notes = s.notes /\ t.lb = s.lb
  BY DEF VirtualService
<1>4. ASSUME NEW n \in 0..MaxNotes PROVE LET t == [s EXCEPT !.notes = n] IN
        t \in VirtualService /\ t.uid = s.uid /\ t.rev = s.rev /\ t.notes = n /\ t.lb = s.lb
  BY DEF VirtualService
<1>5. ASSUME NEW a \in Address PROVE LET t == [s EXCEPT !.lb = a] IN
        t \in VirtualService /\ t.uid = s.uid /\ t.rev = s.rev /\ t.notes = s.notes /\ t.lb = a
  BY DEF VirtualService
<1> QED  BY <1>1, <1>2, <1>3, <1>4, <1>5

\* What a host Service is, and what its writes change.
LEMMA HostServices ==
  ASSUME NEW h \in HostService
  PROVE  /\ h.uid \in Nat /\ h.rev \in Nat /\ h.rev \in 1..MaxRevs /\ h.lb \in Address /\ h # NoSvc
         /\ h.finalizer \in BOOLEAN /\ h.terminating \in BOOLEAN
         /\ \A r \in 1..MaxRevs : LET t == [h EXCEPT !.rev = r] IN
              /\ t \in HostService /\ t.uid = h.uid /\ t.rev = r /\ t.lb = h.lb
              /\ (t.finalizer <=> h.finalizer) /\ (t.terminating <=> h.terminating)
              /\ r = h.rev => t = h
         /\ \A a \in Address : LET t == [h EXCEPT !.lb = a] IN
              /\ t \in HostService /\ t.uid = h.uid /\ t.rev = h.rev /\ t.lb = a
              /\ (t.finalizer <=> h.finalizer) /\ (t.terminating <=> h.terminating)
         /\ LET t == [h EXCEPT !.finalizer = TRUE] IN
              /\ t \in HostService /\ t.uid = h.uid /\ t.rev = h.rev /\ t.lb = h.lb
              /\ t.finalizer /\ (t.terminating <=> h.terminating)
         /\ LET t == [h EXCEPT !.terminating = TRUE] IN
              /\ t \in HostService /\ t.uid = h.uid /\ t.rev = h.rev /\ t.lb = h.lb
              /\ (t.finalizer <=> h.finalizer) /\ t.terminating
<1>1. /\ h.uid \in Nat /\ h.rev \in 1..MaxRevs /\ h.lb \in Address /\ h # NoSvc
      /\ h.finalizer \in BOOLEAN /\ h.terminating \in BOOLEAN
  BY NoSvcAssumption DEF HostService
<1>2. h.rev \in Nat
  BY <1>1, Bounds
<1>3. ASSUME NEW r \in 1..MaxRevs PROVE LET t == [h EXCEPT !.rev = r] IN
        /\ t \in HostService /\ t.uid = h.uid /\ t.rev = r /\ t.lb = h.lb
        /\ (t.finalizer <=> h.finalizer) /\ (t.terminating <=> h.terminating)
        /\ r = h.rev => t = h
  BY DEF HostService
<1>4. ASSUME NEW a \in Address PROVE LET t == [h EXCEPT !.lb = a] IN
        /\ t \in HostService /\ t.uid = h.uid /\ t.rev = h.rev /\ t.lb = a
        /\ (t.finalizer <=> h.finalizer) /\ (t.terminating <=> h.terminating)
  BY DEF HostService
<1>5. LET t == [h EXCEPT !.finalizer = TRUE] IN
        /\ t \in HostService /\ t.uid = h.uid /\ t.rev = h.rev /\ t.lb = h.lb
        /\ t.finalizer /\ (t.terminating <=> h.terminating)
  BY DEF HostService
<1>6. LET t == [h EXCEPT !.terminating = TRUE] IN
        /\ t \in HostService /\ t.uid = h.uid /\ t.rev = h.rev /\ t.lb = h.lb
        /\ (t.finalizer <=> h.finalizer) /\ t.terminating
  BY DEF HostService
<1> QED  BY <1>1, <1>2, <1>3, <1>4, <1>5, <1>6

LEMMA ServicesTyped ==
  ASSUME TypeOK
  PROVE  /\ virt # NoSvc => virt \in VirtualService
         /\ host # NoSvc => host \in HostService
         /\ vSvc # NoSvc => vSvc \in VirtualService
         /\ existing # NoSvc => existing \in HostService
         /\ hostSvc # NoSvc => hostSvc \in HostService
         /\ copy # NoSvc => copy \in VirtualService
         /\ \A i \in 1..Len(vqueue) : vqueue[i] \in Events /\ vqueue[i].svc \in VirtualService
         /\ \A i \in 1..Len(hqueue) : hqueue[i] \in HostService
         /\ Len(vqueue) \in Nat /\ Len(hqueue) \in Nat /\ uids \in Nat /\ revs \in Nat /\ born \in Nat
<1>1. vqueue \in Seq(Events) /\ hqueue \in Seq(HostService)
  BY DEF TypeOK, Events
<1>2. /\ \A i \in 1..Len(vqueue) : vqueue[i] \in Events
      /\ \A i \in 1..Len(hqueue) : hqueue[i] \in HostService
      /\ Len(vqueue) \in Nat /\ Len(hqueue) \in Nat
  BY <1>1, ElementOfSeq, LenProperties
<1>3. \A e \in Events : e.svc \in VirtualService
  BY DEF Events
<1>4. uids \in Nat /\ revs \in Nat /\ born \in Nat
  BY Bounds DEF TypeOK
<1> QED  BY <1>2, <1>3, <1>4 DEF TypeOK

-----------------------------------------------------------------------------
(* What each step does to the two Services and the two queues.             *)

\* The virtual API server tells an open watch of the Service s.
Told(type, s) ==
  /\ vqueue' \in Seq(Events)
  /\ vwatching => /\ vqueue' # << >> /\ Len(vqueue') = Len(vqueue) + 1
                  /\ \A i \in 1..Len(vqueue) : vqueue'[i] = vqueue[i]
                  /\ vqueue'[Len(vqueue) + 1].svc = s
                  /\ vqueue'[Len(vqueue) + 1].type = type
  /\ ~vwatching => vqueue' = vqueue

LEMMA ToldVirtual ==
  ASSUME TypeOK, NEW type \in {"ADDED", "MODIFIED", "DELETED"}, NEW s \in VirtualService,
         TellVirtual(type, s)
  PROVE  Told(type, s)
<1> DEFINE e == [type |-> type, svc |-> s]
<1>1. e \in Events /\ vqueue \in Seq(Events)
  BY DEF TypeOK, Events
<1>2. vqueue' = IF vwatching THEN Append(vqueue, e) ELSE vqueue
  BY DEF TellVirtual
<1>3. e.type = type /\ e.svc = s
  OBVIOUS
<1> HIDE DEF e
<1> QED  BY <1>1, <1>2, <1>3, AppendIs DEF Told

\* The host Service is s now, and an open watch is told when that is a change.
HostTold(s) ==
  /\ host' = s /\ s \in HostService /\ hqueue' \in Seq(HostService)
  /\ hwatching /\ s # host => /\ hqueue' # << >> /\ Len(hqueue') = Len(hqueue) + 1
                              /\ \A i \in 1..Len(hqueue) : hqueue'[i] = hqueue[i]
                              /\ hqueue'[Len(hqueue) + 1] = s
  /\ ~(hwatching /\ s # host) => hqueue' = hqueue

LEMMA ToldHost ==
  ASSUME TypeOK, NEW s \in HostService, SetHost(s)
  PROVE  HostTold(s)
BY AppendIs DEF TypeOK, SetHost, HostTold

\* A queue's first event is handled.
Handled(queue, next) ==
  /\ queue # << >> /\ Len(queue) > 0
  /\ Len(next) \in Nat /\ Len(next) = Len(queue) - 1
  /\ \A i \in 1..Len(next) : i + 1 \in 1..Len(queue) /\ next[i] = queue[i + 1]
  /\ next # << >> => next[Len(next)] = queue[Len(queue)]

LEMMA CreateDoes ==
  ASSUME TypeOK, VirtualCreate
  PROVE  /\ virt = NoSvc /\ virt' \in VirtualService
         /\ uids' = uids + 1 /\ uids' \in 0..MaxUids /\ revs' = revs + 1 /\ revs' \in 0..MaxRevs
         /\ virt'.uid = uids + 1 /\ virt'.rev = revs + 1 /\ virt'.lb = NoAddress
         /\ Told("ADDED", virt')
         /\ UNCHANGED <<vwatching, hvars, vloop, hloop, history>>
<1>1. uids + 1 \in 1..MaxUids /\ revs + 1 \in 1..MaxRevs /\ uids + 1 \in 0..MaxUids
      /\ revs + 1 \in 0..MaxRevs
  BY Bounds DEF TypeOK, VirtualCreate
<1>2. /\ virt' \in VirtualService /\ virt'.uid = uids + 1 /\ virt'.rev = revs + 1
      /\ virt'.lb = NoAddress
  BY <1>1, Bounds DEF VirtualCreate, VirtualService
<1>3. Told("ADDED", virt')
  <2>1. TellVirtual("ADDED", virt')
    BY DEF VirtualCreate
  <2> QED  BY <1>2, <2>1, ToldVirtual
<1> QED  BY <1>1, <1>2, <1>3 DEF VirtualCreate

LEMMA EditDoes ==
  ASSUME TypeOK, VirtualEdit
  PROVE  /\ virt \in VirtualService /\ virt' \in VirtualService
         /\ revs' = revs + 1 /\ revs' \in 0..MaxRevs
         /\ virt'.uid = virt.uid /\ virt'.rev = revs + 1 /\ virt'.lb = virt.lb
         /\ virt'.notes = virt.notes
         /\ Told("MODIFIED", virt')
         /\ UNCHANGED <<vwatching, uids, hvars, vloop, hloop, history>>
<1>1. revs + 1 \in 1..MaxRevs /\ revs + 1 \in 0..MaxRevs
  BY Bounds DEF TypeOK, VirtualEdit
<1>2. virt \in VirtualService
  BY ServicesTyped DEF VirtualEdit
<1>3. virt' = [virt EXCEPT !.rev = revs + 1] /\ TellVirtual("MODIFIED", virt')
  BY DEF VirtualEdit, SetVirtual
<1>4. /\ virt' \in VirtualService /\ virt'.uid = virt.uid /\ virt'.rev = revs + 1
      /\ virt'.lb = virt.lb /\ virt'.notes = virt.notes
  BY <1>1, <1>2, <1>3, VirtualServices
<1> QED  BY <1>1, <1>2, <1>3, <1>4, ToldVirtual DEF VirtualEdit

LEMMA NoteDoes ==
  ASSUME TypeOK, VirtualNote
  PROVE  /\ virt \in VirtualService /\ virt' \in VirtualService
         /\ virt'.uid = virt.uid /\ virt'.rev = virt.rev /\ virt'.lb = virt.lb
         /\ virt'.notes = virt.notes + 1
         /\ Told("MODIFIED", virt')
         /\ UNCHANGED <<vwatching, uids, revs, hvars, vloop, hloop, history>>
<1>1. virt \in VirtualService
  BY ServicesTyped DEF VirtualNote
<1>2. virt.notes + 1 \in 0..MaxNotes
  BY <1>1, Bounds, VirtualServices DEF VirtualNote
<1>3. virt' = [virt EXCEPT !.notes = virt.notes + 1] /\ TellVirtual("MODIFIED", virt')
  BY DEF VirtualNote, SetVirtual
<1>4. /\ virt' \in VirtualService /\ virt'.uid = virt.uid /\ virt'.rev = virt.rev
      /\ virt'.lb = virt.lb /\ virt'.notes = virt.notes + 1
  BY <1>1, <1>2, <1>3, VirtualServices
<1> QED  BY <1>1, <1>3, <1>4, ToldVirtual DEF VirtualNote

LEMMA DeleteDoes ==
  ASSUME TypeOK, VirtualDelete
  PROVE  /\ virt \in VirtualService /\ virt' = NoSvc
         /\ Told("DELETED", virt)
         /\ lossless' = (lossless /\ vwatching)
         /\ UNCHANGED <<vwatching, uids, revs, hvars, vloop, hloop, faults, unhealed>>
<1>1. virt \in VirtualService /\ TellVirtual("DELETED", virt)
  BY ServicesTyped DEF VirtualDelete
<1> QED  BY <1>1, ToldVirtual DEF VirtualDelete

LEMMA FinalizerDoes ==
  ASSUME TypeOK, HostFinalizer
  PROVE  /\ host \in HostService /\ host' \in HostService /\ HostTold(host') /\ host' # host
         /\ host'.uid = host.uid /\ host'.rev = host.rev /\ host'.lb = host.lb
         /\ ~host.finalizer /\ host'.finalizer /\ ~host.terminating /\ ~host'.terminating
         /\ UNCHANGED <<vvars, hwatching, born, vloop, hloop, history>>
<1>1. host \in HostService
  BY ServicesTyped DEF HostFinalizer
<1> DEFINE s == [host EXCEPT !.finalizer = TRUE]
<1>2. SetHost(s) /\ ~host.finalizer /\ ~host.terminating
      /\ UNCHANGED <<vvars, hwatching, born, vloop, hloop, history>>
  BY DEF HostFinalizer
<1>3. /\ s \in HostService /\ s.uid = host.uid /\ s.rev = host.rev /\ s.lb = host.lb
      /\ s.finalizer /\ (s.terminating <=> host.terminating)
  BY <1>1, HostServices
<1> HIDE DEF s
<1>4. HostTold(s)
  BY <1>2, <1>3, ToldHost
<1> QED  BY <1>1, <1>2, <1>3, <1>4 DEF HostTold

LEMMA AssignDoes ==
  ASSUME TypeOK, HostAssign
  PROVE  /\ host \in HostService /\ host' \in HostService /\ HostTold(host') /\ host' # host
         /\ host'.uid = host.uid /\ host'.rev = host.rev
         /\ host'.lb.from = host.uid /\ host'.lb.level = host.lb.level + 1
         /\ host.finalizer /\ host'.finalizer /\ ~host.terminating /\ ~host'.terminating
         /\ UNCHANGED <<vvars, hwatching, born, vloop, hloop, history>>
<1>1. host \in HostService
  BY ServicesTyped DEF HostAssign
<1> DEFINE a == [from |-> host.uid, level |-> host.lb.level + 1]
<1>2. SetHost([host EXCEPT !.lb = a]) /\ host.finalizer /\ ~host.terminating
      /\ host.lb.level < MaxLevel
      /\ UNCHANGED <<vvars, hwatching, born, vloop, hloop, history>>
  <2>1. [host EXCEPT !.lb = [from |-> host.uid, level |-> @.level + 1]] = [host EXCEPT !.lb = a]
    BY <1>1 DEF HostService
  <2> QED  BY <2>1 DEF HostAssign
<1>3. a \in Address /\ a.from = host.uid /\ a.level = host.lb.level + 1 /\ a # host.lb
  <2>1. host.lb \in Address /\ host.uid \in Nat
    BY <1>1, HostServices
  <2>2. host.lb.level \in Nat
    BY <2>1, Addresses
  <2>3. host.lb.level + 1 \in 0..MaxLevel
    BY <1>2, <2>2, Bounds
  <2>4. a \in Address /\ a.from = host.uid /\ a.level = host.lb.level + 1
    BY <2>1, <2>3 DEF Address
  <2> HIDE DEF a
  <2> QED  BY <2>2, <2>4
<1> HIDE DEF a
<1> DEFINE s == [host EXCEPT !.lb = a]
<1>4. /\ s \in HostService /\ s.uid = host.uid /\ s.rev = host.rev /\ s.lb = a
      /\ (s.finalizer <=> host.finalizer) /\ (s.terminating <=> host.terminating)
  BY <1>1, <1>3, HostServices
<1>5. SetHost(s)
  BY <1>2
<1> HIDE DEF s
<1>6. HostTold(s)
  BY <1>4, <1>5, ToldHost
<1> QED  BY <1>1, <1>2, <1>3, <1>4, <1>6 DEF HostTold

LEMMA HostDeleteDoes ==
  ASSUME TypeOK, HostDeleteCall
  PROVE  \/ host' = NoSvc /\ UNCHANGED hqueue
         \/ /\ host \in HostService /\ host' \in HostService /\ HostTold(host')
            /\ host'.uid = host.uid /\ host'.rev = host.rev /\ host'.lb = host.lb
            /\ (host'.finalizer <=> host.finalizer) /\ host'.terminating
<1>1. CASE host # NoSvc /\ host.finalizer
  <2>1. host \in HostService
    BY <1>1, ServicesTyped
  <2> DEFINE s == [host EXCEPT !.terminating = TRUE]
  <2>2. SetHost(s)
    BY <1>1 DEF HostDeleteCall
  <2>3. /\ s \in HostService /\ s.uid = host.uid /\ s.rev = host.rev /\ s.lb = host.lb
        /\ (s.finalizer <=> host.finalizer) /\ s.terminating
    BY <2>1, HostServices
  <2> HIDE DEF s
  <2>4. HostTold(s)
    BY <2>2, <2>3, ToldHost
  <2> QED  BY <2>1, <2>3, <2>4 DEF HostTold
<1>2. CASE ~(host # NoSvc /\ host.finalizer)
  BY <1>2 DEF HostDeleteCall
<1> QED  BY <1>1, <1>2

\* The event syncServices handles.
LEMMA HeadIs ==
  ASSUME TypeOK, vpc = "idle", vqueue # << >>, vqueue' = Tail(vqueue)
  PROVE  /\ Head(vqueue) = vqueue[1] /\ 1 \in 1..Len(vqueue) /\ Head(vqueue) \in Events
         /\ Head(vqueue).svc \in VirtualService
         /\ vqueue' \in Seq(Events) /\ Handled(vqueue, vqueue')
         /\ vqueue' = << >> => Head(vqueue) = vqueue[Len(vqueue)]
<1>1. vqueue \in Seq(Events)
  BY DEF TypeOK, Events
<1>2. /\ Head(vqueue) = vqueue[1] /\ Head(vqueue) \in Events /\ Tail(vqueue) \in Seq(Events)
      /\ Len(vqueue) \in Nat /\ Len(vqueue) > 0 /\ Len(Tail(vqueue)) = Len(vqueue) - 1
      /\ \A i \in 1..Len(Tail(vqueue)) : i + 1 \in 1..Len(vqueue) /\ Tail(vqueue)[i] = vqueue[i + 1]
      /\ Tail(vqueue) # << >> => Tail(vqueue)[Len(Tail(vqueue))] = vqueue[Len(vqueue)]
      /\ Tail(vqueue) = << >> => Head(vqueue) = vqueue[Len(vqueue)]
  BY <1>1, TailIs
<1>3. Head(vqueue).svc \in VirtualService
  BY <1>2 DEF Events
<1>4. Len(Tail(vqueue)) \in Nat
  BY <1>2
<1> QED  BY <1>2, <1>3, <1>4 DEF Handled

LEMMA HostHeadIs ==
  ASSUME TypeOK, hqueue # << >>, hqueue' = Tail(hqueue)
  PROVE  /\ Head(hqueue) = hqueue[1] /\ 1 \in 1..Len(hqueue) /\ Head(hqueue) \in HostService
         /\ hqueue' \in Seq(HostService) /\ Handled(hqueue, hqueue')
         /\ hqueue' = << >> => Head(hqueue) = hqueue[Len(hqueue)]
<1>1. hqueue \in Seq(HostService)
  BY DEF TypeOK
<1>2. /\ Head(hqueue) = hqueue[1] /\ Head(hqueue) \in HostService /\ Tail(hqueue) \in Seq(HostService)
      /\ Len(hqueue) \in Nat /\ Len(hqueue) > 0 /\ Len(Tail(hqueue)) = Len(hqueue) - 1
      /\ \A i \in 1..Len(Tail(hqueue)) : i + 1 \in 1..Len(hqueue) /\ Tail(hqueue)[i] = hqueue[i + 1]
      /\ Tail(hqueue) # << >> => Tail(hqueue)[Len(Tail(hqueue))] = hqueue[Len(hqueue)]
      /\ Tail(hqueue) = << >> => Head(hqueue) = hqueue[Len(hqueue)]
  BY <1>1, TailIs
<1>3. Len(Tail(hqueue)) \in Nat
  BY <1>2
<1> QED  BY <1>2, <1>3 DEF Handled

LEMMA CreateHostDoes ==
  ASSUME TypeOK, CreateHostService
  PROVE  /\ host = NoSvc /\ host' \in HostService /\ HostTold(host') /\ host' # host
         /\ born' = born + 1 /\ host'.uid = born + 1 /\ host'.rev = Head(vqueue).svc.rev
         /\ host'.lb = NoAddress /\ ~host'.terminating
         /\ vpc = "idle" /\ vqueue # << >> /\ vqueue' = Tail(vqueue) /\ Head(vqueue).type # "DELETED"
         /\ UNCHANGED <<virt, vwatching, uids, revs, hwatching, vloop, hloop, history>>
<1>1. /\ vpc = "idle" /\ vqueue # << >> /\ vqueue' = Tail(vqueue) /\ Head(vqueue).type # "DELETED"
      /\ host = NoSvc /\ born' = born + 1
      /\ UNCHANGED <<virt, vwatching, uids, revs, hwatching, vloop, hloop, history>>
  BY DEF CreateHostService, Upsert
<1> DEFINE r == Head(vqueue).svc.rev
           s == [uid |-> born + 1, rev |-> r, lb |-> NoAddress,
                 finalizer |-> FALSE, terminating |-> FALSE]
<1>2. r \in 1..MaxRevs
  BY <1>1, HeadIs, VirtualServices
<1>3. SetHost(s)
  BY DEF CreateHostService
<1> HIDE DEF r
<1>4. /\ s \in HostService /\ s.uid = born + 1 /\ s.rev = r /\ s.lb = NoAddress
      /\ ~s.terminating
  BY <1>2, Bounds, ServicesTyped DEF HostService
<1> HIDE DEF s
<1>5. HostTold(s)
  BY <1>3, <1>4, ToldHost
<1>6. s # NoSvc
  BY <1>4, HostServices
<1> QED  BY <1>1, <1>4, <1>5, <1>6 DEF HostTold, r

LEMMA GetHostDoes ==
  ASSUME TypeOK, GetHostService
  PROVE  /\ host \in HostService /\ existing' = host /\ vSvc' = Head(vqueue).svc /\ vpc' = "update"
         /\ vpc = "idle" /\ vqueue # << >> /\ vqueue' = Tail(vqueue) /\ Head(vqueue).type # "DELETED"
         /\ UNCHANGED <<virt, vwatching, uids, revs, hvars, hloop, history>>
BY ServicesTyped DEF GetHostService, Upsert

LEMMA UpdateHostDoes ==
  ASSUME TypeOK, HandlerInv, UpdateHostService
  PROVE  /\ vpc = "update" /\ vpc' = "idle" /\ vSvc' = NoSvc /\ existing' = NoSvc
         /\ vSvc \in VirtualService /\ existing \in HostService
         /\ \/ host # existing /\ UNCHANGED <<host, hqueue>>
            \/ /\ host = existing /\ host \in HostService /\ host' \in HostService /\ HostTold(host')
               /\ host'.uid = host.uid /\ host'.rev = vSvc.rev /\ host'.lb = host.lb
               /\ (host'.finalizer <=> host.finalizer) /\ (host'.terminating <=> host.terminating)
               /\ vSvc.rev = host.rev => host' = host
         /\ unhealed' \in BOOLEAN
         /\ unhealed' <=> (unhealed \/ (host # existing /\ host # NoSvc /\ host.lb = existing.lb))
         /\ UNCHANGED <<vvars, hwatching, born, hloop, faults, lossless>>
<1>1. /\ vpc = "update" /\ vpc' = "idle" /\ vSvc' = NoSvc /\ existing' = NoSvc
      /\ unhealed' = (unhealed \/ (host # existing /\ host # NoSvc /\ host.lb = existing.lb))
      /\ UNCHANGED <<vvars, hwatching, born, hloop, faults, lossless>>
  BY DEF UpdateHostService, ToHostReturns
<1>2. vSvc \in VirtualService /\ existing \in HostService
  BY <1>1, ServicesTyped DEF HandlerInv
<1>3. ASSUME host = existing
      PROVE  /\ host \in HostService /\ host' \in HostService /\ HostTold(host')
             /\ host'.uid = host.uid /\ host'.rev = vSvc.rev /\ host'.lb = host.lb
             /\ (host'.finalizer <=> host.finalizer) /\ (host'.terminating <=> host.terminating)
             /\ vSvc.rev = host.rev => host' = host
  <2> DEFINE s == [host EXCEPT !.rev = vSvc.rev]
  <2>1. SetHost(s) /\ host \in HostService
    BY <1>2, <1>3 DEF UpdateHostService
  <2>2. /\ s \in HostService /\ s.uid = host.uid /\ s.rev = vSvc.rev /\ s.lb = host.lb
        /\ (s.finalizer <=> host.finalizer) /\ (s.terminating <=> host.terminating)
        /\ vSvc.rev = host.rev => s = host
    <3>1. vSvc.rev \in 1..MaxRevs
      BY <1>2, VirtualServices
    <3> HIDE DEF s
    <3>2. s = [host EXCEPT !.rev = vSvc.rev]
      BY DEF s
    <3>3. \A r \in 1..MaxRevs : LET t == [host EXCEPT !.rev = r] IN
            /\ t \in HostService /\ t.uid = host.uid /\ t.rev = r /\ t.lb = host.lb
            /\ (t.finalizer <=> host.finalizer) /\ (t.terminating <=> host.terminating)
            /\ r = host.rev => t = host
      BY <2>1, HostServices
    <3> QED  BY <3>1, <3>2, <3>3
  <2> HIDE DEF s
  <2>3. HostTold(s)
    BY <2>1, <2>2, ToldHost
  <2> QED  BY <1>2, <1>3, <2>2, <2>3 DEF HostTold
<1>4. host # existing => UNCHANGED <<host, hqueue>>
  BY DEF UpdateHostService
<1>5. unhealed \in BOOLEAN
  BY DEF TypeOK
<1> QED  BY <1>1, <1>2, <1>3, <1>4, <1>5

LEMMA ReceiveDoes ==
  ASSUME TypeOK, ReceiveHostService
  PROVE  /\ hpc = "idle" /\ hqueue # << >> /\ hqueue' = Tail(hqueue)
         /\ \/ /\ hpc' = "idle" /\ hostSvc' = NoSvc /\ copy' = NoSvc
               /\ virt = NoSvc \/ SameAddress(virt.lb, Head(hqueue).lb)
            \/ /\ hpc' = "update" /\ hostSvc' = Head(hqueue) /\ copy' = virt
               /\ virt \in VirtualService
         /\ UNCHANGED <<vvars, host, hwatching, born, vloop, history>>
<1>1. CASE virt = NoSvc \/ SameAddress(virt.lb, Head(hqueue).lb)
  BY <1>1 DEF ReceiveHostService, FromHostReturns
<1>2. CASE ~(virt = NoSvc \/ SameAddress(virt.lb, Head(hqueue).lb))
  BY <1>2, ServicesTyped DEF ReceiveHostService
<1> QED  BY <1>1, <1>2

LEMMA UpdateStatusDoes ==
  ASSUME TypeOK, HandlerInv, UpdateStatus
  PROVE  /\ hpc = "update" /\ hpc' = "idle" /\ hostSvc' = NoSvc /\ copy' = NoSvc
         /\ hostSvc \in HostService /\ copy \in VirtualService
         /\ \/ virt # copy /\ UNCHANGED <<virt, vqueue>>
            \/ /\ virt = copy /\ virt \in VirtualService /\ virt' \in VirtualService
               /\ virt'.uid = virt.uid /\ virt'.rev = virt.rev /\ virt'.notes = virt.notes
               /\ virt'.lb = hostSvc.lb
               /\ Told("MODIFIED", virt')
         /\ unhealed' \in BOOLEAN
         /\ unhealed' <=> (unhealed \/ (virt # copy /\ virt # NoSvc /\ virt.rev = copy.rev))
         /\ UNCHANGED <<vwatching, uids, revs, hvars, vloop, faults, lossless>>
<1>1. /\ hpc = "update" /\ hpc' = "idle" /\ hostSvc' = NoSvc /\ copy' = NoSvc
      /\ unhealed' = (unhealed \/ (virt # copy /\ virt # NoSvc /\ virt.rev = copy.rev))
      /\ UNCHANGED <<vwatching, uids, revs, hvars, vloop, faults, lossless>>
  BY DEF UpdateStatus, FromHostReturns
<1>2. hostSvc \in HostService /\ copy \in VirtualService
  BY <1>1, ServicesTyped DEF HandlerInv
<1>3. ASSUME virt = copy
      PROVE  /\ virt \in VirtualService /\ virt' \in VirtualService
             /\ virt'.uid = virt.uid /\ virt'.rev = virt.rev /\ virt'.notes = virt.notes
             /\ virt'.lb = hostSvc.lb
             /\ Told("MODIFIED", virt')
  <2>1. virt' = [virt EXCEPT !.lb = hostSvc.lb] /\ TellVirtual("MODIFIED", virt')
    BY <1>3 DEF UpdateStatus, SetVirtual
  <2>2. /\ virt' \in VirtualService /\ virt'.uid = virt.uid /\ virt'.rev = virt.rev
        /\ virt'.notes = virt.notes /\ virt'.lb = hostSvc.lb
    <3>1. hostSvc.lb \in Address /\ virt \in VirtualService
      BY <1>2, <1>3, HostServices
    <3>2. \A a \in Address : LET t == [virt EXCEPT !.lb = a] IN
            t \in VirtualService /\ t.uid = virt.uid /\ t.rev = virt.rev /\ t.notes = virt.notes /\ t.lb = a
      BY <3>1, VirtualServices
    <3> QED  BY <2>1, <3>1, <3>2
  <2> QED  BY <1>2, <1>3, <2>1, <2>2, ToldVirtual
<1>4. virt # copy => UNCHANGED <<virt, vqueue>>
  BY DEF UpdateStatus
<1>5. unhealed \in BOOLEAN
  BY DEF TypeOK
<1> QED  BY <1>1, <1>2, <1>3, <1>4, <1>5

LEMMA OpenDoes ==
  ASSUME TypeOK, OpenServices
  PROVE  /\ ~vwatching /\ vwatching' = TRUE /\ vqueue' \in Seq(Events)
         /\ virt = NoSvc => vqueue' = << >>
         /\ virt # NoSvc => Len(vqueue') = 1 /\ vqueue' # << >> /\ vqueue'[1].svc = virt
         /\ UNCHANGED <<virt, uids, revs, hvars, vloop, hloop, history>>
<1> DEFINE e == [type |-> "ADDED", svc |-> virt]
<1>1. virt # NoSvc => e \in Events /\ e.svc = virt
  BY ServicesTyped DEF Events
<1>2. /\ ~vwatching /\ vwatching' = TRUE
      /\ virt = NoSvc => vqueue' = << >>
      /\ virt # NoSvc => vqueue' = <<e>>
      /\ UNCHANGED <<virt, uids, revs, hvars, vloop, hloop, history>>
  BY DEF OpenServices
<1>3. << >> \in Seq(Events)
  OBVIOUS
<1> HIDE DEF e
<1> QED  BY <1>1, <1>2, <1>3, SingleIs

LEMMA OpenHostDoes ==
  ASSUME TypeOK, OpenHostServices
  PROVE  /\ ~hwatching /\ hwatching' = TRUE /\ hqueue' \in Seq(HostService)
         /\ host = NoSvc => hqueue' = << >>
         /\ host # NoSvc => Len(hqueue') = 1 /\ hqueue' # << >> /\ hqueue'[1] = host
         /\ UNCHANGED <<vvars, host, born, vloop, hloop, history>>
<1>1. /\ ~hwatching /\ hwatching' = TRUE
      /\ host = NoSvc => hqueue' = << >>
      /\ host # NoSvc => hqueue' = <<host>>
      /\ UNCHANGED <<vvars, host, born, vloop, hloop, history>>
  BY DEF OpenHostServices
<1>2. << >> \in Seq(HostService)
  OBVIOUS
<1> QED  BY <1>1, <1>2, ServicesTyped, SingleIs

\* What a failed call, a closed watch and a restart leave: a shorter queue or none, and
\* a handler that goes on or is back at its loop.
LEMMA FaultDoes ==
  ASSUME TypeOK, Faults
  PROVE  /\ UNCHANGED <<virt, host, uids, revs, born>> /\ lossless' = FALSE /\ unhealed' = unhealed
         /\ \/ UNCHANGED <<vwatching, vqueue>>
            \/ vwatching' = FALSE /\ vqueue' = << >> /\ vpc' = "idle"
            \/ vqueue # << >> /\ vqueue' = Tail(vqueue) /\ vpc = "idle" /\ vwatching' = vwatching
         /\ UNCHANGED vloop \/ (vpc' = "idle" /\ vSvc' = NoSvc /\ existing' = NoSvc)
         /\ \/ UNCHANGED <<hwatching, hqueue>>
            \/ hwatching' = FALSE /\ hqueue' = << >> /\ hpc' = "idle"
            \/ hqueue # << >> /\ hqueue' = Tail(hqueue) /\ hpc = "idle" /\ hwatching' = hwatching
         /\ UNCHANGED hloop \/ (hpc' = "idle" /\ hostSvc' = NoSvc /\ copy' = NoSvc)
         /\ faults' \in 0..MaxFaults
<1>1. faults < MaxFaults => faults + 1 \in 0..MaxFaults
  BY Bounds DEF TypeOK
<1>2. faults \in 0..MaxFaults
  BY DEF TypeOK
<1>3. CASE CloseServices
  BY <1>2, <1>3 DEF CloseServices, hvars, vloop, hloop
<1>4. CASE CloseHostServices
  BY <1>2, <1>4 DEF CloseHostServices, vvars, vloop, hloop
<1>5. CASE FailServices
  BY <1>1, <1>5 DEF FailServices, ToHostReturns, hvars, vloop, hloop
<1>6. CASE FailHostServices
  BY <1>1, <1>6 DEF FailHostServices, FromHostReturns, vvars, vloop, hloop
<1>7. CASE Restart
  BY <1>1, <1>7 DEF Restart, ToHostReturns, FromHostReturns
<1> QED  BY <1>3, <1>4, <1>5, <1>6, <1>7 DEF Faults

-----------------------------------------------------------------------------
(* Each part of the invariant is preserved by every step.                  *)

LEMMA TypeStep ==
  ASSUME TypeOK, HandlerInv, [Next]_vars
  PROVE  TypeOK' /\ HandlerInv'
<1> DEFINE VTyped == /\ virt' \in VirtualService \cup {NoSvc} /\ vwatching' \in BOOLEAN
                     /\ vqueue' \in Seq(Events)
                     /\ uids' \in 0..MaxUids /\ revs' \in 0..MaxRevs
           HTyped == /\ host' \in HostService \cup {NoSvc} /\ hwatching' \in BOOLEAN
                     /\ hqueue' \in Seq(HostService) /\ born' \in Nat
           VLoop == /\ vpc' \in {"idle", "update"}
                    /\ vSvc' \in VirtualService \cup {NoSvc} /\ existing' \in HostService \cup {NoSvc}
                    /\ vpc' = "update" => vSvc' # NoSvc /\ existing' # NoSvc
           HLoop == /\ hpc' \in {"idle", "update"}
                    /\ hostSvc' \in HostService \cup {NoSvc} /\ copy' \in VirtualService \cup {NoSvc}
                    /\ hpc' = "update" => hostSvc' # NoSvc /\ copy' # NoSvc
           Rest == faults' \in 0..MaxFaults /\ lossless' \in BOOLEAN /\ unhealed' \in BOOLEAN
<1>1. SUFFICES VTyped /\ HTyped /\ VLoop /\ HLoop /\ Rest
  BY DEF TypeOK, HandlerInv, Events
<1>2. /\ UNCHANGED vvars => VTyped
      /\ UNCHANGED hvars => HTyped
      /\ UNCHANGED vloop => VLoop
      /\ UNCHANGED hloop => HLoop
      /\ UNCHANGED history => Rest
      /\ UNCHANGED virt => virt' \in VirtualService \cup {NoSvc}
      /\ UNCHANGED vwatching => vwatching' \in BOOLEAN
      /\ UNCHANGED vqueue => vqueue' \in Seq(Events)
      /\ UNCHANGED uids => uids' \in 0..MaxUids
      /\ UNCHANGED revs => revs' \in 0..MaxRevs
      /\ UNCHANGED host => host' \in HostService \cup {NoSvc}
      /\ UNCHANGED hwatching => hwatching' \in BOOLEAN
      /\ UNCHANGED hqueue => hqueue' \in Seq(HostService)
      /\ UNCHANGED born => born' \in Nat
      /\ UNCHANGED faults => faults' \in 0..MaxFaults
      /\ UNCHANGED lossless => lossless' \in BOOLEAN
      /\ UNCHANGED unhealed => unhealed' \in BOOLEAN
  BY DEF TypeOK, HandlerInv, vvars, hvars, vloop, hloop, history, Events
<1>3. \A type, s : Told(type, s) => vqueue' \in Seq(Events)
  BY DEF Told
<1>4. \A s : HostTold(s) => host' \in HostService \cup {NoSvc} /\ hqueue' \in Seq(HostService)
  BY DEF HostTold
<1> HIDE DEF VTyped, HTyped, VLoop, HLoop, Rest
<1>5. CASE VirtualCreate
  <2>1. VTyped
    BY <1>2, <1>3, <1>5, CreateDoes DEF VTyped
  <2> QED  BY <1>2, <1>5, <2>1, CreateDoes
<1>6. CASE VirtualEdit
  <2>1. VTyped
    BY <1>2, <1>3, <1>6, EditDoes DEF VTyped
  <2> QED  BY <1>2, <1>6, <2>1, EditDoes
<1>7. CASE VirtualNote
  <2>1. VTyped
    BY <1>2, <1>3, <1>7, NoteDoes DEF VTyped
  <2> QED  BY <1>2, <1>7, <2>1, NoteDoes
<1>8. CASE VirtualDelete
  <2>1. VTyped
    BY <1>2, <1>3, <1>8, DeleteDoes DEF VTyped
  <2>2. Rest
    BY <1>2, <1>8, DeleteDoes DEF Rest, TypeOK
  <2> QED  BY <1>2, <1>8, <2>1, <2>2, DeleteDoes
<1>9. CASE HostFinalizer
  <2>1. HTyped
    BY <1>2, <1>4, <1>9, FinalizerDoes DEF HTyped
  <2> QED  BY <1>2, <1>9, <2>1, FinalizerDoes
<1>10. CASE HostAssign
  <2>1. HTyped
    BY <1>2, <1>4, <1>10, AssignDoes DEF HTyped
  <2> QED  BY <1>2, <1>10, <2>1, AssignDoes
<1>11. CASE HostCleanedUp
  BY <1>2, <1>11 DEF HostCleanedUp, HTyped
<1>12. CASE OpenServices
  <2>1. VTyped
    BY <1>2, <1>12, OpenDoes DEF VTyped
  <2> QED  BY <1>2, <1>12, <2>1, OpenDoes
<1>13. CASE CreateHostService
  <2>1. HTyped
    <3>1. born' \in Nat
      BY <1>13, CreateHostDoes, ServicesTyped
    <3> QED  BY <1>2, <1>4, <1>13, <3>1, CreateHostDoes DEF HTyped
  <2>2. VTyped
    BY <1>2, <1>13, HeadIs, CreateHostDoes DEF VTyped
  <2> QED  BY <1>2, <1>13, <2>1, <2>2, CreateHostDoes
<1>14. CASE GetHostService
  <2>1. VTyped
    BY <1>2, <1>14, HeadIs, GetHostDoes DEF VTyped
  <2>2. VLoop
    <3>1. /\ host \in HostService /\ existing' = host /\ vSvc' = Head(vqueue).svc /\ vpc' = "update"
          /\ Head(vqueue).svc \in VirtualService
      BY <1>14, HeadIs, GetHostDoes
    <3> QED  BY <3>1, VirtualServices, HostServices DEF VLoop
  <2> QED  BY <1>2, <1>14, <2>1, <2>2, GetHostDoes
<1>15. CASE HandleDelete
  <2>1. VTyped
    BY <1>2, <1>15, HeadIs DEF HandleDelete, VTyped
  <2>2. HTyped
    <3>1. HostDeleteCall /\ UNCHANGED <<hwatching, born>>
      BY <1>15 DEF HandleDelete
    <3> QED  BY <1>2, <1>4, <3>1, HostDeleteDoes DEF HTyped
  <2> QED  BY <1>2, <1>15, <2>1, <2>2 DEF HandleDelete
<1>16. CASE UpdateHostService
  <2>1. HTyped
    BY <1>2, <1>4, <1>16, UpdateHostDoes DEF HTyped
  <2>2. VLoop /\ Rest
    BY <1>2, <1>16, UpdateHostDoes DEF VLoop, Rest
  <2> QED  BY <1>2, <1>16, <2>1, <2>2, UpdateHostDoes
<1>17. CASE OpenHostServices
  <2>1. HTyped
    BY <1>2, <1>17, OpenHostDoes DEF HTyped
  <2> QED  BY <1>2, <1>17, <2>1, OpenHostDoes
<1>18. CASE ReceiveHostService
  <2>1. HTyped
    BY <1>2, <1>18, HostHeadIs, ReceiveDoes DEF HTyped
  <2>2. HLoop
    <3>1. Head(hqueue) \in HostService /\ Head(hqueue) # NoSvc
      BY <1>18, HostHeadIs, ReceiveDoes, HostServices
    <3>2. virt \in VirtualService => virt # NoSvc
      BY VirtualServices
    <3> QED  BY <1>18, <3>1, <3>2, ReceiveDoes DEF HLoop
  <2> QED  BY <1>2, <1>18, <2>1, <2>2, ReceiveDoes
<1>19. CASE UpdateStatus
  <2>1. VTyped
    BY <1>2, <1>3, <1>19, UpdateStatusDoes DEF VTyped
  <2>2. HLoop /\ Rest
    BY <1>2, <1>19, UpdateStatusDoes DEF HLoop, Rest
  <2> QED  BY <1>2, <1>19, <2>1, <2>2, UpdateStatusDoes
<1>20. CASE Faults
  <2>1. VTyped
    <3>1. vqueue' \in Seq(Events) /\ vwatching' \in BOOLEAN
      <4>1. CASE UNCHANGED <<vwatching, vqueue>>
        BY <1>2, <4>1
      <4>2. CASE vwatching' = FALSE /\ vqueue' = << >>
        <5>1. << >> \in Seq(Events)
          OBVIOUS
        <5> QED  BY <4>2, <5>1
      <4>3. CASE vqueue # << >> /\ vqueue' = Tail(vqueue) /\ vpc = "idle" /\ vwatching' = vwatching
        BY <1>2, <4>3, HeadIs
      <4> QED  BY <1>20, <4>1, <4>2, <4>3, FaultDoes
    <3> QED  BY <1>2, <1>20, <3>1, FaultDoes DEF VTyped
  <2>2. HTyped
    <3>1. hqueue' \in Seq(HostService) /\ hwatching' \in BOOLEAN
      <4>1. CASE UNCHANGED <<hwatching, hqueue>>
        BY <1>2, <4>1
      <4>2. CASE hwatching' = FALSE /\ hqueue' = << >>
        <5>1. << >> \in Seq(HostService)
          OBVIOUS
        <5> QED  BY <4>2, <5>1
      <4>3. CASE hqueue # << >> /\ hqueue' = Tail(hqueue) /\ hwatching' = hwatching
        BY <1>2, <4>3, HostHeadIs
      <4> QED  BY <1>20, <4>1, <4>2, <4>3, FaultDoes
    <3> QED  BY <1>2, <1>20, <3>1, FaultDoes DEF HTyped
  <2>3. VLoop
    BY <1>2, <1>20, FaultDoes DEF VLoop
  <2>4. HLoop
    BY <1>2, <1>20, FaultDoes DEF HLoop
  <2>5. Rest
    BY <1>2, <1>20, FaultDoes DEF Rest
  <2> QED  BY <2>1, <2>2, <2>3, <2>4, <2>5
<1>21. CASE UNCHANGED vars
  BY <1>2, <1>21 DEF vars
<1> QED
  BY <1>5, <1>6, <1>7, <1>8, <1>9, <1>10, <1>11, <1>12, <1>13, <1>14, <1>15, <1>16, <1>17, <1>18,
     <1>19, <1>20, <1>21
  DEF Next, Users, HostCluster, ServicesLoop, HostServicesLoop, ReceiveService

LEMMA LatestStep ==
  ASSUME TypeOK, TypeOK', HandlerInv, LatestInv, [Next]_vars
  PROVE  LatestInv'
<1> DEFINE VLatest ==
             /\ ~vwatching' => vqueue' = << >>
             /\ vwatching' /\ virt' # NoSvc =>
                  /\ vqueue' # << >> => vqueue'[Len(vqueue')].svc = virt'
                  /\ vqueue' = << >> /\ vpc' = "update" => vSvc' = virt'
           HLatest ==
             hwatching' /\ host' # NoSvc =>
               /\ hqueue' # << >> => hqueue'[Len(hqueue')] = host'
               /\ hqueue' = << >> /\ hpc' = "update" => hostSvc' = host'
<1>1. SUFFICES VLatest /\ HLatest
  BY DEF LatestInv
<1>2. UNCHANGED <<virt, vwatching, vqueue>> /\ (UNCHANGED vloop \/ vpc' = "idle") => VLatest
  BY DEF LatestInv, vloop
<1>3. UNCHANGED <<host, hwatching, hqueue>> /\ (UNCHANGED hloop \/ hpc' = "idle") => HLatest
  BY DEF LatestInv, hloop
<1>4. ASSUME NEW type, NEW s, Told(type, s), virt' = s \/ virt' = NoSvc, UNCHANGED vwatching
      PROVE  VLatest
  BY <1>4, ServicesTyped DEF Told, LatestInv
<1>5. ASSUME host # NoSvc \/ host' # host, HostTold(host'), UNCHANGED hwatching, UNCHANGED hloop
      PROVE  HLatest
  <2>1. CASE hwatching /\ host' # host
    BY <1>5, <2>1, ServicesTyped DEF HostTold
  <2>2. CASE ~(hwatching /\ host' # host)
    BY <1>5, <2>2 DEF HostTold, LatestInv, hloop
  <2> QED  BY <2>1, <2>2
<1>6. ASSUME vpc = "idle", vqueue # << >>, vqueue' = Tail(vqueue), UNCHANGED <<virt, vwatching>>,
             vpc' = "update" => vSvc' = Head(vqueue).svc
      PROVE  VLatest
  BY <1>6, HeadIs DEF Handled, LatestInv
<1>7. ASSUME hpc = "idle", hqueue # << >>, hqueue' = Tail(hqueue), UNCHANGED <<host, hwatching>>,
             hpc' = "update" => hostSvc' = Head(hqueue)
      PROVE  HLatest
  BY <1>7, HostHeadIs DEF Handled, LatestInv
<1> HIDE DEF VLatest, HLatest
<1>8. CASE Users
  <2>1. CASE VirtualCreate
    BY <1>3, <1>4, <2>1, CreateDoes DEF hvars
  <2>2. CASE VirtualEdit
    BY <1>3, <1>4, <2>2, EditDoes DEF hvars
  <2>3. CASE VirtualNote
    BY <1>3, <1>4, <2>3, NoteDoes DEF hvars
  <2>4. CASE VirtualDelete
    BY <1>3, <1>4, <2>4, DeleteDoes DEF hvars
  <2> QED  BY <1>8, <2>1, <2>2, <2>3, <2>4 DEF Users
<1>9. CASE HostCluster
  <2>1. CASE HostFinalizer
    BY <1>2, <1>5, <2>1, FinalizerDoes DEF vvars
  <2>2. CASE HostAssign
    BY <1>2, <1>5, <2>2, AssignDoes DEF vvars
  <2>3. CASE HostCleanedUp
    BY <1>2, <2>3 DEF HostCleanedUp, vvars, HLatest
  <2> QED  BY <1>9, <2>1, <2>2, <2>3 DEF HostCluster
<1>10. CASE OpenServices
  BY <1>3, <1>10, OpenDoes DEF VLatest, hvars
<1>11. CASE CreateHostService
  BY <1>5, <1>6, <1>11, CreateHostDoes DEF vloop
<1>12. CASE GetHostService
  BY <1>3, <1>6, <1>12, GetHostDoes DEF hvars
<1>13. CASE HandleDelete
  <2>1. HLatest
    <3>1. HostDeleteCall /\ UNCHANGED hwatching /\ UNCHANGED hloop
      BY <1>13 DEF HandleDelete
    <3>2. host' = NoSvc => HLatest
      BY DEF HLatest
    <3> QED  BY <1>5, <3>1, <3>2, HostDeleteDoes, HostServices
  <2> QED  BY <1>6, <1>13, <2>1 DEF HandleDelete, vloop
<1>14. CASE UpdateHostService
  <2>1. HLatest
    BY <1>3, <1>5, <1>14, UpdateHostDoes, HostServices
  <2> QED  BY <1>2, <1>14, <2>1, UpdateHostDoes DEF vvars
<1>15. CASE OpenHostServices
  BY <1>2, <1>15, OpenHostDoes DEF HLatest, vvars
<1>16. CASE ReceiveHostService
  BY <1>2, <1>7, <1>16, ReceiveDoes DEF vvars
<1>17. CASE UpdateStatus
  <2>1. VLatest
    BY <1>2, <1>4, <1>17, UpdateStatusDoes
  <2> QED  BY <1>3, <1>17, <2>1, UpdateStatusDoes DEF hvars
<1>18. CASE Faults
  <2>1. VLatest
    <3>1. CASE UNCHANGED <<vwatching, vqueue>>
      BY <1>2, <1>18, <3>1, FaultDoes
    <3>2. CASE vwatching' = FALSE /\ vqueue' = << >>
      BY <3>2 DEF VLatest
    <3>3. CASE vqueue # << >> /\ vqueue' = Tail(vqueue) /\ vpc = "idle" /\ vwatching' = vwatching
      BY <1>6, <1>18, <3>3, FaultDoes DEF vloop
    <3> QED  BY <1>18, <3>1, <3>2, <3>3, FaultDoes
  <2>2. HLatest
    <3>1. CASE UNCHANGED <<hwatching, hqueue>>
      BY <1>3, <1>18, <3>1, FaultDoes
    <3>2. CASE hwatching' = FALSE /\ hqueue' = << >>
      BY <3>2 DEF HLatest
    <3>3. CASE hqueue # << >> /\ hqueue' = Tail(hqueue) /\ hpc = "idle" /\ hwatching' = hwatching
      BY <1>7, <1>18, <3>3, FaultDoes DEF hloop
    <3> QED  BY <1>18, <3>1, <3>2, <3>3, FaultDoes
  <2> QED  BY <2>1, <2>2
<1>19. CASE UNCHANGED vars
  BY <1>2, <1>3, <1>19 DEF vars, vvars, hvars
<1> QED
  BY <1>8, <1>9, <1>10, <1>11, <1>12, <1>13, <1>14, <1>15, <1>16, <1>17, <1>18, <1>19
  DEF Next, ServicesLoop, HostServicesLoop, ReceiveService

\* Every event shows a revision no newer than the newest.
LEMMA RevStep ==
  ASSUME TypeOK, TypeOK', HandlerInv, HandlerInv', RevInv, [Next]_vars
  PROVE  RevInv'
<1> USE ServicesTyped
<1>1. /\ \A i \in 1..Len(vqueue) : vqueue[i].svc.rev \in Nat
      /\ \A i \in 1..Len(vqueue') : vqueue'[i].svc.rev \in Nat
      /\ virt # NoSvc => virt.rev \in Nat
      /\ virt' # NoSvc => virt'.rev \in Nat
      /\ host # NoSvc => host.rev \in Nat
      /\ host' # NoSvc => host'.rev \in Nat
      /\ vpc = "update" => vSvc.rev \in Nat
      /\ vpc' = "update" => vSvc'.rev \in Nat
      /\ revs \in Nat /\ revs' \in Nat
      /\ Len(vqueue) \in Nat /\ Len(vqueue') \in Nat
  <2>1. /\ \A i \in 1..Len(vqueue) : vqueue[i].svc.rev \in Nat
        /\ virt # NoSvc => virt.rev \in Nat
        /\ host # NoSvc => host.rev \in Nat
        /\ vpc = "update" => vSvc.rev \in Nat
    BY VirtualServices, HostServices DEF HandlerInv
  <2>2. /\ virt' # NoSvc => virt' \in VirtualService
        /\ host' # NoSvc => host' \in HostService
        /\ vSvc' # NoSvc => vSvc' \in VirtualService
        /\ \A i \in 1..Len(vqueue') : vqueue'[i].svc \in VirtualService
        /\ Len(vqueue') \in Nat /\ revs' \in Nat
    <3>1. vqueue' \in Seq(Events)
      BY DEF TypeOK, Events
    <3>2. \A i \in 1..Len(vqueue') : vqueue'[i] \in Events
      BY <3>1, ElementOfSeq
    <3>3. \A e \in Events : e.svc \in VirtualService
      BY DEF Events
    <3>4. Len(vqueue') \in Nat
      BY <3>1, LenProperties
    <3>5. revs' \in Nat
      BY Bounds DEF TypeOK
    <3> QED  BY <3>2, <3>3, <3>4, <3>5 DEF TypeOK
  <2>3. /\ \A i \in 1..Len(vqueue') : vqueue'[i].svc.rev \in Nat
        /\ virt' # NoSvc => virt'.rev \in Nat
        /\ host' # NoSvc => host'.rev \in Nat
        /\ vpc' = "update" => vSvc'.rev \in Nat
    BY <2>2, VirtualServices, HostServices DEF HandlerInv
  <2> QED  BY <2>1, <2>2, <2>3
<1> DEFINE HostKeeps == host' # NoSvc => host # NoSvc /\ host'.rev = host.rev
           Keeps == UNCHANGED <<virt, revs>>
           Loop == UNCHANGED vloop \/ vpc' = "idle"
<1>2. ASSUME HostKeeps, Keeps, UNCHANGED vqueue, Loop
      PROVE  RevInv'
  BY <1>1, <1>2 DEF RevInv, vloop
<1>3. ASSUME NEW type, NEW s, Told(type, s), s.rev = revs', virt' = s \/ virt' = NoSvc,
             revs' = revs \/ revs' = revs + 1, UNCHANGED vloop, UNCHANGED host
      PROVE  RevInv'
  <2>1. virt' # NoSvc => virt'.rev = revs'
    BY <1>3
  <2>2. revs <= revs' /\ revs' <= revs'
    BY <1>1, <1>3
  <2>3. \A i \in 1..Len(vqueue') : \/ i \in 1..Len(vqueue) /\ vqueue'[i] = vqueue[i]
                                   \/ i = Len(vqueue') /\ vqueue'[i].svc.rev = revs'
    BY <1>1, <1>3 DEF Told
  <2>4. \A i \in 1..Len(vqueue') : vqueue'[i].svc.rev <= revs'
    BY <1>1, <2>2, <2>3 DEF RevInv
  <2>5. ASSUME NEW i \in 1..Len(vqueue'), NEW j \in 1..Len(vqueue'), i <= j
        PROVE  vqueue'[i].svc.rev <= vqueue'[j].svc.rev
    <3>1. CASE j \in 1..Len(vqueue) /\ vqueue'[j] = vqueue[j]
      <4>1. i \in 1..Len(vqueue)
        BY <1>1, <2>5, <3>1
      <4>2. vqueue'[i] = vqueue[i]
        BY <1>3, <4>1 DEF Told
      <4> QED  BY <2>5, <3>1, <4>1, <4>2 DEF RevInv
    <3>2. CASE vqueue'[j].svc.rev = revs'
      BY <2>4, <3>2
    <3> QED  BY <2>3, <3>1, <3>2
  <2>6. vpc' = "update" => /\ vSvc'.rev <= revs'
                           /\ \A i \in 1..Len(vqueue') : vSvc'.rev <= vqueue'[i].svc.rev
                           /\ host' # NoSvc => host'.rev <= vSvc'.rev
    <3>1. vpc' = "update" => /\ vpc = "update" /\ vSvc' = vSvc /\ host' = host
      BY <1>3 DEF vloop
    <3>2. vpc = "update" => /\ vSvc.rev <= revs
                            /\ \A i \in 1..Len(vqueue) : vSvc.rev <= vqueue[i].svc.rev
                            /\ host # NoSvc => host.rev <= vSvc.rev
      BY DEF RevInv
    <3>3. vpc = "update" => vSvc.rev <= revs'
      BY <1>1, <2>2, <3>2
    <3>4. vpc = "update" => \A i \in 1..Len(vqueue') : vSvc.rev <= vqueue'[i].svc.rev
      BY <2>3, <3>2, <3>3
    <3> QED  BY <3>1, <3>2, <3>3, <3>4
  <2>7. host' # NoSvc => /\ host'.rev <= revs'
                         /\ \A i \in 1..Len(vqueue') : host'.rev <= vqueue'[i].svc.rev
    BY <1>1, <1>3, <2>2, <2>3 DEF RevInv
  <2> QED  BY <2>1, <2>4, <2>5, <2>6, <2>7 DEF RevInv
<1>4. ASSUME vpc = "idle", vqueue # << >>, vqueue' = Tail(vqueue), Keeps,
             vpc' = "update" => vSvc' = Head(vqueue).svc,
             host' # NoSvc => \/ host # NoSvc /\ host'.rev = host.rev
                              \/ host'.rev = Head(vqueue).svc.rev
      PROVE  RevInv'
  <2>1. /\ \A i \in 1..Len(vqueue') : i + 1 \in 1..Len(vqueue) /\ vqueue'[i] = vqueue[i + 1]
        /\ Head(vqueue) = vqueue[1] /\ 1 \in 1..Len(vqueue)
    BY <1>4, HeadIs DEF Handled
  <2> DEFINE r == Head(vqueue).svc.rev
  <2>2. /\ r \in Nat /\ r <= revs
        /\ \A i \in 1..Len(vqueue') : r <= vqueue'[i].svc.rev
        /\ host # NoSvc => host.rev <= r
    <3>1. \A i \in 1..Len(vqueue') : 1 <= i + 1
      BY <1>1
    <3> QED  BY <1>1, <2>1, <3>1 DEF RevInv
  <2> HIDE DEF r
  <2>3. /\ \A i \in 1..Len(vqueue') : vqueue'[i].svc.rev <= revs
        /\ \A i, j \in 1..Len(vqueue') : i <= j => vqueue'[i].svc.rev <= vqueue'[j].svc.rev
    <3>1. \A i \in 1..Len(vqueue') : vqueue'[i].svc.rev <= revs
      BY <2>1 DEF RevInv
    <3>2. ASSUME NEW i \in 1..Len(vqueue'), NEW j \in 1..Len(vqueue'), i <= j
          PROVE  vqueue'[i].svc.rev <= vqueue'[j].svc.rev
      <4>1. i + 1 \in 1..Len(vqueue) /\ j + 1 \in 1..Len(vqueue) /\ i + 1 <= j + 1
        BY <2>1, <3>2
      <4>2. vqueue[i + 1].svc.rev <= vqueue[j + 1].svc.rev
        BY <4>1 DEF RevInv
      <4> QED  BY <2>1, <4>2
    <3> QED  BY <3>1, <3>2
  <2>4. host' # NoSvc => (host # NoSvc /\ host'.rev = host.rev) \/ host'.rev = r
    BY <1>4 DEF r
  <2>5. host' # NoSvc => /\ host'.rev <= revs
                         /\ \A i \in 1..Len(vqueue') : host'.rev <= vqueue'[i].svc.rev
                         /\ host'.rev <= r
    BY <1>1, <2>1, <2>2, <2>4 DEF RevInv
  <2>6. vpc' = "update" => vSvc'.rev = r
    BY <1>4 DEF r
  <2> QED  BY <1>1, <1>4, <2>2, <2>3, <2>5, <2>6 DEF RevInv
<1> HIDE DEF HostKeeps, Keeps, Loop
<1>5. UNCHANGED host => HostKeeps
  BY DEF HostKeeps
<1>6. host' = NoSvc => HostKeeps
  BY DEF HostKeeps
<1>7. host \in HostService /\ host'.rev = host.rev => HostKeeps
  BY HostServices DEF HostKeeps
<1>8. CASE Users
  <2>1. CASE VirtualCreate
    BY <1>3, <2>1, CreateDoes DEF hvars
  <2>2. CASE VirtualEdit
    BY <1>3, <2>2, EditDoes DEF hvars
  <2>3. CASE VirtualNote
    <3>1. virt'.rev = revs'
      BY <2>3, NoteDoes, VirtualServices DEF RevInv
    <3> QED  BY <1>3, <2>3, <3>1, NoteDoes DEF hvars
  <2>4. CASE VirtualDelete
    <3>1. virt.rev = revs'
      BY <2>4, DeleteDoes, VirtualServices DEF RevInv
    <3> QED  BY <1>3, <2>4, <3>1, DeleteDoes DEF hvars
  <2> QED  BY <1>8, <2>1, <2>2, <2>3, <2>4 DEF Users
<1>9. CASE HostCluster
  <2>1. CASE HostFinalizer
    BY <1>2, <1>7, <2>1, FinalizerDoes DEF Keeps, Loop, vvars
  <2>2. CASE HostAssign
    BY <1>2, <1>7, <2>2, AssignDoes DEF Keeps, Loop, vvars
  <2>3. CASE HostCleanedUp
    BY <1>2, <1>6, <2>3 DEF HostCleanedUp, Keeps, Loop, vvars
  <2> QED  BY <1>9, <2>1, <2>2, <2>3 DEF HostCluster
<1>10. CASE OpenServices
  <2>1. /\ virt = NoSvc => vqueue' = << >>
        /\ virt # NoSvc => Len(vqueue') = 1 /\ vqueue'[1].svc = virt
        /\ UNCHANGED <<virt, revs, host, vpc, vSvc>>
    BY <1>10, OpenDoes DEF hvars, vloop
  <2>2. \A i \in 1..Len(vqueue') : virt # NoSvc /\ i = 1 /\ vqueue'[i].svc = virt
    <3>1. Len(<< >>) = 0
      OBVIOUS
    <3>2. CASE virt = NoSvc
      BY <2>1, <3>1, <3>2
    <3>3. CASE virt # NoSvc
      <4>1. \A i \in 1..1 : i = 1
        OBVIOUS
      <4>2. 1..Len(vqueue') = 1..1
        BY <2>1, <3>3
      <4> QED  BY <2>1, <3>3, <4>1, <4>2
    <3> QED  BY <3>2, <3>3
  <2>3. \A i \in 1..Len(vqueue') : vqueue'[i].svc.rev = revs
    BY <2>2 DEF RevInv
  <2> QED  BY <1>1, <2>1, <2>3 DEF RevInv
<1>11. CASE CreateHostService
  <2>1. virt' = virt /\ revs' = revs /\ vpc' = vpc /\ vpc = "idle" /\ vqueue # << >>
        /\ vqueue' = Tail(vqueue) /\ host'.rev = Head(vqueue).svc.rev
    BY <1>11, CreateHostDoes DEF vloop
  <2> QED  BY <1>4, <2>1 DEF Keeps
<1>12. CASE GetHostService
  <2>1. virt' = virt /\ revs' = revs /\ vpc = "idle" /\ vqueue # << >> /\ host' = host
        /\ vqueue' = Tail(vqueue) /\ vSvc' = Head(vqueue).svc
    BY <1>12, GetHostDoes DEF hvars
  <2> QED  BY <1>4, <2>1 DEF Keeps
<1>13. CASE HandleDelete
  <2>1. virt' = virt /\ revs' = revs /\ vpc' = vpc /\ vpc = "idle" /\ vqueue # << >>
        /\ vqueue' = Tail(vqueue) /\ HostDeleteCall
    BY <1>13 DEF HandleDelete, vloop
  <2>2. HostKeeps
    BY <1>6, <1>7, <2>1, HostDeleteDoes
  <2> QED  BY <1>4, <2>1, <2>2 DEF Keeps, HostKeeps
<1>14. CASE UpdateHostService
  <2>1. vpc = "update" /\ vpc' = "idle" /\ UNCHANGED <<virt, revs, vqueue>>
    BY <1>14, UpdateHostDoes DEF vvars
  <2>2. CASE host' = host
    BY <1>2, <1>5, <2>1, <2>2 DEF Keeps, Loop
  <2>3. CASE host'.rev = vSvc.rev
    BY <1>1, <2>1, <2>3 DEF RevInv
  <2> QED  BY <1>14, <2>2, <2>3, UpdateHostDoes
<1>15. CASE OpenHostServices
  BY <1>2, <1>5, <1>15 DEF OpenHostServices, Keeps, Loop, vvars
<1>16. CASE ReceiveHostService
  BY <1>2, <1>5, <1>16, ReceiveDoes DEF Keeps, Loop, vvars
<1>17. CASE UpdateStatus
  <2>1. UNCHANGED <<revs, host>> /\ UNCHANGED vloop
    BY <1>17, UpdateStatusDoes DEF hvars
  <2>2. CASE UNCHANGED <<virt, vqueue>>
    BY <1>2, <1>5, <2>1, <2>2 DEF Keeps, Loop
  <2>3. CASE virt \in VirtualService /\ virt'.rev = virt.rev /\ Told("MODIFIED", virt')
    <3>1. virt'.rev = revs'
      BY <2>1, <2>3, VirtualServices DEF RevInv
    <3> QED  BY <1>3, <2>1, <2>3, <3>1
  <2> QED  BY <1>17, <2>2, <2>3, UpdateStatusDoes
<1>18. CASE Faults
  <2>1. UNCHANGED <<virt, revs, host>> /\ Loop
    BY <1>18, FaultDoes DEF Loop
  <2>2. CASE UNCHANGED <<vwatching, vqueue>>
    BY <1>2, <1>5, <2>1, <2>2 DEF Keeps
  <2>3. CASE vqueue' = << >> /\ vpc' = "idle"
    <3>1. Len(<< >>) = 0
      OBVIOUS
    <3>2. 1..Len(vqueue') = {}
      BY <2>3, <3>1
    <3> QED  BY <2>1, <2>3, <3>2 DEF RevInv
  <2>4. CASE vqueue # << >> /\ vqueue' = Tail(vqueue) /\ vpc = "idle"
    BY <1>4, <1>5, <2>1, <2>4 DEF Keeps, HostKeeps, Loop, vloop
  <2> QED  BY <1>18, <2>2, <2>3, <2>4, FaultDoes
<1>19. CASE UNCHANGED vars
  BY <1>2, <1>5, <1>19 DEF vars, vvars, hvars, Keeps, Loop
<1> QED
  BY <1>8, <1>9, <1>10, <1>11, <1>12, <1>13, <1>14, <1>15, <1>16, <1>17, <1>18, <1>19
  DEF Next, ServicesLoop, HostServicesLoop, ReceiveService

LEMMA Orders ==
  ASSUME NEW g \in HostService, NEW h \in HostService
  PROVE  /\ Before(h, h)
         /\ \A k \in HostService : Before(g, h) /\ Before(h, k) => Before(g, k)
         /\ \A a \in Address : Shown(a, g) /\ Before(g, h) => Shown(a, h)
         /\ Before(g, h) /\ (g.lb.level > 0 => g.lb.from = g.uid) => Shown(g.lb, h)
         /\ Shown(NoAddress, h)
<1>1. \A k \in HostService : k.uid \in Nat /\ k.lb.level \in Nat /\ k.lb.from \in Nat
  BY HostServices, Addresses
<1>2. \A a \in Address : a.level \in Nat /\ a.from \in Nat
  BY Addresses
<1>3. NoAddress.level = 0
  BY Bounds
<1>4. g.uid \in Nat /\ g.lb.level \in Nat /\ h.uid \in Nat /\ h.lb.level \in Nat
  BY <1>1
<1>5. Before(h, h)
  BY <1>4 DEF Before
<1>6. ASSUME NEW k \in HostService, Before(g, h), Before(h, k)
      PROVE  Before(g, k)
  BY <1>1, <1>4, <1>6 DEF Before
<1>7. ASSUME NEW a \in Address, Shown(a, g), Before(g, h)
      PROVE  Shown(a, h)
  BY <1>2, <1>4, <1>7 DEF Before, Shown
<1>8. Before(g, h) /\ (g.lb.level > 0 => g.lb.from = g.uid) => Shown(g.lb, h)
  BY <1>4 DEF Before, Shown
<1>9. Shown(NoAddress, h)
  BY <1>3 DEF Shown
<1> QED  BY <1>5, <1>6, <1>7, <1>8, <1>9

\* Assigned and Known, in the next state.
AssignedThen(h) ==
  /\ h.uid > 0 /\ h.uid <= born'
  /\ h.lb.level = 0 => h.lb = NoAddress
  /\ h.lb.level > 0 => h.lb.from = h.uid

KnownThen(h) == AssignedThen(h) /\ (host' # NoSvc => Before(h, host'))

LEMMA AddressStep ==
  ASSUME TypeOK, TypeOK', HandlerInv, HandlerInv', AddressInv, [Next]_vars
  PROVE  AddressInv'
<1> DEFINE HPart ==
             /\ host' # NoSvc => AssignedThen(host') /\ host'.uid = born'
             /\ \A i \in 1..Len(hqueue') : KnownThen(hqueue'[i])
             /\ \A i, j \in 1..Len(hqueue') : i <= j => Before(hqueue'[i], hqueue'[j])
             /\ hpc' = "update" =>
                  /\ KnownThen(hostSvc')
                  /\ \A i \in 1..Len(hqueue') : Before(hostSvc', hqueue'[i])
           VPart ==
             virt' # NoSvc =>
               /\ virt'.lb.level = 0 => virt'.lb = NoAddress
               /\ virt'.lb.level > 0 => virt'.lb.from <= born'
               /\ host' # NoSvc => Shown(virt'.lb, host')
               /\ \A i \in 1..Len(hqueue') : Shown(virt'.lb, hqueue'[i])
               /\ hpc' = "update" => Shown(virt'.lb, hostSvc')
<1>1. SUFFICES HPart /\ VPart
  BY DEF AddressInv, Known, Assigned, KnownThen, AssignedThen
<1>2. /\ host # NoSvc => host \in HostService /\ host.uid \in Nat /\ host.lb.level \in Nat
      /\ virt # NoSvc => virt.lb \in Address /\ virt.lb.level \in Nat /\ virt.lb.from \in Nat
      /\ hpc = "update" => hostSvc \in HostService
      /\ \A i \in 1..Len(hqueue) : hqueue[i] \in HostService
      /\ born \in Nat /\ Len(hqueue) \in Nat
  BY ServicesTyped, VirtualServices, HostServices, Addresses DEF HandlerInv
<1> DEFINE HostStays == host' = host \/ host' = NoSvc
           LoopStays == UNCHANGED hloop \/ hpc' = "idle"
           VirtStays == \/ virt' = NoSvc
                        \/ virt # NoSvc /\ virt'.lb = virt.lb
                        \/ virt'.lb = NoAddress
<1>3. ASSUME HostStays, LoopStays, UNCHANGED <<hqueue, born>>
      PROVE  HPart
  BY <1>3 DEF AddressInv, Known, Assigned, KnownThen, AssignedThen, hloop
<1>4. ASSUME HostStays, LoopStays, VirtStays, UNCHANGED <<hqueue, born>>
      PROVE  VPart
  <2>1. CASE virt' = NoSvc
    BY <2>1
  <2>2. CASE virt # NoSvc /\ virt'.lb = virt.lb
    BY <1>4, <2>2 DEF AddressInv, hloop
  <2>3. CASE virt'.lb = NoAddress
    <3>1. \A h \in HostService : Shown(NoAddress, h)
      BY Orders
    <3> QED  BY <1>2, <1>4, <2>3, <3>1, Bounds DEF hloop
  <2> QED  BY <1>4, <2>1, <2>2, <2>3
<1>5. ASSUME HostTold(host'), AssignedThen(host'), host'.uid = born', born' \in Nat, born <= born',
             \A g \in HostService : Known(g) => Before(g, host'),
             virt # NoSvc => Shown(virt.lb, host'),
             UNCHANGED hloop, virt' = virt
      PROVE  HPart /\ VPart
  <2>1. \A g \in HostService : Known(g) => KnownThen(g)
    <3>1. SUFFICES ASSUME NEW g \in HostService, Known(g) PROVE KnownThen(g)
      OBVIOUS
    <3>2. g.uid \in Nat /\ Assigned(g)
      BY <3>1, HostServices DEF Known
    <3>3. g.uid <= born'
      BY <1>2, <1>5, <3>2 DEF Assigned
    <3>4. AssignedThen(g)
      BY <3>2, <3>3 DEF Assigned, AssignedThen
    <3> QED  BY <1>5, <3>1, <3>4 DEF KnownThen
  <2>2. host' \in HostService /\ host' # NoSvc /\ KnownThen(host')
    BY <1>5, Orders, HostServices DEF HostTold, KnownThen
  <2>3. /\ Len(hqueue') \in Nat
        /\ \A i \in 1..Len(hqueue') : \/ i \in 1..Len(hqueue) /\ hqueue'[i] = hqueue[i]
                                      \/ i = Len(hqueue') /\ hqueue'[i] = host'
        /\ \A i \in 1..Len(hqueue) : i \in 1..Len(hqueue') /\ hqueue'[i] = hqueue[i]
    BY <1>2, <1>5 DEF HostTold
  <2>4. \A i \in 1..Len(hqueue') : KnownThen(hqueue'[i])
    BY <1>2, <2>1, <2>2, <2>3 DEF AddressInv
  <2>5. ASSUME NEW i \in 1..Len(hqueue'), NEW j \in 1..Len(hqueue'), i <= j
        PROVE  Before(hqueue'[i], hqueue'[j])
    <3>1. CASE j \in 1..Len(hqueue) /\ hqueue'[j] = hqueue[j]
      <4>1. i \in 1..Len(hqueue)
        BY <1>2, <2>3, <2>5, <3>1
      <4> QED  BY <2>3, <2>5, <3>1, <4>1 DEF AddressInv
    <3>2. CASE hqueue'[j] = host'
      BY <2>2, <2>4, <3>2 DEF KnownThen
    <3> QED  BY <2>3, <3>1, <3>2
  <2>6. hpc' = "update" => /\ KnownThen(hostSvc')
                           /\ \A i \in 1..Len(hqueue') : Before(hostSvc', hqueue'[i])
    <3>1. ASSUME hpc = "update"
          PROVE  KnownThen(hostSvc) /\ \A i \in 1..Len(hqueue') : Before(hostSvc, hqueue'[i])
      <4>1. KnownThen(hostSvc)
        BY <1>2, <2>1, <3>1 DEF AddressInv
      <4>2. \A i \in 1..Len(hqueue) : Before(hostSvc, hqueue[i])
        BY <3>1 DEF AddressInv
      <4> QED  BY <2>2, <2>3, <4>1, <4>2 DEF KnownThen
    <3> QED  BY <1>5, <3>1 DEF hloop
  <2>7. HPart
    BY <1>5, <2>4, <2>5, <2>6
  <2>8. VPart
    <3>1. SUFFICES ASSUME virt # NoSvc PROVE VPart
      BY <1>5
    <3>2. virt.lb.level = 0 => virt.lb = NoAddress
      BY <3>1 DEF AddressInv
    <3>3. virt.lb.level > 0 => virt.lb.from <= born'
      BY <1>2, <1>5, <3>1 DEF AddressInv
    <3>4. \A i \in 1..Len(hqueue') : Shown(virt.lb, hqueue'[i])
      BY <1>5, <2>3, <3>1 DEF AddressInv
    <3>5. hpc = "update" => Shown(virt.lb, hostSvc)
      BY <3>1 DEF AddressInv
    <3> QED  BY <1>5, <3>1, <3>2, <3>3, <3>4, <3>5 DEF hloop
  <2> QED  BY <2>7, <2>8
<1>6. ASSUME hqueue # << >>, hqueue' = Tail(hqueue), UNCHANGED <<virt, host, born>>,
             hpc' = "update" => hostSvc' = Head(hqueue)
      PROVE  HPart /\ VPart
  <2>1. /\ \A i \in 1..Len(hqueue') : i + 1 \in 1..Len(hqueue) /\ hqueue'[i] = hqueue[i + 1]
        /\ Head(hqueue) = hqueue[1] /\ 1 \in 1..Len(hqueue) /\ Len(hqueue') \in Nat
    BY <1>6, HostHeadIs DEF Handled
  <2>2. \A h : Known(h) => KnownThen(h)
    BY <1>6 DEF Known, KnownThen, Assigned, AssignedThen
  <2>3. \A i \in 1..Len(hqueue') : KnownThen(hqueue'[i])
    BY <2>1, <2>2 DEF AddressInv
  <2>4. ASSUME NEW i \in 1..Len(hqueue'), NEW j \in 1..Len(hqueue'), i <= j
        PROVE  Before(hqueue'[i], hqueue'[j])
    <3>1. i + 1 \in 1..Len(hqueue) /\ j + 1 \in 1..Len(hqueue) /\ i + 1 <= j + 1
      BY <2>1, <2>4
    <3> QED  BY <2>1, <3>1 DEF AddressInv
  <2>5. KnownThen(Head(hqueue)) /\ \A i \in 1..Len(hqueue') : Before(Head(hqueue), hqueue'[i])
    <3>1. \A i \in 1..Len(hqueue') : 1 <= i + 1
      BY <2>1
    <3> QED  BY <2>1, <2>2, <3>1 DEF AddressInv
  <2>6. HPart
    <3>1. host' # NoSvc => AssignedThen(host') /\ host'.uid = born'
      BY <1>6 DEF AddressInv, Assigned, AssignedThen
    <3> QED  BY <1>6, <2>3, <2>4, <2>5, <3>1
  <2>7. VPart
    BY <1>6, <2>1 DEF AddressInv
  <2> QED  BY <2>6, <2>7
<1>7. ASSUME Len(hqueue') = 0, hpc' = "idle", UNCHANGED <<virt, host, born>>
      PROVE  HPart /\ VPart
  <2>1. 1..Len(hqueue') = {}
    BY <1>7
  <2> QED  BY <1>7, <2>1 DEF AddressInv, Assigned, AssignedThen
<1> HIDE DEF HPart, VPart
<1>8. CASE Users
  <2>1. HPart
    <3>1. UNCHANGED hvars /\ UNCHANGED hloop
      BY <1>8, CreateDoes, EditDoes, NoteDoes, DeleteDoes DEF Users
    <3> QED  BY <1>3, <3>1 DEF hvars
  <2>2. VPart
    <3>1. VirtStays
      BY <1>8, CreateDoes, EditDoes, NoteDoes, DeleteDoes, VirtualServices DEF Users
    <3>2. UNCHANGED hvars /\ UNCHANGED hloop
      BY <1>8, CreateDoes, EditDoes, NoteDoes, DeleteDoes DEF Users
    <3> HIDE DEF VirtStays
    <3> QED  BY <1>4, <3>1, <3>2 DEF hvars
  <2> QED  BY <2>1, <2>2
<1>9. ASSUME host \in HostService, host' \in HostService, HostTold(host'), host'.uid = host.uid,
             \/ host'.lb = host.lb
             \/ host'.lb.from = host.uid /\ host'.lb.level = host.lb.level + 1,
             UNCHANGED <<virt, born>>, UNCHANGED hloop
      PROVE  HPart /\ VPart
  <2>1. host # NoSvc /\ Assigned(host) /\ host.uid = born
    BY <1>9, HostServices DEF AddressInv
  <2>2. host.uid \in Nat /\ host.lb.level \in Nat
    BY <1>9, HostServices, Addresses
  <2>3. AssignedThen(host') /\ Before(host, host')
    BY <1>9, <2>1, <2>2 DEF Assigned, AssignedThen, Before
  <2>4. ASSUME NEW g \in HostService, Known(g) PROVE Before(g, host')
    <3>1. Before(g, host)
      BY <2>1, <2>4 DEF Known
    <3> QED  BY <1>9, <2>3, <3>1, Orders
  <2>5. virt # NoSvc => Shown(virt.lb, host')
    <3>1. virt # NoSvc => Shown(virt.lb, host)
      BY <2>1 DEF AddressInv
    <3> QED  BY <1>2, <1>9, <2>3, <3>1, Orders
  <2> QED  BY <1>2, <1>5, <1>9, <2>1, <2>3, <2>4, <2>5
<1>10. CASE HostCluster
  <2>1. CASE HostFinalizer
    BY <1>9, <2>1, FinalizerDoes DEF vvars
  <2>2. CASE HostAssign
    BY <1>9, <2>2, AssignDoes DEF vvars
  <2>3. CASE HostCleanedUp
    <3>1. host' = NoSvc /\ UNCHANGED <<hqueue, born, virt>> /\ UNCHANGED hloop
      BY <2>3 DEF HostCleanedUp, vvars
    <3>2. VirtStays
      BY <3>1
    <3> HIDE DEF VirtStays
    <3> QED  BY <1>3, <1>4, <3>1, <3>2
  <2> QED  BY <1>10, <2>1, <2>2, <2>3 DEF HostCluster
<1>11. ASSUME UNCHANGED <<virt, born>>, UNCHANGED hvars, UNCHANGED hloop \/ hpc' = "idle"
       PROVE  HPart /\ VPart
  <2>1. VirtStays
    BY <1>11
  <2> HIDE DEF VirtStays
  <2> QED  BY <1>3, <1>4, <1>11, <2>1 DEF hvars
<1>12. CASE OpenServices \/ GetHostService
  BY <1>11, <1>12, OpenDoes, GetHostDoes DEF hvars
<1>13. CASE CreateHostService
  <2>1. /\ host = NoSvc /\ host' \in HostService /\ HostTold(host') /\ born' = born + 1
        /\ host'.uid = born + 1 /\ host'.lb = NoAddress /\ virt' = virt /\ UNCHANGED hloop
    BY <1>13, CreateHostDoes
  <2>2. AssignedThen(host') /\ born' \in Nat /\ born <= born'
    BY <1>2, <2>1, Bounds DEF AssignedThen
  <2>3. ASSUME NEW g \in HostService, Known(g) PROVE Before(g, host')
    <3>1. g.uid \in Nat /\ g.uid <= born
      BY <2>3, HostServices DEF Known, Assigned
    <3>2. g.uid < host'.uid
      BY <1>2, <2>1, <3>1
    <3> QED  BY <3>2 DEF Before
  <2>4. virt # NoSvc => Shown(virt.lb, host')
    BY <1>2, <2>1 DEF AddressInv, Shown
  <2> QED  BY <1>5, <2>1, <2>2, <2>3, <2>4
<1>14. CASE HandleDelete
  <2>1. HostDeleteCall /\ UNCHANGED <<virt, born>> /\ UNCHANGED hloop
    BY <1>14 DEF HandleDelete
  <2>2. CASE host' = NoSvc /\ UNCHANGED hqueue
    <3>1. VirtStays
      BY <2>1
    <3> HIDE DEF VirtStays
    <3> QED  BY <1>3, <1>4, <2>1, <2>2, <3>1
  <2>3. CASE ~(host' = NoSvc /\ UNCHANGED hqueue)
    BY <1>9, <2>1, <2>3, HostDeleteDoes
  <2> QED  BY <2>2, <2>3
<1>15. CASE UpdateHostService
  <2>1. UNCHANGED <<virt, born, hwatching>> /\ UNCHANGED hloop
    BY <1>15, UpdateHostDoes DEF vvars
  <2>2. CASE host # existing /\ UNCHANGED <<host, hqueue>>
    BY <1>11, <2>1, <2>2 DEF hvars
  <2>3. CASE ~(host # existing /\ UNCHANGED <<host, hqueue>>)
    BY <1>9, <1>15, <2>1, <2>3, UpdateHostDoes
  <2> QED  BY <2>2, <2>3
<1>16. CASE OpenHostServices
  <2>1. UNCHANGED <<virt, born, host, hpc, hostSvc>>
    BY <1>16, OpenHostDoes DEF vvars, hloop
  <2>2. CASE host = NoSvc
    <3>1. Len(<< >>) = 0
      OBVIOUS
    <3>2. 1..Len(hqueue') = {}
      BY <1>16, <2>2, <3>1, OpenHostDoes
    <3> QED  BY <2>1, <2>2, <3>2 DEF AddressInv, Known, Assigned, KnownThen, AssignedThen, HPart, VPart
  <2>3. CASE host # NoSvc
    <3>1. Len(hqueue') = 1 /\ hqueue'[1] = host
      BY <1>16, <2>3, OpenHostDoes
    <3>2. \A i \in 1..Len(hqueue') : hqueue'[i] = host
      <4>1. \A i \in 1..1 : i = 1
        OBVIOUS
      <4> QED  BY <3>1, <4>1
    <3>3. KnownThen(host) /\ Before(host, host)
      BY <1>2, <2>1, <2>3, Orders DEF AddressInv, Assigned, KnownThen, AssignedThen
    <3>4. hpc = "update" => KnownThen(hostSvc) /\ Before(hostSvc, host)
      BY <2>1, <2>3 DEF AddressInv, Known, Assigned, KnownThen, AssignedThen
    <3>5. HPart
      <4>1. host' # NoSvc => AssignedThen(host') /\ host'.uid = born'
        BY <2>1, <2>3 DEF AddressInv, Assigned, AssignedThen
      <4> QED  BY <2>1, <3>2, <3>3, <3>4, <4>1 DEF HPart
    <3>6. VPart
      BY <2>1, <2>3, <3>2 DEF AddressInv, VPart
    <3> QED  BY <3>5, <3>6
  <2> QED  BY <2>2, <2>3
<1>17. CASE ReceiveHostService
  BY <1>6, <1>17, ReceiveDoes DEF vvars
<1>18. CASE UpdateStatus
  <2>1. UNCHANGED <<host, hqueue, born, hwatching>> /\ hpc' = "idle" /\ hpc = "update"
    BY <1>18, UpdateStatusDoes DEF hvars
  <2>2. HPart
    BY <1>3, <2>1
  <2>3. CASE virt' = virt
    <3>1. VirtStays
      BY <2>3
    <3> HIDE DEF VirtStays
    <3> QED  BY <1>4, <2>1, <2>2, <3>1
  <2>4. CASE virt'.lb = hostSvc.lb
    <3>1. Known(hostSvc) /\ hostSvc \in HostService /\ hostSvc.uid \in Nat
      BY <1>2, <2>1, HostServices DEF AddressInv
    <3>2. /\ hostSvc.lb.level = 0 => hostSvc.lb = NoAddress
          /\ hostSvc.lb.level > 0 => hostSvc.lb.from <= born
          /\ hostSvc.lb.level > 0 => hostSvc.lb.from = hostSvc.uid
      BY <3>1 DEF Known, Assigned
    <3>3. host # NoSvc => Shown(hostSvc.lb, host)
      BY <1>2, <3>1, <3>2, Orders DEF Known
    <3>4. \A i \in 1..Len(hqueue) : Shown(hostSvc.lb, hqueue[i])
      BY <1>2, <2>1, <3>1, <3>2, Orders DEF AddressInv
    <3>5. VPart
      BY <2>1, <2>4, <3>2, <3>3, <3>4 DEF VPart
    <3> QED  BY <2>2, <3>5
  <2> QED  BY <1>18, <2>3, <2>4, UpdateStatusDoes
<1>19. CASE Faults
  <2>1. UNCHANGED <<virt, host, born>> /\ (UNCHANGED hloop \/ hpc' = "idle")
    BY <1>19, FaultDoes
  <2>2. CASE UNCHANGED <<hwatching, hqueue>>
    BY <1>11, <2>1, <2>2 DEF hvars
  <2>3. CASE hqueue' = << >> /\ hpc' = "idle"
    <3>1. Len(<< >>) = 0
      OBVIOUS
    <3> QED  BY <1>7, <2>1, <2>3, <3>1
  <2>4. CASE hqueue # << >> /\ hqueue' = Tail(hqueue) /\ hpc = "idle"
    BY <1>6, <2>1, <2>4 DEF hloop
  <2> QED  BY <1>19, <2>2, <2>3, <2>4, FaultDoes
<1>20. CASE UNCHANGED vars
  BY <1>11, <1>20 DEF vars, vvars, hvars
<1> QED
  BY <1>8, <1>10, <1>12, <1>13, <1>14, <1>15, <1>16, <1>17, <1>18, <1>19, <1>20
  DEF Next, ServicesLoop, HostServicesLoop, ReceiveService

LEMMA CopyStep ==
  ASSUME TypeOK, TypeOK', HandlerInv, HandlerInv', AddressInv, CopyInv, [Next]_vars
  PROVE  CopyInv'
<1> DEFINE UidPart == virt' # NoSvc => virt'.uid <= uids'
           VPart == vpc' = "update" =>
             /\ existing'.uid <= born'
             /\ host' # NoSvc /\ existing'.uid = host'.uid =>
                  (existing'.finalizer => host'.finalizer)
           HPart == hpc' = "update" =>
             /\ copy'.uid <= uids'
             /\ virt' # NoSvc /\ copy'.uid = virt'.uid => copy'.notes <= virt'.notes
<1>1. SUFFICES UidPart /\ VPart /\ HPart
  BY DEF CopyInv
<1>2. /\ virt # NoSvc => virt.uid \in Nat /\ virt.notes \in Nat
      /\ host # NoSvc => host.uid \in Nat /\ host.uid = born
      /\ vpc = "update" => existing.uid \in Nat
      /\ hpc = "update" => copy.uid \in Nat /\ copy.notes \in Nat
      /\ uids \in Nat /\ born \in Nat
  BY ServicesTyped, VirtualServices, HostServices DEF HandlerInv, AddressInv
<1>3. UNCHANGED <<virt, uids>> => UidPart
  BY DEF CopyInv
<1>4. ASSUME UNCHANGED vloop \/ vpc' = "idle", UNCHANGED born,
             host' # NoSvc => /\ host # NoSvc /\ host'.uid = host.uid
                              /\ host.finalizer => host'.finalizer
      PROVE  VPart
  BY <1>4 DEF CopyInv, vloop
<1>5. ASSUME UNCHANGED hloop \/ hpc' = "idle", UNCHANGED uids,
             virt' # NoSvc => /\ virt # NoSvc /\ virt'.uid = virt.uid
                              /\ virt.notes <= virt'.notes /\ virt'.notes \in Nat
      PROVE  HPart
  BY <1>2, <1>5 DEF CopyInv, hloop
<1>6. UNCHANGED virt => (virt' # NoSvc => /\ virt # NoSvc /\ virt'.uid = virt.uid
                                          /\ virt.notes <= virt'.notes /\ virt'.notes \in Nat)
  BY <1>2
<1>7. UNCHANGED host => (host' # NoSvc => /\ host # NoSvc /\ host'.uid = host.uid
                                          /\ host.finalizer => host'.finalizer)
  OBVIOUS
<1> HIDE DEF UidPart, VPart, HPart
<1>8. CASE Users
  <2>1. VPart
    <3>1. UNCHANGED hvars /\ UNCHANGED vloop
      BY <1>8, CreateDoes, EditDoes, NoteDoes, DeleteDoes DEF Users
    <3> QED  BY <1>4, <1>7, <3>1 DEF hvars
  <2>2. UidPart /\ HPart
    <3>1. CASE VirtualCreate
      <4>1. /\ virt'.uid = uids + 1 /\ uids' = uids + 1 /\ UNCHANGED hloop
        BY <3>1, CreateDoes
      <4>2. UidPart
        BY <1>2, <4>1 DEF UidPart
      <4>3. hpc = "update" => copy.uid <= uids' /\ copy.uid # virt'.uid
        BY <1>2, <4>1 DEF CopyInv
      <4> QED  BY <4>1, <4>2, <4>3 DEF HPart, hloop
    <3>2. CASE VirtualEdit
      <4>1. /\ virt \in VirtualService /\ virt'.uid = virt.uid /\ virt'.notes = virt.notes
            /\ uids' = uids /\ UNCHANGED hloop
        BY <3>2, EditDoes
      <4>2. virt # NoSvc /\ virt.notes <= virt'.notes /\ virt'.notes \in Nat
        BY <1>2, <4>1, VirtualServices
      <4> QED  BY <1>5, <4>1, <4>2 DEF CopyInv, UidPart
    <3>3. CASE VirtualNote
      <4>1. /\ virt \in VirtualService /\ virt'.uid = virt.uid /\ virt'.notes = virt.notes + 1
            /\ uids' = uids /\ UNCHANGED hloop
        BY <3>3, NoteDoes
      <4>2. virt # NoSvc /\ virt.notes <= virt'.notes /\ virt'.notes \in Nat
        BY <1>2, <4>1, VirtualServices
      <4> QED  BY <1>5, <4>1, <4>2 DEF CopyInv, UidPart
    <3>4. CASE VirtualDelete
      BY <1>5, <3>4, DeleteDoes DEF UidPart
    <3> QED  BY <1>8, <3>1, <3>2, <3>3, <3>4 DEF Users
  <2> QED  BY <2>1, <2>2
<1>9. ASSUME UNCHANGED vvars, UNCHANGED hloop \/ hpc' = "idle"
      PROVE  UidPart /\ HPart
  BY <1>3, <1>5, <1>6, <1>9 DEF vvars
<1>10. CASE HostCluster
  <2>1. VPart
    <3>1. CASE HostFinalizer
      BY <1>4, <3>1, FinalizerDoes, HostServices
    <3>2. CASE HostAssign
      BY <1>4, <3>2, AssignDoes, HostServices
    <3>3. CASE HostCleanedUp
      BY <1>4, <3>3 DEF HostCleanedUp
    <3> QED  BY <1>10, <3>1, <3>2, <3>3 DEF HostCluster
  <2> QED
    BY <1>9, <1>10, <2>1 DEF HostCluster, HostFinalizer, HostAssign, HostCleanedUp
<1>11. ASSUME UNCHANGED <<virt, uids>>, UNCHANGED hloop
       PROVE  UidPart /\ HPart
  BY <1>3, <1>5, <1>6, <1>11
<1>12. CASE OpenServices
  BY <1>4, <1>7, <1>11, <1>12, OpenDoes DEF hvars
<1>13. CASE CreateHostService
  <2>1. VPart
    BY <1>13, CreateHostDoes DEF VPart, vloop
  <2> QED  BY <1>11, <1>13, <2>1, CreateHostDoes
<1>14. CASE GetHostService
  <2>1. VPart
    <3>1. host \in HostService /\ existing' = host /\ host' = host /\ born' = born
      BY <1>14, GetHostDoes DEF hvars
    <3>2. host.uid <= born
      <4>1. host # NoSvc
        BY <3>1, HostServices
      <4> QED  BY <1>2, <4>1
    <3> QED  BY <3>1, <3>2 DEF VPart
  <2> QED  BY <1>11, <1>14, <2>1, GetHostDoes
<1>15. CASE HandleDelete
  <2>1. VPart
    <3>1. HostDeleteCall /\ UNCHANGED born /\ UNCHANGED vloop
      BY <1>15 DEF HandleDelete
    <3> QED  BY <1>4, <3>1, HostDeleteDoes, HostServices
  <2> QED  BY <1>11, <1>15, <2>1 DEF HandleDelete
<1>16. CASE UpdateHostService
  <2>1. VPart
    BY <1>16, UpdateHostDoes DEF VPart
  <2> QED  BY <1>9, <1>16, <2>1, UpdateHostDoes
<1>17. CASE OpenHostServices
  <2>1. VPart
    BY <1>4, <1>7, <1>17, OpenHostDoes
  <2> QED  BY <1>9, <1>17, <2>1, OpenHostDoes
<1>18. CASE ReceiveHostService
  <2>1. VPart
    BY <1>4, <1>7, <1>18, ReceiveDoes
  <2>2. UidPart
    BY <1>3, <1>18, ReceiveDoes DEF vvars
  <2>3. HPart
    <3>1. CASE hpc' = "idle"
      BY <3>1 DEF HPart
    <3>2. CASE copy' = virt /\ virt \in VirtualService
      <4>1. virt' = virt /\ uids' = uids /\ virt.uid <= uids /\ virt.notes <= virt.notes
        BY <1>2, <1>18, <3>2, ReceiveDoes, VirtualServices DEF CopyInv, vvars
      <4> QED  BY <3>2, <4>1 DEF HPart
    <3> QED  BY <1>18, <3>1, <3>2, ReceiveDoes
  <2> QED  BY <2>1, <2>2, <2>3
<1>19. CASE UpdateStatus
  <2>1. VPart
    BY <1>4, <1>7, <1>19, UpdateStatusDoes DEF hvars
  <2>2. HPart
    BY <1>19, UpdateStatusDoes DEF HPart
  <2>3. UidPart
    BY <1>3, <1>19, UpdateStatusDoes, VirtualServices DEF UidPart, CopyInv
  <2> QED  BY <2>1, <2>2, <2>3
<1>20. CASE Faults
  <2>1. VPart
    BY <1>4, <1>7, <1>20, FaultDoes
  <2>2. UidPart /\ HPart
    BY <1>3, <1>5, <1>6, <1>20, FaultDoes
  <2> QED  BY <2>1, <2>2
<1>21. CASE UNCHANGED vars
  <2>1. VPart
    BY <1>4, <1>7, <1>21 DEF vars, hvars
  <2> QED  BY <1>9, <1>21, <2>1 DEF vars
<1> QED
  BY <1>8, <1>10, <1>12, <1>13, <1>14, <1>15, <1>16, <1>17, <1>18, <1>19, <1>20, <1>21
  DEF Next, ServicesLoop, HostServicesLoop, ReceiveService

LEMMA LosslessStep ==
  ASSUME TypeOK, TypeOK', HandlerInv, LatestInv, LosslessInv, [Next]_vars
  PROVE  LosslessInv'
<1> DEFINE Part ==
      lossless' =>
        /\ ~vwatching' => host' = NoSvc /\ vpc' = "idle"
        /\ vwatching' /\ virt' = NoSvc =>
             /\ vqueue' # << >> => vqueue'[Len(vqueue')].type = "DELETED"
             /\ vqueue' = << >> => (host' = NoSvc \/ host'.terminating) /\ vpc' = "idle"
<1>1. SUFFICES Part
  BY DEF LosslessInv, Gone
<1>2. ASSUME UNCHANGED <<virt, vwatching, vqueue, lossless>>, UNCHANGED vpc \/ vpc' = "idle",
             host = NoSvc => host' = NoSvc,
             host # NoSvc /\ host.terminating => host' = NoSvc \/ host'.terminating
      PROVE  Part
  BY <1>2 DEF LosslessInv, Gone
<1>3. ASSUME virt' # NoSvc, UNCHANGED <<vwatching, host, vpc, lossless>>
      PROVE  Part
  BY <1>3 DEF LosslessInv
<1>4. ASSUME vpc = "idle", vqueue # << >>, vqueue' = Tail(vqueue), Head(vqueue).type # "DELETED",
             UNCHANGED <<virt, vwatching, lossless>>
      PROVE  Part
  <2>1. vwatching
    BY <1>4 DEF LatestInv
  <2> QED  BY <1>4, <2>1, HeadIs DEF Handled, LosslessInv
<1>5. lossless' = FALSE => Part
  OBVIOUS
<1>6. CASE VirtualCreate \/ VirtualEdit \/ VirtualNote
  BY <1>3, <1>6, CreateDoes, EditDoes, NoteDoes, VirtualServices DEF hvars, vloop, history
<1>7. CASE VirtualDelete
  <2>1. CASE ~vwatching
    BY <1>5, <1>7, <2>1, DeleteDoes DEF TypeOK
  <2>2. CASE vwatching
    BY <1>7, <2>2, DeleteDoes, ServicesTyped DEF Told
  <2> QED  BY <2>1, <2>2
<1>8. CASE HostCluster
  <2>1. UNCHANGED <<virt, vwatching, vqueue, lossless, vpc>>
    BY <1>8 DEF HostCluster, HostFinalizer, HostAssign, HostCleanedUp, vvars, vloop, history
  <2>2. host # NoSvc /\ (host.terminating => host' = NoSvc)
    BY <1>8 DEF HostCluster, HostFinalizer, HostAssign, HostCleanedUp
  <2> QED  BY <1>2, <2>1, <2>2
<1>9. CASE OpenServices
  BY <1>9, OpenDoes DEF LosslessInv, hvars, vloop, history
<1>10. CASE CreateHostService
  BY <1>4, <1>10, CreateHostDoes DEF history
<1>11. CASE GetHostService
  BY <1>4, <1>11, GetHostDoes DEF history
<1>12. CASE HandleDelete
  <2>1. /\ vpc = "idle" /\ vpc' = vpc /\ vqueue # << >> /\ vqueue' = Tail(vqueue)
        /\ UNCHANGED <<virt, vwatching, lossless>> /\ HostDeleteCall
    BY <1>12 DEF HandleDelete, vloop, history
  <2>2. host' = NoSvc \/ host'.terminating
    BY <2>1, HostDeleteDoes
  <2>3. vwatching
    BY <2>1 DEF LatestInv
  <2> QED  BY <2>1, <2>2, <2>3, HeadIs DEF Handled, LosslessInv
<1>13. CASE UpdateHostService
  <2>1. UNCHANGED <<virt, vwatching, vqueue, lossless>> /\ vpc' = "idle"
    BY <1>13, UpdateHostDoes DEF vvars
  <2>2. host = NoSvc => host' = NoSvc
    BY <1>13, UpdateHostDoes, HostServices
  <2>3. host # NoSvc /\ host.terminating => host' = NoSvc \/ host'.terminating
    BY <1>13, UpdateHostDoes
  <2> QED  BY <1>2, <2>1, <2>2, <2>3
<1>14. CASE OpenHostServices
  BY <1>2, <1>14, OpenHostDoes DEF vvars, vloop, history
<1>15. CASE ReceiveHostService
  BY <1>2, <1>15, ReceiveDoes DEF vvars, vloop, history
<1>16. CASE UpdateStatus
  <2>1. UNCHANGED <<vwatching, host, vpc, lossless>>
    BY <1>16, UpdateStatusDoes DEF hvars, vloop
  <2>2. CASE UNCHANGED <<virt, vqueue>>
    BY <1>2, <2>1, <2>2
  <2>3. CASE virt' \in VirtualService
    BY <1>3, <2>1, <2>3, VirtualServices
  <2> QED  BY <1>16, <2>2, <2>3, UpdateStatusDoes
<1>17. CASE Faults
  BY <1>5, <1>17, FaultDoes
<1>18. CASE UNCHANGED vars
  BY <1>2, <1>18 DEF vars, vvars, hvars, vloop, history
<1> QED
  BY <1>6, <1>7, <1>8, <1>9, <1>10, <1>11, <1>12, <1>13, <1>14, <1>15, <1>16, <1>17, <1>18
  DEF Next, Users, ServicesLoop, HostServicesLoop, ReceiveService

\* Where the Services disagree after a step, the repair is under way after it.
LEMMA HealStep ==
  ASSUME IInv, TypeOK', HandlerInv', [Next]_vars
  PROVE  HealInv'
<1> USE DEF IInv
<1> DEFINE Ends == lossless' /\ ~unhealed' /\ virt' # NoSvc /\ host' # NoSvc /\ ~host'.terminating
           RevThen == host'.rev = virt'.rev
           SameThen == SameAddress(virt'.lb, host'.lb)
           ToHostThen ==
             ~vwatching' \/ vqueue' # << >> \/ (vpc' = "update" /\ existing' = host')
           FromHostThen ==
             ~hwatching' \/ hqueue' # << >>
             \/ (hpc' = "update" /\ copy' = virt' /\ hostSvc'.lb = host'.lb)
           VCollidesThen == vpc' = "update" /\ existing' # host' /\ existing'.lb = host'.lb
           HCollidesThen == hpc' = "update" /\ copy' # virt' /\ copy'.rev = virt'.rev
           Healed == \/ RevThen /\ SameThen
                     \/ ~RevThen /\ ToHostThen
                     \/ ~SameThen /\ FromHostThen
                     \/ VCollidesThen
                     \/ HCollidesThen
<1>1. SUFFICES ASSUME Ends PROVE Healed
  BY DEF HealInv, Both, ToHost, FromHost, Collides, SameAddress
<1>2. /\ lossless' <=> TRUE
      /\ virt' \in VirtualService /\ host' \in HostService
  BY <1>1 DEF TypeOK
<1>3. /\ virt # NoSvc => virt \in VirtualService
      /\ host # NoSvc => host \in HostService
  BY ServicesTyped
\* A state in which both Services are there, and nothing was lost, is covered before.
<1>4. ASSUME lossless, ~unhealed, virt # NoSvc, host # NoSvc, ~host.terminating
      PROVE  \/ host.rev = virt.rev /\ SameAddress(virt.lb, host.lb)
             \/ host.rev # virt.rev /\ ToHost
             \/ ~SameAddress(virt.lb, host.lb) /\ FromHost
             \/ vpc = "update" /\ existing # host /\ existing.lb = host.lb
             \/ hpc = "update" /\ copy # virt /\ copy.rev = virt.rev
  BY <1>4 DEF HealInv, Both, Collides
<1> DEFINE VTold == ~vwatching' \/ vqueue' # << >>
           HTold == ~hwatching' \/ hqueue' # << >>
<1>5. VTold => ToHostThen
  OBVIOUS
<1>6. HTold => FromHostThen
  OBVIOUS
<1>7. VTold /\ HTold => Healed
  OBVIOUS
<1> HIDE DEF VTold, HTold
<1>8. \A type, s : Told(type, s) /\ UNCHANGED vwatching => VTold
  BY DEF Told, VTold
<1>9. \A s : HostTold(s) /\ s # host /\ UNCHANGED hwatching => HTold
  BY DEF HostTold, HTold
<1>10. (hwatching => hqueue # << >>) /\ UNCHANGED <<hwatching, hqueue>> => HTold
  BY DEF HTold
<1>11. (vwatching => vqueue # << >>) /\ UNCHANGED <<vwatching, vqueue>> => VTold
  BY DEF VTold
<1> DEFINE Covered == lossless /\ ~unhealed /\ virt # NoSvc /\ host # NoSvc /\ ~host.terminating
<1>12. ASSUME UNCHANGED vvars, UNCHANGED hvars, UNCHANGED vloop, UNCHANGED hloop, UNCHANGED history
       PROVE  Healed
  BY <1>1, <1>4, <1>12 DEF vvars, hvars, vloop, hloop, history, ToHost, FromHost
<1>13. CASE VirtualCreate \/ VirtualEdit
  <2>1. /\ \E type : Told(type, virt')
        /\ virt'.rev = revs + 1 /\ UNCHANGED vwatching /\ UNCHANGED host
    BY <1>13, CreateDoes, EditDoes DEF hvars
  <2>2. host.rev <= revs /\ host.rev \in Nat /\ revs \in Nat
    BY <1>1, <1>3, <2>1, HostServices, ServicesTyped DEF RevInv
  <2>3. ~RevThen
    BY <2>1, <2>2
  <2>4. VTold
    BY <1>8, <2>1
  <2> QED  BY <1>5, <2>3, <2>4
<1>14. CASE VirtualNote
  <2>1. /\ virt \in VirtualService /\ virt # NoSvc
        /\ virt'.uid = virt.uid /\ virt'.rev = virt.rev /\ virt'.lb = virt.lb
        /\ virt'.notes = virt.notes + 1
        /\ Told("MODIFIED", virt')
        /\ UNCHANGED <<vwatching, host, hwatching, hqueue, vpc, existing, hpc, hostSvc, copy, lossless,
                       unhealed>>
    BY <1>14, NoteDoes, VirtualServices DEF hvars, vloop, hloop, history
  <2>2. VTold
    BY <1>8, <2>1
  <2>3. hpc = "update" => copy # virt'
    <3>1. hpc = "update" /\ copy.uid = virt.uid =>
            copy.notes <= virt.notes /\ copy.notes \in Nat /\ virt.notes \in Nat
      BY <2>1, ServicesTyped, VirtualServices DEF CopyInv, HandlerInv
    <3>2. hpc = "update" /\ copy.uid = virt.uid => copy.notes # virt'.notes
      BY <2>1, <3>1
    <3> QED  BY <2>1, <3>2
  <2>4. CASE host.rev # virt.rev
    BY <1>5, <2>1, <2>2, <2>4
  <2>5. CASE host.rev = virt.rev
    BY <1>1, <1>4, <2>1, <2>3, <2>5 DEF FromHost
  <2> QED  BY <2>4, <2>5
<1>15. CASE VirtualDelete
  BY <1>1, <1>15, DeleteDoes
<1>16. CASE HostFinalizer
  <2>1. /\ host \in HostService /\ host # NoSvc /\ HostTold(host') /\ host' # host
        /\ host'.uid = host.uid /\ host'.rev = host.rev /\ host'.lb = host.lb
        /\ ~host.finalizer /\ host'.finalizer /\ ~host.terminating
        /\ UNCHANGED <<virt, vwatching, vqueue, hwatching, vpc, existing, hpc, hostSvc, copy, lossless,
                       unhealed>>
    BY <1>16, FinalizerDoes, HostServices DEF vvars, vloop, hloop, history
  <2>2. HTold
    BY <1>9, <2>1
  <2>3. vpc = "update" => existing # host'
    <3>1. vpc = "update" /\ existing.uid = host.uid => ~existing.finalizer
      BY <2>1 DEF CopyInv
    <3> QED  BY <2>1, <3>1
  <2>4. CASE ~SameAddress(virt.lb, host.lb)
    BY <1>6, <2>1, <2>2, <2>4
  <2>5. CASE SameAddress(virt.lb, host.lb)
    BY <1>1, <1>4, <2>1, <2>3, <2>5 DEF ToHost
  <2> QED  BY <2>4, <2>5
<1>17. CASE HostAssign
  <2>1. /\ host \in HostService /\ host # NoSvc /\ HostTold(host') /\ host' # host
        /\ host'.lb.from = host.uid /\ host'.lb.level = host.lb.level + 1
        /\ UNCHANGED <<virt, hwatching>>
    BY <1>17, AssignDoes, HostServices DEF vvars
  <2>2. HTold
    BY <1>9, <2>1
  <2>3. virt.lb \in Address /\ Shown(virt.lb, host) /\ host.uid \in Nat /\ host.lb.level \in Nat
    BY <1>1, <1>3, <2>1, VirtualServices, HostServices, Addresses DEF AddressInv
  <2>4. virt.lb.level \in Nat /\ virt.lb.from \in Nat
    BY <2>3, Addresses
  <2>5. ~(virt.lb.from = host'.lb.from /\ virt.lb.level = host'.lb.level) /\ host'.lb.level # 0
    BY <2>1, <2>3, <2>4 DEF Shown
  <2>6. ~SameThen
    BY <2>1, <2>5 DEF SameAddress
  <2> QED  BY <1>6, <2>2, <2>6
<1>18. CASE HostCleanedUp
  BY <1>1, <1>18 DEF HostCleanedUp
<1>19. CASE OpenServices
  <2>1. virt # NoSvc /\ vqueue' # << >>
    BY <1>1, <1>19, OpenDoes
  <2>2. lossless /\ host # NoSvc /\ ~vwatching
    BY <1>1, <1>19, OpenDoes DEF hvars, history
  <2> QED  BY <2>2 DEF LosslessInv
<1>20. CASE CreateHostService
  <2>1. /\ HostTold(host') /\ host' # host /\ host'.rev = Head(vqueue).svc.rev
        /\ vpc = "idle" /\ vqueue # << >> /\ vqueue' = Tail(vqueue)
        /\ UNCHANGED <<virt, vwatching, hwatching>>
    BY <1>20, CreateHostDoes
  <2>2. HTold
    BY <1>9, <2>1
  <2>3. VTold \/ RevThen
    BY <1>1, <2>1, HeadIs DEF LatestInv, VTold
  <2> QED  BY <1>5, <1>6, <2>2, <2>3
<1>21. CASE GetHostService
  <2>1. /\ vpc' = "update" /\ existing' = host /\ vpc = "idle"
        /\ UNCHANGED <<virt, host, hwatching, hqueue, hpc, hostSvc, copy, lossless, unhealed>>
    BY <1>21, GetHostDoes DEF hvars, hloop, history
  <2>2. ToHostThen
    BY <2>1
  <2>3. CASE host.rev # virt.rev
    BY <2>1, <2>2, <2>3
  <2>4. CASE host.rev = virt.rev
    BY <1>1, <1>4, <2>1, <2>4 DEF FromHost
  <2> QED  BY <2>3, <2>4
<1>22. CASE HandleDelete
  <2>1. HostDeleteCall
    BY <1>22 DEF HandleDelete
  <2> QED  BY <1>1, <2>1, HostDeleteDoes
<1>23. CASE UpdateHostService
  <2>1. /\ vpc = "update" /\ vpc' = "idle"
        /\ UNCHANGED <<virt, vwatching, vqueue, hwatching, hpc, hostSvc, copy, lossless>>
        /\ unhealed' <=> (unhealed \/ (host # existing /\ host # NoSvc /\ host.lb = existing.lb))
    BY <1>23, UpdateHostDoes DEF vvars, hloop
  <2>2. CASE host # existing /\ UNCHANGED <<host, hqueue>>
    <3>1. Covered /\ host.lb # existing.lb
      BY <1>1, <2>1, <2>2
    <3>2. \/ host.rev = virt.rev /\ SameAddress(virt.lb, host.lb)
          \/ host.rev # virt.rev /\ ToHost
          \/ ~SameAddress(virt.lb, host.lb) /\ FromHost
          \/ hpc = "update" /\ copy # virt /\ copy.rev = virt.rev
      BY <1>4, <3>1
    <3> QED  BY <2>1, <2>2, <3>2 DEF ToHost, FromHost
  <2>3. CASE /\ host = existing /\ HostTold(host') /\ host'.rev = vSvc.rev /\ host'.lb = host.lb
             /\ (host'.terminating <=> host.terminating)
             /\ vSvc.rev = host.rev => host' = host
    <3>1. VTold \/ RevThen
      BY <1>1, <1>11, <2>1, <2>3 DEF LatestInv
    <3>2. CASE host' # host
      <4>1. HTold
        BY <1>9, <2>1, <2>3, <3>2
      <4> QED  BY <1>5, <1>6, <3>1, <4>1
    <3>3. CASE host' = host
      <4>1. hqueue' = hqueue
        BY <2>3, <3>3 DEF HostTold
      <4>2. CASE RevThen
        <5>1. \/ SameAddress(virt.lb, host.lb)
              \/ ~SameAddress(virt.lb, host.lb) /\ FromHost
              \/ vpc = "update" /\ existing # host /\ existing.lb = host.lb
              \/ hpc = "update" /\ copy # virt /\ copy.rev = virt.rev
          BY <1>1, <1>4, <2>1, <3>3, <4>2
        <5> QED  BY <2>1, <2>3, <3>3, <4>1, <4>2, <5>1 DEF FromHost
      <4>3. CASE ~RevThen
        BY <1>5, <3>1, <4>3
      <4> QED  BY <4>2, <4>3
    <3> QED  BY <3>2, <3>3
  <2> QED  BY <1>23, <2>2, <2>3, UpdateHostDoes
<1>24. CASE OpenHostServices
  <2>1. /\ hqueue' # << >> /\ UNCHANGED <<virt, vwatching, vqueue, vpc, existing, host, hpc, copy, lossless,
                                          unhealed>>
    BY <1>1, <1>24, OpenHostDoes DEF vvars, vloop, hloop, history
  <2>2. FromHostThen
    BY <2>1
  <2>3. CASE ~SameAddress(virt.lb, host.lb)
    BY <2>1, <2>2, <2>3
  <2>4. CASE SameAddress(virt.lb, host.lb)
    BY <1>1, <1>4, <2>1, <2>4 DEF ToHost
  <2> QED  BY <2>3, <2>4
<1>25. CASE ReceiveHostService
  <2>1. /\ hpc = "idle" /\ hqueue # << >> /\ hqueue' = Tail(hqueue)
        /\ UNCHANGED <<virt, vwatching, vqueue, vpc, existing, host, hwatching, lossless, unhealed>>
        /\ \/ SameAddress(virt.lb, Head(hqueue).lb)
           \/ hpc' = "update" /\ hostSvc' = Head(hqueue) /\ copy' = virt
    BY <1>1, <1>25, ReceiveDoes DEF vvars, vloop, history
  <2>2. HTold \/ Head(hqueue) = host
    BY <1>1, <2>1, HostHeadIs DEF LatestInv, HTold
  <2>3. CASE ~SameAddress(virt.lb, host.lb)
    <3>1. FromHostThen
      BY <1>6, <2>1, <2>2, <2>3
    <3> QED  BY <2>1, <2>3, <3>1
  <2>4. CASE SameAddress(virt.lb, host.lb)
    BY <1>1, <1>4, <2>1, <2>4 DEF ToHost
  <2> QED  BY <2>3, <2>4
<1>26. CASE UpdateStatus
  <2>1. /\ hpc = "update" /\ hpc' = "idle"
        /\ UNCHANGED <<vwatching, host, hwatching, hqueue, vpc, existing, lossless>>
        /\ unhealed' <=> (unhealed \/ (virt # copy /\ virt # NoSvc /\ virt.rev = copy.rev))
    BY <1>26, UpdateStatusDoes DEF hvars, vloop
  <2>2. CASE virt # copy /\ UNCHANGED <<virt, vqueue>>
    <3>1. Covered /\ virt.rev # copy.rev
      BY <1>1, <2>1, <2>2
    <3>2. \/ host.rev = virt.rev /\ SameAddress(virt.lb, host.lb)
          \/ host.rev # virt.rev /\ ToHost
          \/ ~SameAddress(virt.lb, host.lb) /\ FromHost
          \/ vpc = "update" /\ existing # host /\ existing.lb = host.lb
      BY <1>4, <3>1
    <3> QED  BY <2>1, <2>2, <3>2 DEF ToHost, FromHost
  <2>3. CASE virt'.lb = hostSvc.lb /\ Told("MODIFIED", virt')
    <3>1. VTold
      BY <1>8, <2>1, <2>3
    <3>2. HTold \/ virt'.lb = host.lb
      BY <1>1, <1>10, <2>1, <2>3 DEF LatestInv
    <3>3. HTold \/ SameThen
      BY <2>1, <3>2 DEF SameAddress
    <3> QED  BY <1>5, <1>6, <3>1, <3>3
  <2> QED  BY <1>26, <2>2, <2>3, UpdateStatusDoes
<1>27. CASE Faults
  BY <1>1, <1>27, FaultDoes
<1>28. CASE UNCHANGED vars
  BY <1>12, <1>28 DEF vars
<1> QED
  BY <1>13, <1>14, <1>15, <1>16, <1>17, <1>18, <1>19, <1>20, <1>21, <1>22, <1>23, <1>24, <1>25,
     <1>26, <1>27, <1>28
  DEF Next, Users, HostCluster, ServicesLoop, HostServicesLoop, ReceiveService

-----------------------------------------------------------------------------
(* The theorems.                                                           *)

LEMMA Initially == Init => IInv
<1> SUFFICES ASSUME Init PROVE IInv
  OBVIOUS
<1>1. /\ << >> \in Seq(Events) /\ << >> \in Seq(HostService)
      /\ 0 \in 0..MaxUids /\ 0 \in 0..MaxRevs /\ 0 \in 0..MaxFaults
  BY Bounds
<1>2. TypeOK
  BY <1>1 DEF Init, TypeOK, Events
<1>3. Len(vqueue) = 0 /\ Len(hqueue) = 0
  BY DEF Init
<1>4. HandlerInv /\ LatestInv /\ CopyInv /\ LosslessInv /\ HealInv
  BY DEF Init, HandlerInv, LatestInv, CopyInv, LosslessInv, HealInv, Gone, Both
<1>5. 1..Len(vqueue) = {} /\ 1..Len(hqueue) = {}
  BY <1>3
<1>6. RevInv /\ AddressInv
  BY <1>5 DEF Init, RevInv, AddressInv
<1> QED  BY <1>2, <1>4, <1>6 DEF IInv

LEMMA Invariance == IInv /\ [Next]_vars => IInv'
<1> SUFFICES ASSUME IInv, [Next]_vars PROVE IInv'
  OBVIOUS
<1>1. TypeOK' /\ HandlerInv'
  BY TypeStep DEF IInv
<1>2. LatestInv'
  BY <1>1, LatestStep DEF IInv
<1>3. RevInv' /\ AddressInv' /\ CopyInv'
  BY <1>1, RevStep, AddressStep, CopyStep DEF IInv
<1>4. LosslessInv'
  BY <1>1, LosslessStep DEF IInv
<1>5. HealInv'
  BY <1>1, HealStep
<1> QED  BY <1>1, <1>2, <1>3, <1>4, <1>5 DEF IInv

\* The inductive invariant holds in every state of the two loops.
THEOREM Invariant == Spec => []IInv
BY Initially, Invariance, PTL DEF Spec

\* Every variable has its type: what a loop writes comes from a Service it was told of
\* or has read.
THEOREM TypesHold == Spec => []TypeOK
<1>1. IInv => TypeOK
  BY DEF IInv
<1> QED  BY <1>1, Invariant, PTL

\* Neither loop retries a conflict, and with nothing lost they still agree once both are
\* idle: the write that won sends the event that makes up for the one that lost.
THEOREM LoopsHeal == Spec => []LoopsHealEachOther
<1>1. ASSUME IInv PROVE LoopsHealEachOther
  <2>1. Quiet => ~ToHost /\ ~FromHost /\ ~Collides
    BY DEF Quiet, ToHost, FromHost, Collides
  <2> QED  BY <1>1, <2>1 DEF IInv, HealInv, Both, LoopsHealEachOther
<1> QED  BY <1>1, Invariant, PTL

\* While nothing is lost, a deletion syncServices has handled leaves no host Service but
\* one the load balancer's finalizer keeps for its clean-up.
THEOREM RemovalsHandled == Spec => []RemovalHandled
<1>1. IInv => RemovalHandled
  BY DEF IInv, LosslessInv, Gone, RemovalHandled
<1> QED  BY <1>1, Invariant, PTL

\* syncServiceToHost never takes ports and selector back to an earlier revision, and
\* reconcileVirtualServiceFromHost never the address, whatever is lost or collides.
THEOREM OnlyForward == Spec => MovesForward
<1> DEFINE HostForward == host # NoSvc /\ host' # NoSvc => host.rev <= host'.rev
           AddressForward ==
             virt # NoSvc /\ virt' # NoSvc /\ virt.uid = virt'.uid =>
               LET a == virt.lb  b == virt'.lb IN
               a = b \/ a.from < b.from \/ b.level = 0 \/ (a.from = b.from /\ a.level < b.level)
           Forward ==
             /\ host # NoSvc /\ host' # NoSvc => host.rev <= host'.rev
             /\ virt # NoSvc /\ virt' # NoSvc /\ virt.uid = virt'.uid =>
                  LET a == virt.lb  b == virt'.lb IN
                  a = b \/ a.from < b.from \/ b.level = 0 \/ (a.from = b.from /\ a.level < b.level)
<1>1. ASSUME IInv, [Next]_vars PROVE HostForward
  <2> USE <1>1 DEF IInv
  <2>1. host # NoSvc => host.rev \in Nat
    BY ServicesTyped, HostServices
  <2>2. host' = host \/ host' = NoSvc \/ host'.rev = host.rev => HostForward
    BY <2>1
  <2> HIDE DEF HostForward
  <2>3. CASE UpdateHostService
    <3>1. CASE host'.rev = vSvc.rev
      BY <2>3, <3>1, UpdateHostDoes DEF RevInv, HostForward
    <3> QED  BY <2>2, <2>3, <3>1, UpdateHostDoes
  <2>4. CASE CreateHostService
    BY <2>4, CreateHostDoes DEF HostForward
  <2>5. CASE HandleDelete
    BY <2>2, <2>5, HostDeleteDoes DEF HandleDelete
  <2>6. CASE HostCluster
    BY <2>2, <2>6, FinalizerDoes, AssignDoes DEF HostCluster, HostCleanedUp
  <2>7. host' = host \/ UpdateHostService \/ CreateHostService \/ HandleDelete \/ HostCluster
    BY FaultDoes
    DEF Next, Users, VirtualCreate, VirtualEdit, VirtualNote, VirtualDelete, ServicesLoop, ReceiveService,
        HostServicesLoop, OpenServices, GetHostService, OpenHostServices, ReceiveHostService,
        UpdateStatus, vars, hvars
  <2> QED  BY <2>2, <2>3, <2>4, <2>5, <2>6, <2>7
<1>2. ASSUME IInv, [Next]_vars PROVE AddressForward
  <2> USE <1>2 DEF IInv
  <2>1. virt' = virt \/ virt'.lb = virt.lb \/ virt = NoSvc \/ virt' = NoSvc => AddressForward
    OBVIOUS
  <2> HIDE DEF AddressForward
  <2>2. CASE Users
    BY <2>1, <2>2, CreateDoes, EditDoes, NoteDoes, DeleteDoes DEF Users
  <2>3. CASE UpdateStatus
    <3>1. CASE virt \in VirtualService /\ virt'.lb = hostSvc.lb /\ hpc = "update"
      <4> DEFINE a == virt.lb
                 b == hostSvc.lb
      <4>1. a \in Address /\ b \in Address /\ hostSvc.uid \in Nat /\ virt # NoSvc
        BY <3>1, ServicesTyped, VirtualServices, HostServices DEF HandlerInv
      <4>2. /\ Shown(a, hostSvc) /\ hostSvc.uid > 0
            /\ b.level > 0 => b.from = hostSvc.uid
            /\ a.level = 0 => a = NoAddress
        BY <3>1, <4>1 DEF AddressInv, Known, Assigned
      <4> HIDE DEF a
      <4>3. /\ a.from \in Nat /\ a.level \in Nat /\ b.from \in Nat /\ b.level \in Nat
            /\ a = [from |-> a.from, level |-> a.level] /\ b = [from |-> b.from, level |-> b.level]
        BY <4>1, Addresses
      <4>4. a.level = 0 => a.from = 0
        BY <4>2, Bounds
      <4>5. \/ a.from = b.from /\ a.level = b.level
            \/ a.from < b.from \/ b.level = 0 \/ (a.from = b.from /\ a.level < b.level)
        BY <4>1, <4>2, <4>3, <4>4 DEF Shown
      <4>6. a = b \/ a.from < b.from \/ b.level = 0 \/ (a.from = b.from /\ a.level < b.level)
        BY <4>3, <4>5
      <4> QED  BY <3>1, <4>6 DEF a, AddressForward
    <3> QED  BY <2>1, <2>3, <3>1, UpdateStatusDoes
  <2>4. virt' = virt \/ Users \/ UpdateStatus
    BY FaultDoes
    DEF Next, HostCluster, HostFinalizer, HostAssign, HostCleanedUp, ServicesLoop, ReceiveService,
        HostServicesLoop, OpenServices, CreateHostService, GetHostService, HandleDelete,
        UpdateHostService, OpenHostServices, ReceiveHostService, vars, vvars
  <2> QED  BY <2>1, <2>2, <2>3, <2>4
<1>3. IInv /\ [Next]_vars => [Forward]_vars
  BY <1>1, <1>2
<1>4. Spec => [][Forward]_vars
  BY <1>3, Invariant, PTL DEF Spec
<1> QED  BY <1>4 DEF MovesForward
=============================================================================
