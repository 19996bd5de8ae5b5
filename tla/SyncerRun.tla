------------------------------ MODULE SyncerRun ------------------------------
(***************************************************************************)
(* The syncer process in flat mode: cmd/syncer/main.go waits for k3s and   *)
(* calls Run (pkg/syncer/syncer.go), which starts seven loops and the      *)
(* kubelet shim as goroutines, waits for all of them and then reports what *)
(* they left in errCh.  The node loop is NodeSync's; the other six are     *)
(* counted by what they are doing, which is all that is asked of them      *)
(* here.                                                                   *)
(*                                                                         *)
(* External: k3s, the kubelet of the host (which restarts the container    *)
(* when the process ends, and ends it by SIGTERM only to replace the pod), *)
(* the network.                                                            *)
(*                                                                         *)
(* Abstracted: the pause of main before it loads the kubeconfig.  vnode    *)
(* mode, in which the process idles, is left out.                          *)
(***************************************************************************)
EXTENDS NodeSync

CONSTANTS
  OtherLoops,  \* the loops besides the nodes': six
  ErrCapacity, \* the capacity of errCh: six
  MaxPods      \* bound: pods the StatefulSet replaces each other with

ASSUME ProcessBounds == {OtherLoops, ErrCapacity, MaxPods} \subseteq Nat

\* errCh is buffered.
ASSUME CapacityAssumption == ErrCapacity > 0

VARIABLES
  phase,    \* where main stands
  k3s,      \* what of k3s is there: nothing, its kubeconfig, its API
  shim,     \* where the shim's goroutine stands
  running,  \* other loops in or about to open a watch
  waiting,  \* other loops waiting before they retry
  ended,    \* goroutines that are done
  sending,  \* goroutines about to send an error to errCh
  errs,     \* errors in errCh
  code      \* the exit status

process == <<phase, k3s, shim, running, waiting, ended, sending, errs, code>>
vars == <<nodevars, process>>

Goroutines == OtherLoops + 2

\* Every variable has its type, and there are as many goroutines as were started.
TypeOK ==
  /\ NodeTypeOK
  /\ phase \in {"file", "api", "run", "exited"}
  /\ k3s \in {"nothing", "file", "api"}
  /\ shim \in {"off", "starting", "serving", "failed", "ended"}
  /\ {running, waiting} \subseteq 0..OtherLoops
  /\ {ended, sending} \subseteq 0..Goroutines
  /\ errs \in 0..ErrCapacity
  /\ code \in {0, 1}
  /\ phase # "run" => running + waiting + ended + sending = 0

Init ==
  /\ NodeInit
  /\ phase = "file" /\ k3s = "nothing" /\ shim = "off"
  /\ running = 0 /\ waiting = 0 /\ ended = 0 /\ sending = 0 /\ errs = 0
  /\ code = 0

-----------------------------------------------------------------------------
(* k3s, in the same pod.                                                   *)

K3sProgress ==
  /\ k3s # "api"
  /\ k3s' = IF k3s = "nothing" THEN "file" ELSE "api"
  /\ UNCHANGED <<nodevars, phase, shim, running, waiting, ended, sending, errs, code>>

-----------------------------------------------------------------------------
(* main.                                                                   *)

\* The process ends, with everything in it.
Exit(c) ==
  /\ phase' = "exited" /\ code' = c
  /\ shim' = "off" /\ running' = 0 /\ waiting' = 0 /\ ended' = 0 /\ sending' = 0 /\ errs' = 0
  /\ NodesOff

Signal ==
  /\ phase # "exited"
  /\ ~cancelled
  /\ podIP < MaxPods
  /\ cancelled' = TRUE
  /\ UNCHANGED <<cluster, nodeloop, podIP, faults, process>>

FileAppears ==
  /\ phase = "file"
  /\ k3s # "nothing"
  /\ phase' = "api"
  /\ UNCHANGED <<nodevars, k3s, shim, running, waiting, ended, sending, errs, code>>

Waiting ==
  \/ phase = "file" /\ k3s = "nothing"
  \/ phase = "api" /\ k3s # "api"

\* waitForFile and waitForAPI return an error: the context is cancelled or the
\* time is up.
GiveUp ==
  /\ Waiting
  /\ \/ cancelled /\ UNCHANGED faults
     \/ faults < MaxFaults /\ faults' = faults + 1
  /\ Exit(1)
  /\ UNCHANGED <<cluster, podIP, cancelled, k3s>>

\* Run starts its loops.
StartLoops ==
  /\ phase = "api"
  /\ k3s = "api"
  /\ phase' = "run"
  /\ running' = OtherLoops
  /\ nloop' = "opening"
  /\ UNCHANGED <<cluster, nqueue, npc, hostNode, existing, podIP, cancelled, faults,
                 k3s, shim, waiting, ended, sending, errs, code>>

StartShim ==
  /\ phase = "run"
  /\ shim = "off"
  /\ shim' = "starting"
  /\ UNCHANGED <<nodevars, phase, k3s, running, waiting, ended, sending, errs, code>>

\* kubeletshim.New fails: Run returns at once, without waiting for the loops.
NewShimFails ==
  /\ phase = "run"
  /\ shim = "off"
  /\ faults < MaxFaults
  /\ faults' = faults + 1
  /\ Exit(1)
  /\ UNCHANGED <<cluster, podIP, cancelled, k3s>>

\* wg.Wait returns, errCh is closed and read.
RunReturns ==
  /\ phase = "run"
  /\ ended = Goroutines
  /\ Exit(IF errs > 0 THEN 1 ELSE 0)
  /\ UNCHANGED <<cluster, podIP, cancelled, faults, k3s>>

\* The process dies.
Crash ==
  /\ phase # "exited"
  /\ faults < MaxFaults
  /\ faults' = faults + 1
  /\ Exit(1)
  /\ UNCHANGED <<cluster, podIP, cancelled, k3s>>

\* The kubelet restarts the container; after a SIGTERM the pod is a new one.
Restart ==
  /\ phase = "exited"
  /\ phase' = "file"
  /\ cancelled' = FALSE
  /\ IF cancelled THEN podIP' = podIP + 1 /\ k3s' = "file" ELSE UNCHANGED <<podIP, k3s>>
  /\ UNCHANGED <<cluster, nodeloop, faults, shim, running, waiting, ended, sending, errs, code>>

-----------------------------------------------------------------------------
(* The goroutines of Run.                                                  *)

\* Mutant: the error of a closed watch is returned, not retried.
CloseOtherReturns ==
  /\ running > 0
  /\ ~cancelled
  /\ running' = running - 1
  /\ sending' = sending + 1
  /\ UNCHANGED <<nodevars, phase, k3s, shim, waiting, ended, errs, code>>

\* Mutant: every retry is a goroutine of its own.
CloseOtherForks ==
  /\ running > 0
  /\ ~cancelled
  /\ waiting' = waiting + 1
  /\ UNCHANGED <<nodevars, phase, k3s, shim, running, ended, sending, errs, code>>

\* A watch closes or cannot be opened; watchWithRetry never returns this error.
CloseOther ==
  /\ running > 0
  /\ ~cancelled
  /\ running' = running - 1
  /\ waiting' = waiting + 1
  /\ UNCHANGED <<nodevars, phase, k3s, shim, ended, sending, errs, code>>

RetryOther ==
  /\ waiting > 0
  /\ ~cancelled
  /\ waiting' = waiting - 1
  /\ running' = running + 1
  /\ UNCHANGED <<nodevars, phase, k3s, shim, ended, sending, errs, code>>

EndOther ==
  /\ cancelled
  /\ \/ running > 0 /\ running' = running - 1 /\ UNCHANGED waiting
     \/ waiting > 0 /\ waiting' = waiting - 1 /\ UNCHANGED running
  /\ ended' = ended + 1
  /\ UNCHANGED <<nodevars, phase, k3s, shim, sending, errs, code>>

EndNodeLoop ==
  /\ EndNodes
  /\ ended' = ended + 1
  /\ UNCHANGED <<phase, k3s, shim, running, waiting, sending, errs, code>>

ShimListens ==
  /\ shim = "starting"
  /\ shim' = "serving"
  /\ UNCHANGED <<nodevars, phase, k3s, running, waiting, ended, sending, errs, code>>

\* The CA cannot be read, the port is taken or the server stops.  The error is
\* dropped if the context is cancelled by then.
ShimFails ==
  /\ shim \in {"starting", "serving"}
  /\ faults < MaxFaults
  /\ faults' = faults + 1
  /\ shim' = "failed"
  /\ IF cancelled THEN ended' = ended + 1 /\ UNCHANGED sending
     ELSE sending' = sending + 1 /\ UNCHANGED ended
  /\ UNCHANGED <<cluster, nodeloop, podIP, cancelled, phase, k3s, running, waiting, errs, code>>

\* Mutant: the shim ends with its listener only.
ShimIgnoresContext ==
  /\ shim = "serving"
  /\ cancelled
  /\ UNCHANGED vars

ShimEnds ==
  /\ shim = "serving"
  /\ cancelled
  /\ shim' = "ended"
  /\ ended' = ended + 1
  /\ UNCHANGED <<nodevars, phase, k3s, running, waiting, sending, errs, code>>

\* errCh <- err, which blocks while the buffer is full.
SendError ==
  /\ sending > 0
  /\ errs < ErrCapacity
  /\ errs' = errs + 1
  /\ sending' = sending - 1
  /\ ended' = ended + 1
  /\ UNCHANGED <<nodevars, phase, k3s, shim, running, waiting, code>>

-----------------------------------------------------------------------------

NodeStep == NodesLoop /\ UNCHANGED process
Main == FileAppears \/ GiveUp \/ StartLoops \/ StartShim \/ NewShimFails \/ RunReturns
OtherLoopStep == CloseOther \/ RetryOther \/ EndOther
Shim == ShimListens \/ ShimFails \/ ShimEnds

Next ==
  \/ Environment /\ UNCHANGED process
  \/ NodeStep \/ EndNodeLoop
  \/ OtherLoopStep \/ Shim \/ SendError
  \/ Main \/ Signal \/ Crash \/ Restart
  \/ K3sProgress

Spec == Init /\ [][Next]_vars

NodeHandles == SkipDeleted \/ CreateNode \/ GetNode

\* k3s comes up, the kubelet restarts the container, the process and its
\* goroutines run.  API servers close every watch after some time, but not
\* forever before its events are handled.
FairSpec ==
  /\ Spec
  /\ WF_vars(K3sProgress) /\ WF_vars(Restart)
  /\ WF_vars(FileAppears) /\ WF_vars(GiveUp /\ cancelled) /\ WF_vars(StartLoops)
  /\ WF_vars(StartShim) /\ WF_vars(RunReturns)
  /\ WF_vars(EndOther) /\ WF_vars(EndNodeLoop) /\ WF_vars(ShimListens) /\ WF_vars(ShimEnds)
  /\ WF_vars(SendError)
  /\ WF_vars((OpenNodes \/ RetryNodes \/ UpdateNodeStatus) /\ UNCHANGED process)
  /\ WF_vars(FailNode /\ cancelled /\ UNCHANGED process)
  /\ SF_vars(NodeHandles /\ UNCHANGED process)
  /\ SF_vars(CloseNodes /\ UNCHANGED process)

-----------------------------------------------------------------------------
(* Properties.                                                             *)

\* errCh holds six errors and eight goroutines could send one, while nobody reads
\* it before all are done: it must never be full when somebody sends.
NobodyBlocksOnErrors == errs + sending <= ErrCapacity

\* A cancelled process ends by itself, whatever its goroutines were doing, and so
\* is not killed at the end of the pod's grace period.
CancelledEnds == cancelled ~> phase = "exited"

\* What a virtual node reports only moves forward, over restarts, reopened
\* watches, failed calls and nodes that leave and come back.
NodeStatusMovesForward ==
  [][\A n \in Nodes : virtual[n] # NoNode /\ virtual'[n] # NoNode =>
       virtual[n].beat <= virtual'[n].beat]_vars

\* A host node that stays is in the end in the virtual cluster with its last
\* report and the address of the present pod, whatever was edited, removed or
\* lost meanwhile and however often the syncer was restarted or its pod replaced.
NodesFollowHost ==
  \A n \in Nodes :
    <>[](n \in present) =>
      <>[](virtual[n] # NoNode /\ virtual[n].beat = reported[n] /\ virtual[n].address = podIP)
=============================================================================
