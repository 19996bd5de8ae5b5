--------------------------- MODULE Lifecycle_proofs ---------------------------
(***************************************************************************)
(* A theorem about Lifecycle, for every set of plans, every number of      *)
(* commands in one and any number of faults: commands that do not meet in  *)
(* the kubeconfig keep what is in it.                                      *)
(*                                                                         *)
(* ContextsKept is not inductive.  What a command writes is what it loaded *)
(* some steps before, and so the invariant has the copies as well as the   *)
(* file; that a copy is whole rests on the file having been whole, and on  *)
(* nobody having written it since, which is what Alone says.               *)
(***************************************************************************)
EXTENDS Lifecycle, TLAPS

\* One command at a time is between its load and the end of its write.
Alone == \A c, d \in Commands : InFile(c) /\ InFile(d) => c = d

\* What it is going to write has the user's other contexts.
CopiesWhole == \A c \in Commands : InFile(c) => "other" \in copy[c]

\* The file has them too, or is being written.
FileWhole ==
  (file.partial = FALSE /\ "other" \in file.contexts) \/ \E c \in Commands : pc[c] = "write"

FileInv ==
  /\ DOMAIN copy = Commands
  /\ "file" \in lapses \/ (Alone /\ CopiesWhole /\ FileWhole)

\* A step that has nothing to do with the file.
Outside ==
  /\ UNCHANGED fileVars
  /\ lapses \subseteq lapses'
  /\ \/ UNCHANGED pc
     \/ \E c \in Commands : \E step :
          /\ ~InFile(c) /\ step \notin {"truncate", "write"}
          /\ GoTo(c, step)

-----------------------------------------------------------------------------
(* Which steps have nothing to do with the file.                           *)

LEMMA InstallingOutside ==
  ASSUME NEW c \in Commands, Installing(c)
  PROVE  Outside
<1>1. UNCHANGED fileVars /\ lapses \subseteq lapses'
  BY DEF Installing, lifeVars, historyVars, fileVars
<1>2. CASE Install(c)
  <2>1. \E step : ~InFile(c) /\ step \notin {"truncate", "write"} /\ GoTo(c, step)
    BY <1>2 DEF Install, InstallCRD, EnsureNamespaceExists, EnsureOperatorServiceAccount,
                EnsureOperatorRBAC, EnsureOperatorDeployment, EnsurePart, At, InFile
  <2> QED  BY <1>1, <2>1 DEF Outside
<1>3. CASE Uninstall(c)
  <2>1. \E step : ~InFile(c) /\ step \notin {"truncate", "write"} /\ GoTo(c, step)
    BY <1>3 DEF Uninstall, DeleteDeployment, DeleteRights, DeleteOperatorNamespace,
                UninstallCRD, At, InFile
  <2> QED  BY <1>1, <2>1 DEF Outside
<1> QED  BY <1>2, <1>3 DEF Installing

LEMMA CreateOutside ==
  ASSUME NEW c \in Commands, Create(c)
  PROVE  Outside
<1>1. UNCHANGED fileVars /\ lapses \subseteq lapses'
  BY DEF Create, ResolveCreateMode, CreateVirtualClusterCR, CreateNamespace,
         CreateServiceAccount, CreateRBAC, CreateServices, CreateStatefulSet,
         CreateVNodeStatefulSet, OnHost, Lapse, fileVars
<1>2. \E step : ~InFile(c) /\ step \notin {"truncate", "write"} /\ GoTo(c, step)
  BY DEF Create, ResolveCreateMode, CreateVirtualClusterCR, CreateNamespace,
         CreateServiceAccount, CreateRBAC, CreateServices, CreateStatefulSet,
         CreateVNodeStatefulSet, OnHost, At, InFile
<1> QED  BY <1>1, <1>2 DEF Outside

LEMMA DeleteOutside ==
  ASSUME NEW c \in Commands, Delete(c)
  PROVE  Outside
<1>1. UNCHANGED fileVars /\ lapses \subseteq lapses'
  BY DEF Delete, CheckOperator, FindVirtualClusterCR, DeleteVirtualClusterCR,
         DeleteClusterRBAC, DeleteNamespace, OnHost, Lapse, fileVars
<1>2. \E step : ~InFile(c) /\ step \notin {"truncate", "write"} /\ GoTo(c, step)
  BY DEF Delete, CheckOperator, FindVirtualClusterCR, DeleteVirtualClusterCR,
         DeleteClusterRBAC, DeleteNamespace, OnHost, At, InFile
<1> QED  BY <1>1, <1>2 DEF Outside

LEMMA ExposeOutside ==
  ASSUME NEW c \in Commands, Expose(c)
  PROVE  Outside
<1>1. UNCHANGED fileVars /\ lapses \subseteq lapses'
  BY DEF Expose, ExposeService, ExposeIngress, ExposeTlsSan, OnHost, Lapse, fileVars
<1>2. \E step : ~InFile(c) /\ step \notin {"truncate", "write"} /\ GoTo(c, step)
  BY DEF Expose, ExposeService, ExposeIngress, AfterIngress, ExposeTlsSan, OnHost, At, InFile
<1> QED  BY <1>1, <1>2 DEF Outside

LEMMA WaitingOutside ==
  ASSUME NEW c \in Commands,
         ConnectStarts(c) \/ AwaitReady(c) \/ AwaitAddress(c) \/ GiveUp(c) \/ EditSpec(c)
  PROVE  Outside
<1>1. UNCHANGED fileVars /\ lapses \subseteq lapses'
  BY DEF ConnectStarts, AwaitReady, AwaitAddress, GiveUp, EditSpec, OnHost, historyVars, fileVars
<1>2. \E step : ~InFile(c) /\ step \notin {"truncate", "write"} /\ GoTo(c, step)
  BY DEF ConnectStarts, AwaitReady, AwaitAddress, GiveUp, EditSpec, OnHost, At, InFile
<1> QED  BY <1>1, <1>2 DEF Outside

LEMMA OperatorOutside ==
  ASSUME Operator
  PROVE  Outside
<1>1. UNCHANGED <<pc, fileVars>>
  BY DEF Operator, Take, Apply, EnsureNamespace, EnsureRBAC, EnsureServices, EnsureStatefulSet,
         EnsureIngress, EnsureVNodeDeployment, CheckReadiness, FailEnsure, Release, ReleaseRBAC,
         ReleaseNamespace, RemoveFinalizer, LoseWork, CatchUp, OperatorStep
<1>2. lapses \subseteq lapses'
  <2>1. CASE Apply
    BY <2>1 DEF Apply, EnsureNamespace, EnsureRBAC, EnsureServices, EnsureStatefulSet,
                EnsureIngress, EnsureVNodeDeployment, CheckReadiness, Lapse
  <2>2. CASE Release
    BY <2>2 DEF Release, ReleaseRBAC, ReleaseNamespace, RemoveFinalizer, Lapse
  <2>3. CASE ~Apply /\ ~Release
    BY <2>3 DEF Operator, Take, FailEnsure, LoseWork, CatchUp
  <2> QED  BY <2>1, <2>2, <2>3
<1> QED  BY <1>1, <1>2 DEF Outside

LEMMA HostOutside ==
  ASSUME EmptyNamespace \/ OperatorProcess \/ HostStep
  PROVE  Outside
<1>1. UNCHANGED <<pc, fileVars, lapses>>
  BY DEF EmptyNamespace, OperatorProcess, OperatorStarts, OperatorStops, OperatorCrashes,
         HostStep, CrdRemoved, OperatorNamespaceRemoved, lifeVars, historyVars
<1> QED  BY <1>1 DEF Outside

-----------------------------------------------------------------------------
(* The invariant.                                                          *)

LEMMA OutsideFileInv ==
  ASSUME FileInv, Outside
  PROVE  FileInv'
<1>1. Commands' = Commands
  BY DEF Outside, GoTo, Commands
<1>2. \A c \in Commands : InFile(c)' <=> InFile(c)
  BY DEF Outside, GoTo, Commands, InFile
<1>3. \A c \in Commands : pc[c] = "write" => pc'[c] = "write"
  BY DEF Outside, GoTo, Commands, InFile
<1>4. copy' = copy /\ file' = file /\ lapses \subseteq lapses'
  BY DEF Outside, fileVars
<1>5. CASE "file" \in lapses
  BY <1>1, <1>4, <1>5 DEF FileInv
<1>6. CASE Alone /\ CopiesWhole /\ FileWhole
  <2>1. Alone'
    BY <1>1, <1>2, <1>6 DEF Alone
  <2>2. CopiesWhole'
    BY <1>1, <1>2, <1>4, <1>6 DEF CopiesWhole
  <2>3. FileWhole'
    BY <1>1, <1>3, <1>4, <1>6 DEF FileWhole
  <2> QED  BY <1>1, <1>4, <2>1, <2>2, <2>3 DEF FileInv
<1> QED  BY <1>5, <1>6 DEF FileInv

\* What holds of the file after a step, from what the step does to it.
LEMMA LoadFileInv ==
  ASSUME FileInv, NEW c \in Commands, Load(c)
  PROVE  FileInv'
<1>1. Commands' = Commands /\ lapses \subseteq lapses' /\ file' = file /\ DOMAIN copy' = Commands
  BY DEF Load, OnFile, GoTo, Commands, LoadAndMerge, LoadAndRemove, NothingToRemove, fileVars,
         Lapse, FileInv
<1>2. CASE "file" \in lapses'
  BY <1>1, <1>2 DEF FileInv
<1>3. CASE "file" \notin lapses'
  <2>1. Alone /\ CopiesWhole /\ FileWhole
    BY <1>1, <1>3 DEF FileInv
  <2>2. ~InFile(c)
    BY DEF Load, InFile
  <2>3. \A d \in Commands \ {c} : pc'[d] = pc[d] /\ copy'[d] = copy[d]
    BY DEF Load, OnFile, GoTo, Commands, LoadAndMerge, LoadAndRemove, NothingToRemove, fileVars,
           FileInv
  <2>4. CASE pc'[c] = "truncate"
    <3>1. \A d \in Commands : ~InFile(d)
      BY <1>3, <2>4 DEF Load, Lapse
    <3>2. "other" \in file.contexts /\ file.partial = FALSE
      BY <2>1, <3>1 DEF FileWhole, InFile
    <3>3. "other" \in copy'[c]
      BY <2>4, <3>2 DEF Load, OnFile, GoTo, Commands, LoadAndMerge, LoadAndRemove, Loaded, FileInv
    <3>4. Alone'
      BY <1>1, <2>3, <3>1 DEF Alone, InFile
    <3>5. CopiesWhole'
      BY <1>1, <2>3, <3>1, <3>3 DEF CopiesWhole, InFile
    <3>6. FileWhole'
      BY <1>1, <3>2 DEF FileWhole
    <3> QED  BY <1>1, <3>4, <3>5, <3>6 DEF FileInv
  <2>5. CASE pc'[c] # "truncate"
    <3>1. pc'[c] \in {"failed", "done"}
      BY <2>5 DEF Load, OnFile, GoTo, Commands
    <3>2. \A d \in Commands : (InFile(d)' <=> InFile(d)) /\ (pc[d] = "write" => pc'[d] = "write")
      BY <2>2, <2>3, <3>1 DEF InFile
    <3>3. Alone'
      BY <1>1, <2>1, <3>2 DEF Alone
    <3>4. CopiesWhole'
      BY <1>1, <2>1, <2>2, <2>3, <3>2 DEF CopiesWhole
    <3>5. FileWhole'
      BY <1>1, <2>1, <3>2 DEF FileWhole
    <3> QED  BY <1>1, <3>3, <3>4, <3>5 DEF FileInv
  <2> QED  BY <2>4, <2>5
<1> QED  BY <1>2, <1>3

LEMMA WriteFileInv ==
  ASSUME FileInv, NEW c \in Commands, Write(c)
  PROVE  FileInv'
<1>1. Commands' = Commands /\ lapses' = lapses /\ DOMAIN copy' = Commands
  BY DEF Write, OnFile, GoTo, Commands, Truncate, WriteContexts, FileInv
<1>2. CASE "file" \in lapses
  BY <1>1, <1>2 DEF FileInv
<1>3. CASE Alone /\ CopiesWhole /\ FileWhole
  <2>1. InFile(c) /\ \A d \in Commands \ {c} : ~InFile(d) /\ pc'[d] = pc[d] /\ copy'[d] = copy[d]
    BY <1>3 DEF Write, InFile, Alone, OnFile, GoTo, Commands, Truncate, WriteContexts, FileInv
  <2>2. "other" \in copy[c]
    BY <1>3, <2>1 DEF CopiesWhole
  <2>3. Alone'
    BY <1>1, <2>1 DEF Alone, InFile
  <2>4. CASE pc[c] = "truncate"
    <3>1. pc'[c] = "write" /\ copy' = copy
      BY <2>4 DEF Write, OnFile, GoTo, Commands, Truncate
    <3>2. CopiesWhole'
      BY <1>1, <2>1, <2>2, <3>1 DEF CopiesWhole, InFile
    <3>3. FileWhole'
      BY <1>1, <3>1 DEF FileWhole
    <3> QED  BY <1>1, <2>3, <3>2, <3>3 DEF FileInv
  <2>5. CASE pc[c] = "write"
    <3>1. pc'[c] = "done" /\ file' = [contexts |-> copy[c], partial |-> FALSE]
      BY <2>5 DEF Write, OnFile, GoTo, Commands, WriteContexts
    <3>2. CopiesWhole'
      BY <1>1, <2>1, <3>1 DEF CopiesWhole, InFile
    <3>3. FileWhole'
      BY <2>2, <3>1 DEF FileWhole
    <3> QED  BY <1>1, <2>3, <3>2, <3>3 DEF FileInv
  <2> QED  BY <2>1, <2>4, <2>5 DEF InFile
<1> QED  BY <1>2, <1>3 DEF FileInv

\* A command that is killed has not touched the file yet, or cuts it off.
LEMMA FailFileInv ==
  ASSUME FileInv, NEW c \in Commands, FailCommand(c)
  PROVE  FileInv'
<1>1. /\ Commands' = Commands /\ lapses \subseteq lapses' /\ copy' = copy /\ file' = file
      /\ pc' = [pc EXCEPT ![c] = "failed"]
      /\ pc[c] = "write" => "file" \in lapses'
  BY DEF FailCommand, OnHost, GoTo, Commands, fileVars
<1>2. CASE "file" \in lapses'
  BY <1>1, <1>2 DEF FileInv
<1>3. CASE "file" \notin lapses'
  <2>1. Alone /\ CopiesWhole /\ FileWhole
    BY <1>1, <1>3 DEF FileInv
  <2>2. \A d \in Commands : InFile(d)' => InFile(d)
    BY <1>1 DEF InFile, Commands
  <2>3. \A d \in Commands : pc[d] = "write" => pc'[d] = "write"
    BY <1>1, <1>3 DEF Commands
  <2>4. Alone'
    BY <1>1, <2>1, <2>2 DEF Alone
  <2>5. CopiesWhole'
    BY <1>1, <2>1, <2>2 DEF CopiesWhole
  <2>6. FileWhole'
    BY <1>1, <2>1, <2>3 DEF FileWhole
  <2> QED  BY <1>1, <2>4, <2>5, <2>6 DEF FileInv
<1> QED  BY <1>2, <1>3

LEMMA NextFileInv == FileInv /\ [Step]_vars => FileInv'
<1> SUFFICES ASSUME FileInv, [Step]_vars PROVE FileInv'
  OBVIOUS
<1>1. ASSUME NEW c \in Commands, Command(c) PROVE FileInv'
  <2>1. CASE Load(c)
    BY <2>1, LoadFileInv
  <2>2. CASE Write(c)
    BY <2>2, WriteFileInv
  <2>3. CASE FailCommand(c)
    BY <2>3, FailFileInv
  <2>4. CASE ~Load(c) /\ ~Write(c) /\ ~FailCommand(c)
    <3>1. Outside
      BY <1>1, <2>4, InstallingOutside, CreateOutside, DeleteOutside, ExposeOutside,
         WaitingOutside DEF Command
    <3> QED  BY <3>1, OutsideFileInv
  <2> QED  BY <2>1, <2>2, <2>3, <2>4
<1>2. CASE Operator
  BY <1>2, OperatorOutside, OutsideFileInv
<1>3. CASE EmptyNamespace \/ OperatorProcess \/ HostStep
  BY <1>3, HostOutside, OutsideFileInv
<1>4. CASE UNCHANGED vars
  <2>1. Outside
    BY <1>4 DEF vars, lifeVars, historyVars, fileVars, Outside
  <2> QED  BY <2>1, OutsideFileInv
<1> QED  BY <1>1, <1>2, <1>3, <1>4 DEF Step

LEMMA InitFileInv == Init => FileInv
<1> SUFFICES ASSUME Init PROVE FileInv
  OBVIOUS
<1>1. \A c \in Commands : pc[c] = "planned"
  BY DEF Init, Commands
<1>2. DOMAIN copy = Commands /\ file.partial = FALSE /\ "other" \in file.contexts
  BY DEF Init, FileInit
<1> QED  BY <1>1, <1>2 DEF FileInv, Alone, CopiesWhole, FileWhole, InFile

LEMMA FileInvKeepsContexts == FileInv => ContextsKept
BY DEF FileInv, FileWhole, ContextsKept

\* The user's other contexts are in the kubeconfig however many commands run side by side, fail
\* or are killed, unless one loads while another is about to write or is killed in the write
\* (WriteToFile and RemoveFromFile, kubeconfig.go:103 and 147).
THEOREM OtherContextsKept == Spec => []ContextsKept
<1>1. Init => FileInv
  BY InitFileInv
<1>2. FileInv /\ [Step]_vars => FileInv'
  BY NextFileInv
<1>3. FileInv => ContextsKept
  BY FileInvKeepsContexts
<1> QED  BY <1>1, <1>2, <1>3, PTL DEF Spec

-----------------------------------------------------------------------------
(* Installing.                                                             *)

\* Nobody installs the operator twice in one plan.
OneInstall == \A plan \in Plans : \A c, d \in plan : c.op = "install" /\ d.op = "install" => c = d

Begun == \E c \in Commands : c.op = "install" /\ pc[c] # "planned"

\* Where the two commands can be, and the types of what they change.
StepsInv ==
  /\ Commands \in Plans
  /\ crd \in ObjectStates /\ opNs \in ObjectStates /\ parts \subseteq Parts
  /\ \A c \in Commands :
       /\ c.op = "install" => pc[c] \in Resting \cup {"namespace", "account", "rbac", "deployment"}
       /\ c.op = "uninstall" => pc[c] \in Resting \cup {"rights", "namespace", "crd"}

\* What a namespace has is gone with it.
GoneInv == opNs = "absent" => parts \subseteq {"rbac"}

\* An install that met nobody finds no Deployment in a namespace that is going away: only an
\* install makes one, and an uninstall deletes it first.
DeploymentInv ==
  /\ \A c \in Commands : c.op = "uninstall" /\ pc[c] \notin Resting /\ ~Begun
                          => "deployment" \notin parts
  /\ opNs = "terminating" /\ (alone \/ ~Begun) => "deployment" \notin parts

\* While it meets nobody the CRD stays.
AloneInv ==
  alone => /\ crd = "present"
           /\ \A c \in Commands : c.op = "uninstall" => pc[c] \in Resting

\* What it has ensured is there, if the namespace is the one it made or found to stay.
EnsuredInv ==
  alone => \A c \in Commands : c.op = "install" =>
    /\ pc[c] \in {"rbac", "deployment"} /\ opNs = "present" => "account" \in parts
    /\ pc[c] = "deployment" => "rbac" \in parts
    /\ pc[c] = "done" => opNs = "present" /\ parts = Parts

InstallInv == StepsInv /\ GoneInv /\ DeploymentInv /\ AloneInv /\ EnsuredInv

\* A step that has nothing to do with installing: another command's, or one that fails.
Elsewhere ==
  /\ UNCHANGED <<crd, opNs, parts, alone>>
  /\ \/ UNCHANGED pc
     \/ \E c \in Commands : \E step :
          /\ c.op \notin {"install", "uninstall"} \/ (step = "failed" /\ pc[c] \notin Resting)
          /\ GoTo(c, step)

LEMMA CommandElsewhere ==
  ASSUME StepsInv, NEW c \in Commands, Command(c), ~Installing(c)
  PROVE  Elsewhere
<1>1. UNCHANGED <<crd, opNs, parts, alone>>
  <2>1. CASE Create(c)
    BY <2>1 DEF Create, ResolveCreateMode, CreateVirtualClusterCR, CreateNamespace,
                CreateServiceAccount, CreateRBAC, CreateServices, CreateStatefulSet,
                CreateVNodeStatefulSet, OnHost, installVars
  <2>2. CASE Delete(c) \/ Expose(c)
    BY <2>2 DEF Delete, CheckOperator, FindVirtualClusterCR, DeleteVirtualClusterCR,
                DeleteClusterRBAC, DeleteNamespace, Expose, ExposeService, ExposeIngress,
                ExposeTlsSan, OnHost, installVars
  <2>3. CASE ~Create(c) /\ ~Delete(c) /\ ~Expose(c)
    BY <2>3 DEF Command, ConnectStarts, AwaitReady, AwaitAddress, GiveUp, Load, Write, EditSpec,
                FailCommand, OnHost, OnFile, installVars
  <2> QED  BY <2>1, <2>2, <2>3
<1>2. CASE Create(c)
  <2>1. c.op = "create" /\ \E step : GoTo(c, step)
    BY <1>2 DEF Create, ResolveCreateMode, CreateVirtualClusterCR, CreateNamespace,
                CreateServiceAccount, CreateRBAC, CreateServices, CreateStatefulSet,
                CreateVNodeStatefulSet, OnHost, At
  <2> QED  BY <1>1, <2>1 DEF Elsewhere
<1>3. CASE Delete(c) \/ Expose(c)
  <2>1. c.op \in {"delete", "expose"} /\ \E step : GoTo(c, step)
    BY <1>3 DEF Delete, CheckOperator, FindVirtualClusterCR, DeleteVirtualClusterCR,
                DeleteClusterRBAC, DeleteNamespace, Expose, ExposeService, ExposeIngress,
                ExposeTlsSan, OnHost, At
  <2> QED  BY <1>1, <2>1 DEF Elsewhere
<1>4. CASE ConnectStarts(c) \/ EditSpec(c)
  <2>1. c.op \in {"connect", "edit"} /\ \E step : GoTo(c, step)
    BY <1>4 DEF ConnectStarts, EditSpec, OnHost, At
  <2> QED  BY <1>1, <2>1 DEF Elsewhere
<1>5. CASE AwaitReady(c) \/ AwaitAddress(c) \/ GiveUp(c) \/ Load(c) \/ Write(c)
  <2>1. pc[c] \in {"await", "address", "merge", "remove", "truncate", "write"}
    BY <1>5 DEF AwaitReady, AwaitAddress, GiveUp, Load, Write
  <2>2. c.op \notin {"install", "uninstall"}
    BY <2>1 DEF StepsInv, Resting
  <2>3. \E step : GoTo(c, step)
    BY <1>5 DEF AwaitReady, AwaitAddress, GiveUp, Load, Write, OnHost, OnFile
  <2> QED  BY <1>1, <2>2, <2>3 DEF Elsewhere
<1>6. CASE FailCommand(c)
  <2>1. pc[c] \notin Resting /\ GoTo(c, "failed")
    BY <1>6 DEF FailCommand, OnHost
  <2> QED  BY <1>1, <2>1 DEF Elsewhere
<1> QED  BY <1>2, <1>3, <1>4, <1>5, <1>6 DEF Command

LEMMA OtherElsewhere ==
  ASSUME Operator \/ EmptyNamespace \/ OperatorProcess \/ UNCHANGED vars
  PROVE  Elsewhere
<1>1. CASE Operator
  <2>1. UNCHANGED <<pc, installVars>>
    BY <1>1 DEF Operator, Take, Apply, EnsureNamespace, EnsureRBAC, EnsureServices,
                EnsureStatefulSet, EnsureIngress, EnsureVNodeDeployment, CheckReadiness,
                FailEnsure, Release, ReleaseRBAC, ReleaseNamespace, RemoveFinalizer, LoseWork,
                CatchUp, OperatorStep
  <2> QED  BY <2>1 DEF installVars, Elsewhere
<1>2. CASE EmptyNamespace \/ OperatorProcess \/ UNCHANGED vars
  BY <1>2 DEF EmptyNamespace, OperatorProcess, OperatorStarts, OperatorStops, OperatorCrashes,
              vars, installVars, Elsewhere
<1> QED  BY <1>1, <1>2

LEMMA ElsewhereInstallInv ==
  ASSUME InstallInv, Elsewhere
  PROVE  InstallInv'
<1>1. Commands' = Commands /\ UNCHANGED <<crd, opNs, parts, alone>>
  BY DEF Elsewhere, GoTo, Commands
<1>2. \A c \in Commands : c.op \in {"install", "uninstall"} =>
        pc'[c] = pc[c] \/ (pc'[c] = "failed" /\ pc[c] \notin Resting)
  BY DEF Elsewhere, GoTo, Commands
<1>3. Begun' <=> Begun
  BY <1>1, <1>2 DEF Begun, Resting
<1>4. StepsInv'
  BY <1>1, <1>2 DEF InstallInv, StepsInv, Resting
<1>5. GoneInv'
  BY <1>1 DEF InstallInv, GoneInv
<1>6. DeploymentInv'
  BY <1>1, <1>2, <1>3 DEF InstallInv, DeploymentInv, Resting
<1>7. AloneInv'
  BY <1>1, <1>2 DEF InstallInv, AloneInv, Resting
<1>8. EnsuredInv'
  BY <1>1, <1>2 DEF InstallInv, EnsuredInv
<1> QED  BY <1>4, <1>5, <1>6, <1>7, <1>8 DEF InstallInv

\* No other install is there, so the one that takes its first step has not begun before.
LEMMA InstallCRDInv ==
  ASSUME OneInstall, InstallInv, NEW c \in Commands, InstallCRD(c)
  PROVE  InstallInv'
<1>1. /\ c.op = "install" /\ pc[c] = "planned" /\ pc' = [pc EXCEPT ![c] = "namespace"]
      /\ Commands' = Commands /\ UNCHANGED <<opNs, parts>>
  BY DEF InstallCRD, At, GoTo, Commands
<1>2. \A d \in Commands : d.op = "install" => d = c
  BY <1>1 DEF OneInstall, InstallInv, StepsInv
<1>3. ~Begun
  BY <1>1, <1>2 DEF Begun
<1>4. Begun'
  BY <1>1 DEF Begun, Commands
<1>5. \A d \in Commands : d.op = "uninstall" => pc'[d] = pc[d]
  BY <1>1 DEF Commands
<1>6. pc'[c] = "namespace"
  BY <1>1 DEF Commands
<1>7. StepsInv'
  <2>1. crd' \in ObjectStates
    BY DEF InstallCRD, InstallInv, StepsInv, ObjectStates
  <2> QED  BY <1>1, <1>2, <1>5, <1>6, <2>1 DEF InstallInv, StepsInv
<1>8. GoneInv'
  BY <1>1 DEF InstallInv, GoneInv
<1>9. DeploymentInv'
  BY <1>1, <1>3, <1>4 DEF InstallInv, DeploymentInv
<1>10. AloneInv'
  <2> SUFFICES ASSUME alone' PROVE crd' = "present" /\ \A d \in Commands : d.op = "uninstall" => pc'[d] \in Resting
    BY <1>1 DEF AloneInv
  <2>1. crd # "terminating" /\ ~Running("uninstall")
    BY DEF InstallCRD
  <2>2. crd' = "present"
    BY <2>1 DEF InstallCRD, InstallInv, StepsInv, ObjectStates
  <2>3. \A d \in Commands : d.op = "uninstall" => pc[d] \in Resting
    BY <2>1 DEF Running
  <2> QED  BY <1>5, <2>2, <2>3
<1>11. EnsuredInv'
  BY <1>1, <1>2, <1>6 DEF EnsuredInv
<1> QED  BY <1>7, <1>8, <1>9, <1>10, <1>11 DEF InstallInv

\* The other steps of an install, by what they do to the namespace and the parts.
LEMMA EnsureInv ==
  ASSUME OneInstall, InstallInv, NEW c \in Commands,
         \/ EnsureNamespaceExists(c) \/ EnsureOperatorServiceAccount(c)
         \/ EnsureOperatorRBAC(c) \/ EnsureOperatorDeployment(c)
  PROVE  InstallInv'
<1> DEFINE step == pc'[c]
<1>1. /\ c.op = "install" /\ pc[c] \in {"namespace", "account", "rbac", "deployment"}
      /\ pc' = [pc EXCEPT ![c] = step] /\ Commands' = Commands
      /\ UNCHANGED <<crd, alone>>
  BY DEF EnsureNamespaceExists, EnsureOperatorServiceAccount, EnsureOperatorRBAC,
         EnsureOperatorDeployment, EnsurePart, At, GoTo, Commands
<1>2. \A d \in Commands : d.op = "install" => d = c
  BY <1>1 DEF OneInstall, InstallInv, StepsInv
<1>3. step \in {"account", "rbac", "deployment", "done", "failed"}
  BY <1>1 DEF EnsureNamespaceExists, EnsureOperatorServiceAccount, EnsureOperatorRBAC,
              EnsureOperatorDeployment, EnsurePart, GoTo, Commands
<1>4. Begun /\ Begun'
  BY <1>1, <1>3 DEF Begun
<1>5. \A d \in Commands : d.op = "uninstall" => pc'[d] = pc[d]
  BY <1>1 DEF Commands
<1>6. /\ opNs' \in ObjectStates /\ parts' \subseteq Parts
      /\ opNs = "absent" \/ opNs' = opNs
      /\ opNs' = "absent" => opNs = "absent"
      /\ opNs = "absent" /\ opNs' = "present" => parts' = parts
      /\ opNs' # "terminating" \/ opNs = "terminating"
  BY DEF EnsureNamespaceExists, EnsureOperatorServiceAccount, EnsureOperatorRBAC,
         EnsureOperatorDeployment, EnsurePart, InstallInv, StepsInv, ObjectStates, Parts
<1>7. parts' \subseteq parts \cup {"rbac"} \/ opNs = "present"
  BY DEF EnsureNamespaceExists, EnsureOperatorServiceAccount, EnsureOperatorRBAC,
         EnsureOperatorDeployment, EnsurePart
<1>8. StepsInv'
  BY <1>1, <1>2, <1>3, <1>5, <1>6 DEF InstallInv, StepsInv, Resting
<1>9. GoneInv'
  BY <1>6, <1>7 DEF InstallInv, GoneInv
<1>10. DeploymentInv'
  <2>1. alone /\ opNs = "terminating" => "deployment" \notin parts'
    BY <1>7 DEF InstallInv, DeploymentInv
  <2> QED  BY <1>1, <1>4, <1>6, <2>1 DEF DeploymentInv
<1>11. AloneInv'
  BY <1>1, <1>5 DEF InstallInv, AloneInv
<1>12. EnsuredInv'
  <2> SUFFICES ASSUME alone
               PROVE  /\ step \in {"rbac", "deployment"} /\ opNs' = "present" => "account" \in parts'
                      /\ step = "deployment" => "rbac" \in parts'
                      /\ step = "done" => opNs' = "present" /\ parts' = Parts
    BY <1>1, <1>2 DEF EnsuredInv
  <2>1. CASE EnsureNamespaceExists(c)
    BY <1>1, <2>1 DEF EnsureNamespaceExists, GoTo, Commands
  <2>2. CASE EnsureOperatorServiceAccount(c)
    BY <1>1, <2>2 DEF EnsureOperatorServiceAccount, EnsurePart, GoTo, Commands
  <2>3. CASE EnsureOperatorRBAC(c)
    BY <1>1, <2>3 DEF EnsureOperatorRBAC, At, GoTo, Commands, InstallInv, EnsuredInv
  <2>4. CASE EnsureOperatorDeployment(c)
    <3>1. pc[c] = "deployment" /\ opNs' = opNs /\ step \in {"done", "failed"}
      BY <1>1, <2>4 DEF EnsureOperatorDeployment, EnsurePart, At, GoTo, Commands
    <3>2. CASE step = "done"
      <4>1. parts' = parts \cup {"deployment"} /\ ("deployment" \in parts \/ opNs = "present")
        BY <1>1, <2>4, <3>2 DEF EnsureOperatorDeployment, EnsurePart, GoTo, Commands
      <4>2. opNs = "present"
        BY <4>1 DEF InstallInv, StepsInv, GoneInv, DeploymentInv, ObjectStates
      <4>3. {"account", "rbac"} \subseteq parts
        BY <1>1, <3>1, <4>2 DEF InstallInv, EnsuredInv
      <4>4. parts' = Parts
        BY <1>6, <4>1, <4>3 DEF Parts
      <4> QED  BY <3>1, <3>2, <4>2, <4>4
    <3> QED  BY <3>1, <3>2
  <2> QED  BY <2>1, <2>2, <2>3, <2>4
<1> QED  BY <1>8, <1>9, <1>10, <1>11, <1>12 DEF InstallInv

LEMMA UninstallInv ==
  ASSUME InstallInv, NEW c \in Commands, Uninstall(c)
  PROVE  InstallInv'
<1> DEFINE step == pc'[c]
<1>1. /\ c.op = "uninstall" /\ pc' = [pc EXCEPT ![c] = step] /\ Commands' = Commands
      /\ pc[c] \in {"planned", "rights", "namespace", "crd"}
      /\ step \in {"rights", "namespace", "crd", "done"}
  BY DEF Uninstall, DeleteDeployment, DeleteRights, DeleteOperatorNamespace, UninstallCRD,
         At, GoTo, Commands
<1>2. \A d \in Commands \ {c} : pc'[d] = pc[d]
  BY <1>1 DEF Commands
<1>3. Begun' <=> Begun
  BY <1>1, <1>2 DEF Begun
<1>4. parts' \subseteq parts /\ crd' \in ObjectStates /\ opNs' \in ObjectStates
  BY DEF Uninstall, DeleteDeployment, DeleteRights, DeleteOperatorNamespace, UninstallCRD,
         InstallInv, StepsInv, ObjectStates
<1>5. alone' = FALSE
  <2>1. CASE DeleteDeployment(c)
    BY <2>1 DEF DeleteDeployment
  <2>2. CASE ~DeleteDeployment(c)
    <3>1. pc[c] \notin Resting /\ alone' = alone
      BY <2>2 DEF Uninstall, DeleteRights, DeleteOperatorNamespace, UninstallCRD, At, Resting
    <3> QED  BY <1>1, <3>1 DEF InstallInv, AloneInv, Resting
  <2> QED  BY <2>1, <2>2
<1>6. StepsInv'
  BY <1>1, <1>2, <1>4 DEF InstallInv, StepsInv, Resting
<1>7. GoneInv'
  <2>1. opNs' = "absent" => opNs = "absent"
    BY DEF Uninstall, DeleteDeployment, DeleteRights, DeleteOperatorNamespace, UninstallCRD
  <2> QED  BY <1>4, <2>1 DEF InstallInv, GoneInv
<1>8. ~Begun => "deployment" \notin parts'
  <2>1. CASE DeleteDeployment(c)
    BY <2>1 DEF DeleteDeployment
  <2>2. CASE ~DeleteDeployment(c)
    <3>1. pc[c] \notin Resting
      BY <2>2 DEF Uninstall, DeleteRights, DeleteOperatorNamespace, UninstallCRD, At, Resting
    <3> QED  BY <1>1, <1>4, <3>1 DEF InstallInv, DeploymentInv
  <2> QED  BY <2>1, <2>2
<1>9. DeploymentInv'
  BY <1>1, <1>3, <1>5, <1>8 DEF DeploymentInv
<1>10. AloneInv' /\ EnsuredInv'
  BY <1>5 DEF AloneInv, EnsuredInv
<1> QED  BY <1>6, <1>7, <1>9, <1>10 DEF InstallInv

LEMMA HostInstallInv ==
  ASSUME InstallInv, HostStep
  PROVE  InstallInv'
<1>1. pc' = pc /\ Commands' = Commands /\ alone' = alone /\ (Begun' <=> Begun)
  BY DEF HostStep, CrdRemoved, OperatorNamespaceRemoved, Commands, Begun
<1>2. CASE CrdRemoved
  <2>1. crd = "terminating" /\ crd' = "absent" /\ UNCHANGED <<opNs, parts>>
    BY <1>2 DEF CrdRemoved
  <2>2. ~alone
    BY <2>1 DEF InstallInv, AloneInv
  <2> QED  BY <1>1, <2>1, <2>2 DEF InstallInv, StepsInv, GoneInv, DeploymentInv, AloneInv,
                                   EnsuredInv, ObjectStates
<1>3. CASE OperatorNamespaceRemoved
  <2>1. /\ opNs = "terminating" /\ opNs' = "absent" /\ crd' = crd
        /\ parts' = parts \ {"account", "deployment"}
    BY <1>3 DEF OperatorNamespaceRemoved
  <2>2. StepsInv' /\ GoneInv' /\ AloneInv'
    BY <1>1, <2>1 DEF InstallInv, StepsInv, GoneInv, AloneInv, ObjectStates, Parts
  <2>3. DeploymentInv'
    BY <1>1, <2>1 DEF InstallInv, DeploymentInv
  <2>4. EnsuredInv'
    BY <1>1, <2>1 DEF InstallInv, EnsuredInv
  <2> QED  BY <2>2, <2>3, <2>4 DEF InstallInv
<1> QED  BY <1>2, <1>3 DEF HostStep

LEMMA InitInstallInv == Init => InstallInv
<1> SUFFICES ASSUME Init PROVE InstallInv
  OBVIOUS
<1>1. Commands \in Plans /\ \A c \in Commands : pc[c] = "planned"
  BY DEF Init, Commands
<1>2. StepsInv
  BY <1>1 DEF Init, StepsInv, ObjectStates, Parts, Resting
<1>3. GoneInv /\ AloneInv /\ EnsuredInv
  BY DEF Init, GoneInv, AloneInv, EnsuredInv
<1>4. DeploymentInv
  BY <1>1 DEF Init, DeploymentInv, Resting
<1> QED  BY <1>2, <1>3, <1>4 DEF InstallInv

LEMMA NextInstallInv ==
  ASSUME OneInstall, InstallInv, [Step]_vars
  PROVE  InstallInv'
<1>1. ASSUME NEW c \in Commands, Command(c) PROVE InstallInv'
  <2>1. CASE Installing(c)
    <3>1. CASE Install(c)
      BY <3>1, InstallCRDInv, EnsureInv DEF Install
    <3>2. CASE Uninstall(c)
      BY <3>2, UninstallInv
    <3> QED  BY <2>1, <3>1, <3>2 DEF Installing
  <2>2. CASE ~Installing(c)
    BY <1>1, <2>2, CommandElsewhere, ElsewhereInstallInv DEF InstallInv
  <2> QED  BY <2>1, <2>2
<1>2. CASE Operator \/ EmptyNamespace \/ OperatorProcess \/ UNCHANGED vars
  BY <1>2, OtherElsewhere, ElsewhereInstallInv
<1>3. CASE HostStep
  BY <1>3, HostInstallInv
<1> QED  BY <1>1, <1>2, <1>3 DEF Step

LEMMA InstallInvLasts == InstallInv => InstallLasts
BY DEF InstallInv, AloneInv, EnsuredInv, InstallLasts

\* An install that reports success, that no uninstall overlapped and that found no CRD going away,
\* leaves the CRD, the namespace and all parts in place, whatever an earlier uninstall left to be
\* finished (InstallOperator, operator_deploy.go:39).
THEOREM InstallStays ==
  ASSUME OneInstall
  PROVE  Spec => []InstallLasts
<1>1. Init => InstallInv
  BY InitInstallInv
<1>2. InstallInv /\ [Step]_vars => InstallInv'
  BY NextInstallInv
<1>3. InstallInv => InstallLasts
  BY InstallInvLasts
<1> QED  BY <1>1, <1>2, <1>3, PTL DEF Spec
=============================================================================
