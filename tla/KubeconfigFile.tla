--------------------------- MODULE KubeconfigFile ---------------------------
(***************************************************************************)
(* The user's kubeconfig as WriteToFile and RemoveFromFile of              *)
(* pkg/kubeconfig change it: load, merge or remove, write.  Nothing locks  *)
(* the file, and it is written in place: a reader may find it empty, or    *)
(* cut off and so invalid, and so it stays if the writer is killed.        *)
(*                                                                         *)
(* The contexts are the virtual cluster's own and one of the user's that   *)
(* has nothing to do with it.                                              *)
(***************************************************************************)
EXTENDS CliCommands

VARIABLES
  file,  \* its contexts, and whether what is there is not all of it
  copy   \* command -> the contexts it loaded and is going to write

fileVars == <<file, copy>>

Contexts == {"own", "other"}

FileTypeOK ==
  /\ file \in [contexts : SUBSET Contexts, partial : BOOLEAN]
  /\ copy \in [Commands -> SUBSET Contexts]

FileInit ==
  /\ file = [contexts |-> {"other"}, partial |-> FALSE]
  /\ copy = [c \in Commands |-> {}]

\* What clientcmd.LoadFromFile returns when it returns no error.  A file that was just truncated is
\* an empty config.
Loaded == IF file.partial THEN {} ELSE file.contexts

\* Mutant: the config is written as it is, without the contexts that were there.
LoadNothing(c) ==
  /\ copy' = [copy EXCEPT ![c] = {"own"}]
  /\ UNCHANGED file

\* WriteToFile: a file that is invalid is taken for one that is not there.
LoadAndMerge(c) ==
  /\ copy' = [copy EXCEPT ![c] = Loaded \cup {"own"}]
  /\ UNCHANGED file

LoadAndRemove(c) ==
  /\ copy' = [copy EXCEPT ![c] = Loaded \ {"own"}]
  /\ UNCHANGED file

\* RemoveFromFile takes an invalid file for one with nothing to remove.
NothingToRemove == file.partial /\ UNCHANGED fileVars

\* os.WriteFile, in two steps.
Truncate ==
  /\ file' = [contexts |-> {}, partial |-> TRUE]
  /\ UNCHANGED copy

WriteContexts(c) ==
  /\ file' = [contexts |-> copy[c], partial |-> FALSE]
  /\ copy' = [copy EXCEPT ![c] = {}]
=============================================================================
