---------------------------- MODULE CliCommands ----------------------------
(***************************************************************************)
(* What users run: every command of pkg/cli is a process with a step it is *)
(* at, and any call it makes may fail.                                     *)
(***************************************************************************)
EXTENDS Naturals

CONSTANTS
  Plans,     \* the sets of commands that run side by side; records, with the name as op
  MaxFaults  \* bound: calls that fail, commands killed, operator crashes

VARIABLES
  pc,     \* command -> its next step
  faults  \* faults so far

Ops == {"create", "delete", "expose", "connect", "install", "uninstall", "edit"}

ASSUME OpsAssumption == \A c \in UNION Plans : c.op \in Ops
ASSUME FaultsAssumption == MaxFaults \in Nat

\* Each runs once, at any time, or never.
Commands == DOMAIN pc
Resting == {"planned", "done", "failed"}
Running(op) == \E c \in Commands : c.op = op /\ pc[c] \notin Resting

At(c, op, step) == c.op = op /\ pc[c] = step
GoTo(c, step) == pc' = [pc EXCEPT ![c] = step]
Fault == faults < MaxFaults /\ faults' = faults + 1
=============================================================================
