------------------------------- MODULE Mirror -------------------------------
(***************************************************************************)
(* What a one-way synchroniser promises: for every object of the source    *)
(* the replica holds a state that object really had, and it moves only     *)
(* forward through the object's history.  It may skip states, and nothing  *)
(* here says that it ever catches up.                                      *)
(*                                                                         *)
(* "history" is the sequence of changes the source's API server committed; *)
(* a revision is an index into it.  ObjectSync implements this module.     *)
(***************************************************************************)
EXTENDS Naturals, Sequences

CONSTANTS
  Keys,     \* the objects of the source
  Mirrored  \* those of them the replica is to hold

VARIABLES
  history,   \* the changes committed to the source, oldest first
  position,  \* key -> the revision of the last change carried over (0: none)
  replica    \* key -> the revision the replica's copy holds, 0 if it has none

vars == <<history, position, replica>>

Change == [key : Keys, op : {"put", "delete"}]

\* Changes, positions and revisions are what they are called.
TypeOK ==
  /\ history \in Seq(Change)
  /\ position \in [Mirrored -> Nat]
  /\ replica \in [Mirrored -> Nat]

Init ==
  /\ history = << >>
  /\ position = [k \in Mirrored |-> 0]
  /\ replica = [k \in Mirrored |-> 0]

\* The copy a replica holds once the change of revision r has reached it.
CopyAt(r) == IF history[r].op = "put" THEN r ELSE 0

Commit(k, op) ==
  /\ history' = Append(history, [key |-> k, op |-> op])
  /\ UNCHANGED <<position, replica>>

Advance(k, r) ==
  /\ history[r].key = k
  /\ r >= position[k]
  /\ position' = [position EXCEPT ![k] = r]
  /\ replica' = [replica EXCEPT ![k] = CopyAt(r)]
  /\ UNCHANGED history

Next ==
  \/ \E k \in Keys, op \in {"put", "delete"} : Commit(k, op)
  \/ \E k \in Mirrored, r \in DOMAIN history : Advance(k, r)

Spec == Init /\ [][Next]_vars
=============================================================================
