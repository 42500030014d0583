-------------------------- MODULE SnapshotRegister --------------------------
(***************************************************************************)
(* What save_metadata and load_metadata (full_aur/metadata.py) promise     *)
(* together: the snapshot is a register.  A reader is given the dump of    *)
(* the last save that was completed, whole; a save is completed in one     *)
(* step or leaves no trace.                                                *)
(***************************************************************************)
CONSTANTS Processes, Versions, NoVersion

VARIABLES
  held,    \* the dump a reader is given, or NoVersion
  begun    \* begun[p]: the dump p is saving, or NoVersion

Init ==
  /\ held = NoVersion
  /\ begun = [p \in Processes |-> NoVersion]

Begin(p) ==
  /\ begun[p] = NoVersion
  /\ \E v \in Versions : begun' = [begun EXCEPT ![p] = v]
  /\ UNCHANGED held

Commit(p) ==
  /\ begun[p] # NoVersion
  /\ held' = begun[p]
  /\ begun' = [begun EXCEPT ![p] = NoVersion]

Abandon(p) ==
  /\ begun[p] # NoVersion
  /\ begun' = [begun EXCEPT ![p] = NoVersion]
  /\ UNCHANGED held

Next == \E p \in Processes : Begin(p) \/ Commit(p) \/ Abandon(p)

Spec == Init /\ [][Next]_<<held, begun>>
=============================================================================
