---------------------------- MODULE MCCloneCache ----------------------------
(***************************************************************************)
(* CloneCache for TLC: of the three revisions the first is dated when it   *)
(* was pushed, the second ahead of its push and the third before it.       *)
(***************************************************************************)
EXTENDS CloneCache

MCCommitTime == <<1, 3, 2>>

\* Every commit is dated when it is pushed.
MCHonestTime == [r \in Revs |-> r]
=============================================================================
