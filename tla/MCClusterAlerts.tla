-------------------------- MODULE MCClusterAlerts --------------------------
(***************************************************************************)
(* ClusterAlerts for TLC: neither campaigns nor packages are told apart by *)
(* anything but what happens to them, so their permutations are symmetries *)
(* of every property checked.                                              *)
(***************************************************************************)
EXTENDS ClusterAlerts, TLC

Symmetry == Permutations(Campaigns) \cup Permutations(Packages)
=============================================================================
