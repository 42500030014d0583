--------------------------- MODULE MCChannelPull ---------------------------
(***************************************************************************)
(* ChannelPull for TLC.  Seeds and feeds carry the number of their release *)
(* for a version, and the other publisher's seed that of the second: the   *)
(* two were built on one day.  The first inventory has no version.         *)
(***************************************************************************)
EXTENDS ChannelPull

MCVersionOf ==
  [i \in Versioned |-> [r \in Releases |-> IF r \in Elsewhere THEN 2 ELSE r]]

MCInventory == [r \in Releases |-> r - 1]
=============================================================================
