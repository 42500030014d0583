--------------------------- MODULE MCReviewBatch ---------------------------
(***************************************************************************)
(* ReviewBatch for TLC: with three packages, ceilings of one and one cut   *)
(* walks short, ceilings of two and two leave them whole.                  *)
(***************************************************************************)
EXTENDS ReviewBatch

MCCeilings == {<<1, 1>>, <<2, 2>>}
=============================================================================
