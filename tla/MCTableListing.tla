--------------------------- MODULE MCTableListing ---------------------------
(***************************************************************************)
(* Instances of TableListing for TLC.                                      *)
(***************************************************************************)
EXTENDS TableListing

MCNames == 1..4
=============================================================================
