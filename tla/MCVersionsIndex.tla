--------------------------- MODULE MCVersionsIndex ---------------------------
(***************************************************************************)
(* Instances of VersionsIndex for TLC.                                     *)
(***************************************************************************)
EXTENDS VersionsIndex, TLC
=============================================================================
