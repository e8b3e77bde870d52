--------------------------- MODULE MCArchivesIndex ---------------------------
(***************************************************************************)
(* Instances of ArchivesIndex for TLC.                                     *)
(***************************************************************************)
EXTENDS ArchivesIndex, TLC
=============================================================================
