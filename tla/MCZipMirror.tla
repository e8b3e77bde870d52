----------------------------- MODULE MCZipMirror -----------------------------
(***************************************************************************)
(* Instances of ZipMirror for TLC.                                         *)
(***************************************************************************)
EXTENDS ZipMirror, TLC
=============================================================================
