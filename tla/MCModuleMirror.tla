---------------------------- MODULE MCModuleMirror ----------------------------
(***************************************************************************)
(* Instances of ModuleMirror for TLC.                                      *)
(***************************************************************************)
EXTENDS ModuleMirror, TLC
=============================================================================
