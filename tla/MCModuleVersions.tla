--------------------------- MODULE MCModuleVersions ---------------------------
(***************************************************************************)
(* Instances of ModuleVersions for TLC.                                    *)
(***************************************************************************)
EXTENDS ModuleVersions
=============================================================================
