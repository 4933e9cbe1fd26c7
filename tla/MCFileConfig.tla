---------------------------- MODULE MCFileConfig ----------------------------
(***************************************************************************)
(* Small configurations for FileConfig.                                    *)
(***************************************************************************)
EXTENDS FileConfig

CONSTANTS d1, d2

TwoDocs == {d1, d2}
=============================================================================
