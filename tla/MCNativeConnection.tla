------------------------- MODULE MCNativeConnection -------------------------
(***************************************************************************)
(* Small instances of NativeConnection for TLC.                            *)
(***************************************************************************)
EXTENDS NativeConnection
=============================================================================
