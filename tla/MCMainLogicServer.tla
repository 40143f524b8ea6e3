-------------------------- MODULE MCMainLogicServer --------------------------
(***************************************************************************)
(* Small instances of MainLogicServer for TLC.                             *)
(***************************************************************************)
EXTENDS MainLogicServer
=============================================================================
