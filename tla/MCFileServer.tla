---------------------------- MODULE MCFileServer ----------------------------
(***************************************************************************)
(* Small instances of FileServer for TLC.                                  *)
(***************************************************************************)
EXTENDS FileServer
=============================================================================
