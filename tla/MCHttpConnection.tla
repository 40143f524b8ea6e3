-------------------------- MODULE MCHttpConnection ---------------------------
(***************************************************************************)
(* Small instances of HttpConnection for TLC.                              *)
(***************************************************************************)
EXTENDS HttpConnection
=============================================================================
