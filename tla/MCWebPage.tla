------------------------------ MODULE MCWebPage ------------------------------
(***************************************************************************)
(* Small instances of WebPage for TLC.                                     *)
(***************************************************************************)
EXTENDS WebPage
=============================================================================
