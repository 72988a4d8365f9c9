------------------------------ MODULE MCWidget ------------------------------
(***************************************************************************)
(* Small instances of Widget for TLC.                                      *)
(***************************************************************************)
EXTENDS Widget
=============================================================================
