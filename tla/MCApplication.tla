--------------------------- MODULE MCApplication ---------------------------
(***************************************************************************)
(* An instance of Application for TLC.                                     *)
(***************************************************************************)
EXTENDS Application
=============================================================================
