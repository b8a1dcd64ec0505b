-------------------------- MODULE MCRouterConfig ---------------------------
(***************************************************************************)
(* Instances of RouterConfig for TLC.                                      *)
(***************************************************************************)
EXTENDS RouterConfig
=============================================================================
