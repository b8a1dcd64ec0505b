---------------------------- MODULE MCRouterTls ----------------------------
(***************************************************************************)
(* Instances of RouterTls for TLC.                                         *)
(***************************************************************************)
EXTENDS RouterTls

MCNames == {"siteCA", "localCA", "siteServer", "localServer"}
=============================================================================
