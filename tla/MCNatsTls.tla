----------------------------- MODULE MCNatsTls -----------------------------
(***************************************************************************)
(* Instances of NatsTls for TLC.                                           *)
(***************************************************************************)
EXTENDS NatsTls

MCNames == {"siteCA", "localCA", "siteServer", "mqttServer"}
=============================================================================
