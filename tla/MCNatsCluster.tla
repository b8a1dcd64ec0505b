--------------------------- MODULE MCNatsCluster ---------------------------
(***************************************************************************)
(* Instances of NatsCluster for TLC.                                       *)
(***************************************************************************)
EXTENDS NatsCluster
=============================================================================
