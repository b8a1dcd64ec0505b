------------------------------ MODULE MCBringup ------------------------------
(* Bringup on a few specs.                                                  *)
EXTENDS Bringup

\* Load balancers throughout, NATS, SQLite.
Balanced ==
  [controllerType |-> "LoadBalancer", routerType |-> "LoadBalancer",
   natsType |-> "LoadBalancer", natsServerType |-> "", policy |-> "",
   routerAddress |-> FALSE, natsAddress |-> FALSE, nats |-> TRUE,
   externalDb |-> FALSE, https |-> FALSE, vault |-> "none",
   pullSecret |-> "none", db |-> 1, replicas |-> 0]

\* Ingresses throughout, and everything a Controller can be given.
Ingressed ==
  [controllerType |-> "ClusterIP", routerType |-> "ClusterIP",
   natsType |-> "", natsServerType |-> "", policy |-> "Local",
   routerAddress |-> TRUE, natsAddress |-> FALSE, nats |-> FALSE,
   externalDb |-> TRUE, https |-> TRUE, vault |-> "aws",
   pullSecret |-> "usable", db |-> 1, replicas |-> 3]

\* Another database, vault and types of services, and NATS.
Exposed ==
  [Ingressed EXCEPT !.controllerType = "NodePort", !.routerType = "NodePort",
                    !.natsType = "ClusterIP", !.natsServerType = "NodePort",
                    !.vault = "azure", !.nats = TRUE, !.db = 2]

\* One replica less.
Rescaled == [Exposed EXCEPT !.replicas = 2]

\* Specs that cannot be met.
Unpulled == [Balanced EXCEPT !.pullSecret = "missing"]
Mistyped == [Ingressed EXCEPT !.pullSecret = "wrongType", !.https = FALSE]

\* Another password for the database.
Rotated == [Ingressed EXCEPT !.db = 2]

MCSpecs == {Balanced, Ingressed, Exposed, Rescaled, Unpulled, Mistyped}
RotatedSpecs == {Ingressed, Rotated}
MCEdits ==
  {<<Ingressed, Exposed>>, <<Ingressed, Balanced>>, <<Exposed, Rescaled>>,
   <<Ingressed, Rotated>>}
MCLeft == {<<Rescaled, 3>>}
NoneLeft == {}
MCKeys == {"k1", "k2"}
MCLagging ==
  {<<"Secret", "nats-jetstream-key">>, <<"Deployment", "controller">>,
   <<"Secret", "nats-site-server">>}
MCBreaking ==
  {<<"Secret", "controller-vault-credentials">>, <<"Secret", "nats-site-server">>,
   <<"ConfigMap", "iofog-router">>}
==============================================================================
