--------------------------- MODULE Microservices ---------------------------
(***************************************************************************)
(* What the operator builds from the spec of a ControlPlane: the objects   *)
(* of each component, in the order in which its routine creates them, and  *)
(* what the component's pods refer to                                      *)
(* (controllers/controlplanes/microservices.go and resources.go).          *)
(*                                                                         *)
(* An object is abstracted to its kind, its name and its parts: the keys   *)
(* of a secret or a config map, the type of a service.  A reference is to  *)
(* one part, or to "" for the object as a whole.                           *)
(***************************************************************************)
EXTENDS Naturals, Sequences

ServiceTypes == {"", "LoadBalancer", "ClusterIP", "NodePort"}
Policies == {"", "Local", "Cluster"}
VaultKinds == {"none", "provider", "hashicorp", "aws", "azure", "google"}

\* What images.pullSecret names: nothing, a secret of the right type, one of
\* another type, or no secret at all.
PullSecrets == {"none", "usable", "wrongType", "missing"}

\* The spec of a ControlPlane.  The two addresses are those of the ingresses,
\* "db" tells database credentials apart, "replicas" is replicas.nats.
ControlPlaneSpec ==
  [controllerType : ServiceTypes, routerType : ServiceTypes,
   natsType : ServiceTypes, natsServerType : ServiceTypes, policy : Policies,
   routerAddress : BOOLEAN, natsAddress : BOOLEAN, nats : BOOLEAN,
   externalDb : BOOLEAN, https : BOOLEAN, vault : VaultKinds,
   pullSecret : PullSecrets, db : Nat, replicas : Nat]

Opt(cond, object) == IF cond THEN <<object>> ELSE << >>

Object(kind, name) == [kind |-> kind, name |-> name, parts |-> {}]
ObjectWith(kind, name, keys) == [kind |-> kind, name |-> name, parts |-> keys]

References(o) == {<<o.kind, o.name, p>> : p \in o.parts \cup {""}}
-----------------------------------------------------------------------------
(***************************************************************************)
(* Services.                                                               *)
(***************************************************************************)

\* A service without a type is a load balancer.
WithDefault(type) == IF type = "" THEN "LoadBalancer" ELSE type

\* Mutant: the policy asked for is set whatever the type.
MutTrafficPolicy(type, override) ==
  IF override # "" THEN override
  ELSE IF type = "LoadBalancer" THEN "Local"
  ELSE IF type = "NodePort" THEN "Cluster" ELSE ""

TrafficPolicy(type, override) ==
  IF type = "ClusterIP" THEN ""
  ELSE IF override # "" THEN override
  ELSE IF type = "LoadBalancer" THEN "Local"
  ELSE IF type = "NodePort" THEN "Cluster" ELSE ""

\* The type of a service and, when there is one, its policy.
Service(name, type, override) ==
  <<ObjectWith("Service", name, {type, TrafficPolicy(type, override)} \ {""})>>

\* The API server refuses a policy on a service that has no external side.
Accepted(o) ==
  (o.kind = "Service" /\ o.parts \cap {"Local", "Cluster"} # {}) =>
    o.parts \cap {"LoadBalancer", "NodePort"} # {}
-----------------------------------------------------------------------------
(***************************************************************************)
(* The ioFog Controller.                                                   *)
(***************************************************************************)
DbCredentials == "controller-db-credentials"
AuthCredentials == "controller-auth-credentials"
VaultCredentials == "controller-vault-credentials"

\* buildControllerSecrets and buildVaultCredentialsSecret: the keys written.
DbKeys == {"dbname", "host", "port", "username", "password", "ssl", "ca"}
AuthKeys == {"auth-url", "auth-realm", "auth-realm-key", "auth-ssl-req",
             "auth-controller-client", "auth-controller-client-secret",
             "auth-viewer-client"}

VaultKeys(vault) ==
  CASE vault = "hashicorp" -> {"address", "token", "mount"}
    [] vault = "aws" -> {"region", "accessKeyId", "accessKey"}
    [] vault = "azure" -> {"url", "tenantId", "clientId", "clientSecret"}
    [] vault = "google" -> {"projectId", "credentials"}
    [] OTHER -> {}

DbSecret == ObjectWith("Secret", DbCredentials, DbKeys)
AuthSecret == ObjectWith("Secret", AuthCredentials, AuthKeys)
VaultSecret(cp) ==
  Opt(VaultKeys(cp.vault) # {},
      ObjectWith("Secret", VaultCredentials, VaultKeys(cp.vault)))

\* The pull secret is looked at before the account is: one of another type
\* leaves the routine without an account and without an error.
Account(cp, name) ==
  Opt(cp.pullSecret \in {"none", "usable"}, Object("ServiceAccount", name))

Access(cp, name) ==
  Account(cp, name) \o <<Object("Role", name), Object("RoleBinding", name)>>

ControllerService(cp) ==
  Service("controller", WithDefault(cp.controllerType), cp.policy)

\* The database of a Controller without an external one is on this claim.
ControllerClaims(cp) ==
  Opt(~cp.externalDb, Object("PersistentVolumeClaim", "controller-sqlite"))

\* A deployment whose pods share the claim stops the old one first.
Recreates(cp) == ~cp.externalDb

\* createSecrets goes over the credentials again.
ControllerObjects(cp) ==
  Access(cp, "controller") \o <<DbSecret>> \o VaultSecret(cp)
    \o <<DbSecret, AuthSecret>> \o VaultSecret(cp) \o ControllerService(cp)
    \o Opt(cp.controllerType = "ClusterIP", Object("Ingress", "pot-controller"))
    \o ControllerClaims(cp)

\* What the environment, the volumes and the pod itself refer to.
AuthEnv ==
  {<<"Secret", AuthCredentials, k>> :
     k \in {"auth-url", "auth-realm", "auth-realm-key", "auth-ssl-req",
            "auth-controller-client", "auth-controller-client-secret",
            "auth-viewer-client"}}

DbEnv ==
  {<<"Secret", DbCredentials, k>> :
     k \in {"dbname", "username", "password", "host", "port", "ssl", "ca"}}

\* Mutant: the branches of two providers are confused.
MutVaultEnv(vault) ==
  {<<"Secret", VaultCredentials, k>> :
     k \in CASE vault = "hashicorp" -> {"address", "token", "mount"}
             [] vault = "aws" -> {"url", "tenantId", "clientId", "clientSecret"}
             [] vault = "azure" -> {"region", "accessKeyId", "accessKey"}
             [] vault = "google" -> {"projectId", "credentials"}
             [] OTHER -> {}}

VaultEnv(vault) ==
  {<<"Secret", VaultCredentials, k>> :
     k \in CASE vault = "hashicorp" -> {"address", "token", "mount"}
             [] vault = "aws" -> {"region", "accessKeyId", "accessKey"}
             [] vault = "azure" -> {"url", "tenantId", "clientId", "clientSecret"}
             [] vault = "google" -> {"projectId", "credentials"}
             [] OTHER -> {}}

\* The owner's certificate for https.
OwnersCertificate == Object("Secret", "owners-certificate")

ControllerVolumes(cp) ==
  (IF cp.externalDb THEN {}
     ELSE {<<"PersistentVolumeClaim", "controller-sqlite", "">>})
  \cup (IF cp.https THEN References(OwnersCertificate) ELSE {})

ControllerNeeds(cp) ==
  {<<"ServiceAccount", "controller", "">>}
    \cup AuthEnv \cup DbEnv \cup VaultEnv(cp.vault) \cup ControllerVolumes(cp)

\* What of the spec the Controller's pod template depends on.  Credentials
\* are referred to by name and key: their values are not part of it.
PodTemplate(cp) ==
  [externalDb |-> cp.externalDb, https |-> cp.https, vault |-> cp.vault,
   nats |-> cp.nats]
-----------------------------------------------------------------------------
(***************************************************************************)
(* The router.                                                             *)
(***************************************************************************)
RouterObjects(cp) ==
  Access(cp, "router")
    \o Service("router", WithDefault(cp.routerType), cp.policy)

RouterFiles ==
  <<Object("Secret", "router-site-ca"), Object("Secret", "default-router-local-ca"),
    Object("Secret", "router-site-server"), Object("Secret", "router-local-server"),
    ObjectWith("ConfigMap", "iofog-router", {"skrouterd.json"})>>

RouterNeeds ==
  {<<"ServiceAccount", "router", "">>,
   <<"ConfigMap", "iofog-router", "skrouterd.json">>,
   <<"Secret", "router-site-server", "">>, <<"Secret", "router-local-server", "">>}
-----------------------------------------------------------------------------
(***************************************************************************)
(* NATS.                                                                   *)
(***************************************************************************)
BootstrapSecrets ==
  <<ObjectWith("Secret", "nats-operator-seed", {"seed"}),
    ObjectWith("Secret", "nats-creds-sys-admin-hub", {"admin-hub.creds"})>>

\* Mutant: the account has the router's name.
MutNatsObjects(cp) ==
  Access(cp, "router")
    \o Service("nats-headless", "ClusterIP", "")
    \o Service("nats", WithDefault(cp.natsType), cp.policy)
    \o Service("nats-server", WithDefault(cp.natsServerType), cp.policy)

NatsObjects(cp) ==
  Access(cp, "nats")
    \o Service("nats-headless", "ClusterIP", "")
    \o Service("nats", WithDefault(cp.natsType), cp.policy)
    \o Service("nats-server", WithDefault(cp.natsServerType), cp.policy)

\* NATS runs as a cluster of at least two.
NatsReplicas(cp) == IF cp.replicas < 2 THEN 2 ELSE cp.replicas

NatsCAs ==
  <<Object("Secret", "nats-site-ca"), Object("Secret", "default-nats-local-ca")>>

\* The server certificates, in the order in which they are deleted and created.
SiteServer == "nats-site-server"
MqttServer == "nats-mqtt-server"
Servers == {SiteServer, MqttServer}
ServerOrder == <<SiteServer, MqttServer>>
SecretFiles(names) == {<<"Secret", s, "">> : s \in names}
ServerFiles == SecretFiles(Servers)

NatsConfigMaps ==
  <<Object("ConfigMap", "iofog-nats-config"),
    Object("ConfigMap", "iofog-nats-jwt-bundle")>>

JetStreamKey == ObjectWith("Secret", "nats-jetstream-key", {"jsk"})

NatsNeeds ==
  {<<"ServiceAccount", "nats", "">>,
   <<"ConfigMap", "iofog-nats-config", "">>,
   <<"ConfigMap", "iofog-nats-jwt-bundle", "">>,
   <<"Secret", "nats-jetstream-key", "jsk">>,
   <<"Secret", "nats-creds-sys-admin-hub", "admin-hub.creds">>}
    \cup ServerFiles

\* The CAs that ImportCertificates hands to the Controller, in order.
ImportedCAs(cp) ==
  <<"router-site-ca", "default-router-local-ca">>
    \o (IF cp.nats THEN <<"nats-site-ca", "default-nats-local-ca">> ELSE << >>)
=============================================================================
