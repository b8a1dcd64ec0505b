------------------------------ MODULE Bringup ------------------------------
(***************************************************************************)
(* The passes that bring a ControlPlane up: the three routines             *)
(* reconcileIofogController, reconcileRouter and reconcileNats run         *)
(* concurrently, wait for load balancers, and need what the others have    *)
(* created (controllers/controlplanes/reconcile.go:130-842).               *)
(*                                                                         *)
(* ControlPlane is about the object and its conditions and leaves open     *)
(* what a routine does; here the routines are modelled and the object is   *)
(* reduced to its spec and to whether it is ready.                         *)
(*                                                                         *)
(* The objects a routine creates one after the other are stored in one     *)
(* step, or up to any point at which a call fails: no other routine reads  *)
(* them through the operator.                                              *)
(***************************************************************************)
EXTENDS Microservices, FiniteSets, TLC

CONSTANTS Specs,      \* what the owner can ask for
          Edits,      \* bound: which spec the owner replaces with which
          Keys,       \* the JetStream keys that can be drawn
          Lagging,    \* bound: the objects that informers may be slow to show
          Breaking,   \* bound: the objects whose creation may fail
          Left,       \* bound: with which spec NATS's server certificates may
                      \* be there from before, for how many replicas
          MaxEvents   \* bound: edits, faults and late informers

ASSUME SpecsAssumption == Specs \subseteq ControlPlaneSpec
ASSUME KeysAssumption == Keys # {} /\ Keys \cap {"none", "empty"} = {}
ASSUME BoundsAssumption == MaxEvents \in Nat /\ Left \subseteq Specs \X Nat

VARIABLES
  spec,         \* what the owner asks for
  ready,        \* the ControlPlane is ready
  cp,           \* r.cp.Spec, the pass's copy of the spec
  at,           \* where each routine is, "off" between passes
  stored,       \* the objects in the namespace: their parts by kind and name;
                \* all but NATS's server certificates, which alone are deleted
  hosts,        \* the number of replicas each of these is made for, 0 without it
  outdated,     \* what else informers may still show of each of them
  misread,      \* history: the pass was shown one that is not as stored, or
                \* could not read it
  behind,       \* the object that informers do not show yet, if any
  addresses,    \* the services and ingresses that were given an address
  jsKey,        \* what the JetStream key secret holds
  confKey,      \* the key in server.conf
  credentials,  \* the database credentials in their secret, 0 without one
  template,     \* the pod template of the Controller's Deployment
  api,          \* the Controller answers
  rollout,      \* the Controller's pod is yet to be replaced
  using,        \* what the Controller runs with: an external database or
                \* not, and the credentials in its environment
  moved,        \* history: the Controller has moved to another database
  known,        \* what the Controller has been told of: router, hub and CAs
  events        \* how many edits, faults and late informers there have been

certificates == <<hosts, outdated>>
cluster == <<stored, behind, certificates, jsKey, confKey, credentials, template>>
outside == <<addresses, using, moved, known>>
vars == <<spec, ready, cp, at, stored, behind, hosts, outdated, misread,
          addresses, jsKey, confKey, credentials, template, api, rollout,
          using, moved, known, events>>

Routines == {"controller", "router", "nats"}
NoTemplate == [none |-> TRUE]
Deployment(name) == Object("Deployment", name)
NatsSet == Object("StatefulSet", "nats")

Failed == {"requeue", "error", "missingProxy"}
Ended == Failed \cup {"continue"}
StepsOf ==
  [controller |-> {"objects", "deploy", "client", "proxy", "register", "hub",
                   "import", "address", "finish"},
   router |-> {"objects", "address", "files", "deploy"},
   nats |-> {"client", "bootstrap", "key", "objects", "address", "replicas",
             "certificates", "servers", "config", "deploy"}]

Id(o) == <<o.kind, o.name>>
IsStored(o) == Id(o) \in DOMAIN stored

\* What the pods of the namespace can refer to.
Provided ==
  (UNION {{<<id[1], id[2], p>> : p \in stored[id] \cup {""}} : id \in DOMAIN stored})
    \cup SecretFiles({s \in Servers : hosts[s] # 0})

ServiceIs(name, type) ==
  <<"Service", name>> \in DOMAIN stored /\ type \in stored[<<"Service", name>>]

\* The objects in the namespace and those of the set, which come first.
With(objects) ==
  LET new == {Id(o) : o \in objects}
  IN  [id \in new \cup DOMAIN stored |->
         IF id \in new THEN (CHOOSE o \in objects : Id(o) = id).parts
                       ELSE stored[id]]

TypeOK ==
  /\ spec \in Specs /\ cp \in Specs
  /\ ready \in BOOLEAN
  /\ DOMAIN at = Routines
  /\ \A c \in Routines : at[c] \in StepsOf[c] \cup Ended \cup {"off"}
  /\ Cardinality(behind) <= 1 /\ behind \subseteq DOMAIN stored
  /\ hosts \in [Servers -> Nat] /\ outdated \in [Servers -> SUBSET Nat]
  /\ misread \in BOOLEAN
  /\ addresses \subseteq {"controller", "router", "nats", "pot-controller"}
  /\ jsKey \in Keys \cup {"none", "empty"}
  /\ confKey \in Keys \cup {"none", "empty"}
  /\ credentials \in Nat /\ using \in [externalDb : BOOLEAN, db : Nat]
  /\ api \in BOOLEAN /\ rollout \in BOOLEAN /\ moved \in BOOLEAN
  /\ known \subseteq {"router", "hub", "router-site-ca",
                      "default-router-local-ca", "nats-site-ca",
                      "default-nats-local-ca"}
  /\ events \in 0..MaxEvents

Init ==
  /\ spec \in Specs /\ cp = spec
  /\ ready = FALSE
  /\ at = [c \in Routines |-> "off"]
  /\ jsKey \in {"none", "empty"} /\ confKey = "none"
  /\ stored = [id \in {Id(OwnersCertificate)} \cup
                       (IF jsKey = "empty" THEN {Id(JetStreamKey)} ELSE {}) |->
                 IF id = Id(JetStreamKey) THEN JetStreamKey.parts ELSE {}]
  /\ behind = {}
  /\ \E n \in {0} \cup {left[2] : left \in {l \in Left : l[1] = spec}} :
       hosts = [s \in Servers |-> n]
  /\ outdated = [s \in Servers |-> {}]
  /\ misread = FALSE
  /\ addresses = {} /\ known = {}
  /\ credentials = 0 /\ using = [externalDb |-> FALSE, db |-> 0]
  /\ template = NoTemplate /\ moved = FALSE
  /\ api = FALSE /\ rollout = FALSE
  /\ events = 0
-----------------------------------------------------------------------------
(***************************************************************************)
(* A pass.                                                                 *)
(***************************************************************************)
StartPass ==
  /\ ~ready
  /\ \A c \in Routines : at[c] = "off"
  /\ cp' = spec
  /\ at' = [controller |-> "objects", router |-> "objects", nats |-> "client"]
  /\ misread' = FALSE
  /\ UNCHANGED <<spec, ready, cluster, outside, api, rollout, events>>

\* Mutant: only errors count, a routine that asks to be called again does not.
MutSucceeded == \A c \in Routines : at[c] \in {"continue", "requeue"}

Succeeded == \A c \in Routines : at[c] = "continue"

\* Mutant: after a conflict the write is retried on the object as it is now.
MutEndPass ==
  /\ \A c \in Routines : at[c] \in Ended
  /\ at' = [c \in Routines |-> "off"]
  /\ ready' = Succeeded
  /\ UNCHANGED <<spec, cp, cluster, misread, outside, api, rollout, events>>

\* All three have sent their result.  The write that marks the object ready
\* is refused when the owner has edited it meanwhile.
EndPass ==
  /\ \A c \in Routines : at[c] \in Ended
  /\ at' = [c \in Routines |-> "off"]
  /\ ready' = (Succeeded /\ cp = spec)
  /\ UNCHANGED <<spec, cp, cluster, misread, outside, api, rollout, events>>

\* Routine c, which is at "from", goes on to "to".
Go(c, from, to) ==
  /\ at[c] = from
  /\ at' = [at EXCEPT ![c] = to]
  /\ UNCHANGED <<spec, ready, cp, misread>>

Happen(n) == events + n <= MaxEvents /\ events' = events + n
Event == Happen(1)
Unfailing == Happen(0)
-----------------------------------------------------------------------------
(***************************************************************************)
(* Creating objects: each is read and created when the read does not show  *)
(* it.                                                                     *)
(***************************************************************************)
Elements(objects) == {objects[i] : i \in DOMAIN objects}

Created(objects) == {o \in Elements(objects) : ~IsStored(o)}

\* The objects are ensured.  All are left alone when they exist, but for the
\* credentials, which are updated.
Store(objects) ==
  \E written \in {{o \in Elements(objects) :
                   ~IsStored(o) \/ o.name \in {DbCredentials, VaultCredentials}}} :
    stored' = With(written)

\* The creates whose AlreadyExists is no error.
Tolerant(o) ==
  \/ o.kind = "ServiceAccount"
  \/ o \in Elements(NatsCAs)
  \/ o.name = "iofog-nats-jwt-bundle"

\* The informers lag: a read of the object may not show it.
Lags(o) == Id(o) \in behind

\* One object at a time may lag, from when it is created.
\* So may n faults happen.
Creating(new, n) ==
  \E late \in SUBSET Lagging :
    /\ late = {} \/ (behind = {} /\ Cardinality(late) = 1)
    /\ late \subseteq {Id(o) : o \in new}
    /\ behind' = behind \cup late
    /\ Happen(n + Cardinality(late))

\* A read misses an object that exists, perhaps since a moment, and Create fails.
Collides(o, before) ==
  /\ ~Tolerant(o)
  /\ IF IsStored(o) THEN Lags(o) ELSE o \in Elements(before)

\* Looking for the pull secret comes first of all.
NoPullSecret(objects) ==
  cp.pullSecret = "missing" /\ \E o \in Elements(objects) : o.kind = "Role"

Save(objects, n) ==
  /\ Store(objects)
  /\ \E new \in {Created(objects)} : Creating(new, n)
  /\ credentials' = IF DbSecret \in Elements(objects) THEN cp.db ELSE credentials
  /\ UNCHANGED <<certificates, jsKey, confKey, template, outside, api, rollout>>

EnsureAll(c, objects, from, to) ==
  /\ Go(c, from, to)
  /\ \A o \in Elements(objects) : Accepted(o)
  /\ ~NoPullSecret(objects)
  /\ Save(objects, 0)

\* A call fails: through a fault, its answer lost perhaps, or because of what
\* it meets.
EnsureStops(c, objects, from) ==
  /\ Go(c, from, "error")
  /\ \E n \in DOMAIN objects :
       LET before == SubSeq(objects, 1, n - 1)
       IN  /\ \A o \in Elements(before) : Accepted(o)
           /\ NoPullSecret(objects) => n = 1
           /\ \/ /\ \/ Collides(objects[n], before)
                    \/ ~Accepted(objects[n])
                    \/ NoPullSecret(objects)
                 /\ Save(before, 0)
              \/ /\ Id(objects[n]) \in Breaking
                 /\ Save(before, 1) \/ Save(SubSeq(objects, 1, n), 1)

Ensure(c, list, from, to) ==
  /\ at[c] = from
  /\ \E objects \in {list} :
       EnsureAll(c, objects, from, to) \/ EnsureStops(c, objects, from)

\* A step that is a single call, or none, and stores nothing.
Call(c, from, to) ==
  /\ Go(c, from, to)
  /\ UNCHANGED <<cluster, api, rollout, addresses, using, moved>>

\* WaitForLoadBalancer returns when the service has an address, and with an
\* error when that takes longer than loadBalancerTimeout.
Wait(c, name, from, to) ==
  /\ name \in addresses
  /\ Call(c, from, to)
  /\ UNCHANGED known
  /\ Unfailing

Timeout(c, name, from) ==
  /\ name \notin addresses
  /\ Call(c, from, "error")
  /\ UNCHANGED known
  /\ Unfailing

WaitOrTimeout(c, name, from, to) ==
  Wait(c, name, from, to) \/ Timeout(c, name, from)

\* What a cached read can show of the object.
Shown(o) == IF IsStored(o) THEN {TRUE} \cup {~Lags(o)} ELSE {FALSE}
-----------------------------------------------------------------------------
(***************************************************************************)
(* reconcileRouter.                                                        *)
(***************************************************************************)
RouterObjectsStep ==
  Ensure("router", RouterObjects(cp), "objects", "address")

\* Mutant: the deployment comes before the files it mounts.
MutRouterAddress ==
  \/ /\ cp.routerType = "LoadBalancer"
     /\ WaitOrTimeout("router", "router", "address", "deploy")
  \/ /\ cp.routerType # "LoadBalancer"
     /\ Call("router", "address",
             IF cp.routerAddress THEN "deploy" ELSE "missingProxy")
     /\ UNCHANGED <<known, events>>

\* The type is compared as the spec has it, without the default.
RouterAddress ==
  \/ /\ cp.routerType = "LoadBalancer"
     /\ WaitOrTimeout("router", "router", "address", "files")
  \/ /\ cp.routerType # "LoadBalancer"
     /\ Call("router", "address",
             IF cp.routerAddress THEN "files" ELSE "missingProxy")
     /\ UNCHANGED <<known, events>>

RouterFilesStep ==
  Ensure("router", RouterFiles, "files", "deploy")

RouterDeploy ==
  Ensure("router", <<Deployment("router")>>, "deploy", "continue")

RouterStep ==
  RouterObjectsStep \/ RouterAddress \/ RouterFilesStep \/ RouterDeploy
-----------------------------------------------------------------------------
(***************************************************************************)
(* reconcileNats.                                                          *)
(***************************************************************************)

\* Mutant: it is waited for until the Controller answers.
MutNatsClient ==
  /\ ~cp.nats \/ api
  /\ Call("nats", "client", IF cp.nats THEN "bootstrap" ELSE "continue")
  /\ UNCHANGED <<known, events>>

\* getIofogClient, loginIofogClient and GetNatsBootstrap.
NatsClient ==
  /\ Call("nats", "client",
          IF ~cp.nats THEN "continue" ELSE IF api THEN "bootstrap" ELSE "requeue")
  /\ UNCHANGED <<known, events>>

\* createOrUpdateSecret: an AlreadyExists is followed by a cached Get.
NatsBootstrap ==
  Ensure("nats", BootstrapSecrets, "bootstrap", "key")

\* Storing a key in the secret that holds it.
StoreKey(key, n) ==
  /\ jsKey' = key
  /\ stored' = With({JetStreamKey})
  /\ Creating({JetStreamKey}, n)
  /\ UNCHANGED <<certificates, confKey, credentials, template, outside, api,
                 rollout>>

\* Mutant: the secret is created although no bytes could be drawn.
MutNewKey == ""

\* A key is drawn: any other than the one there may be.
NewKey == CHOOSE k \in Keys : k # jsKey

\* What the cached Get of the key's secret returns.
KeyRead == {jsKey} \cup (IF Lags(JetStreamKey) THEN {"none"} ELSE {})

KeyShown == \E k \in Keys : k \in KeyRead

KeyMissed == \E k \in KeyRead : k \notin Keys

\* Mutant: a secret that exists will do, whatever it holds.
MutKeyFound ==
  /\ \E k \in KeyRead : k # "none"
  /\ Call("nats", "key", "objects")
  /\ UNCHANGED <<known, events>>

\* EnsureJetStreamKeySecret finds a key that is not empty.
KeyFound ==
  /\ KeyShown
  /\ Call("nats", "key", "objects")
  /\ UNCHANGED <<known, events>>

\* Mutant: the secret is created or overwritten.
MutKeyCreated ==
  /\ KeyMissed
  /\ Go("nats", "key", "objects")
  /\ StoreKey(NewKey, 0)

\* It does not, and Create stores a new one.
KeyCreated ==
  /\ KeyMissed
  /\ jsKey = "none"
  /\ Go("nats", "key", "objects")
  /\ StoreKey(NewKey, 0)

\* It does not, but there is a secret of that name: AlreadyExists.
KeyCollides ==
  /\ KeyMissed
  /\ jsKey # "none"
  /\ Call("nats", "key", "error")
  /\ UNCHANGED <<known, events>>

\* Create fails, or its answer is lost.
KeyFails ==
  /\ KeyMissed
  /\ jsKey = "none"
  /\ Go("nats", "key", "error")
  /\ \/ Event /\ UNCHANGED <<cluster, outside, api, rollout>>
     \/ StoreKey(NewKey, 1)

NatsObjectsStep ==
  Ensure("nats", NatsObjects(cp), "objects", "address")

\* Without a load balancer the address is the ingress's, or left empty.
NatsAddress ==
  \/ /\ cp.natsType = "LoadBalancer"
     /\ WaitOrTimeout("nats", "nats", "address", "replicas")
  \/ /\ cp.natsType # "LoadBalancer"
     /\ Call("nats", "address", "replicas")
     /\ UNCHANGED <<known, events>>

\* What the cached Get of a server certificate returns.
HostsRead(s) == {hosts[s]} \cup outdated[s]

\* Certificates are deleted or created, and n faults happen.  An informer that
\* is late stays so; others may be, from now on.
PutHosts(new, n) ==
  LET changed == {s \in Servers : new[s] # hosts[s]}
      behindhand == {s \in changed : outdated[s] # {}}
  IN  \E late \in SUBSET {s \in changed \ behindhand : <<"Secret", s>> \in Lagging} :
        /\ hosts' = new
        /\ outdated' = [s \in Servers |->
                          IF s \in late \cup behindhand
                            THEN outdated[s] \cup {hosts[s]} ELSE outdated[s]]
        /\ Happen(n + Cardinality(late))

\* The certificates that a step deletes or creates do not move the rest.
Certify(from, to) ==
  /\ at["nats"] = from
  /\ at' = [at EXCEPT !["nats"] = to]
  /\ UNCHANGED <<spec, ready, cp, stored, behind, jsKey, confKey, credentials,
                 template, outside, api, rollout>>

\* Mutant: the number of the spec is not the number of pods.
MutStale(n) == n # 0 /\ n # cp.replicas

\* The annotation names another number of replicas.
Stale(n) == n # 0 /\ n # NatsReplicas(cp)

FirstServers(n) == {ServerOrder[i] : i \in 1..n}

\* The site certificate is read and, when it is stale, the first n are deleted.
Replace(n, faults) ==
  \E read \in HostsRead(SiteServer) :
    /\ misread' = (misread \/ read # hosts[SiteServer])
    /\ n < 2 => Stale(read)
    /\ PutHosts([s \in Servers |->
                   IF Stale(read) /\ s \in FirstServers(n) THEN 0 ELSE hosts[s]],
                faults)

CompareReplicas == Certify("replicas", "certificates") /\ Replace(2, 0)

\* An error of the Get is not looked at: the comparison is skipped.
CompareFails ==
  /\ Certify("replicas", "certificates")
  /\ misread' = TRUE
  /\ UNCHANGED certificates
  /\ Event

\* A Delete fails, with its effect or without it.
ReplaceStops ==
  /\ Certify("replicas", "error")
  /\ \E n \in 1..2 : /\ <<"Secret", ServerOrder[n]>> \in Breaking
                     /\ Replace(n - 1, 1) \/ Replace(n, 1)

\* EnsureNatsSecrets returns the CAs that are lacking first.
NatsCAsStep ==
  Ensure("nats", NatsCAs, "certificates", "servers")

\* The first n server certificates are created that EnsureNatsSecrets did not
\* see; AlreadyExists is no error.
Issue(n, faults) ==
  \E site \in HostsRead(SiteServer), mqtt \in HostsRead(MqttServer) :
    LET seen == [s \in Servers |-> IF s = SiteServer THEN site ELSE mqtt]
    IN  /\ misread' = (misread \/ seen # hosts)
        /\ PutHosts([s \in Servers |->
                       IF s \in FirstServers(n) /\ seen[s] = 0 /\ hosts[s] = 0
                         THEN NatsReplicas(cp) ELSE hosts[s]],
                    faults)

IssueServers == Certify("servers", "config") /\ Issue(2, 0)

\* A Get or a Create fails, with its effect or without it.
IssueStops ==
  /\ Certify("servers", "error")
  /\ \E n \in 1..2 : /\ <<"Secret", ServerOrder[n]>> \in Breaking
                     /\ Issue(n - 1, 1) \/ Issue(n, 1)

\* Writing the first n config maps, server.conf with the key read before.
\* The config map of server.conf is always updated.
SaveConfig(key, n, faults) ==
  LET done == SubSeq(NatsConfigMaps, 1, n)
  IN  /\ Store(done)
      /\ Creating(Created(done), faults)
      /\ confKey' = IF n > 0 THEN key ELSE confKey
      /\ UNCHANGED <<certificates, jsKey, credentials, template, outside, api,
                     rollout>>

NatsConfig ==
  /\ Go("nats", "config", "deploy")
  /\ \E k \in KeyRead \ {"none"} : SaveConfig(k, 2, 0)

\* The key is not read back, a write fails, or the config map is not seen.
NatsConfigStops ==
  /\ Go("nats", "config", "error")
  /\ \/ "none" \in KeyRead /\ SaveConfig("none", 0, 0)
     \/ Collides(NatsConfigMaps[1], << >>) /\ SaveConfig("none", 0, 0)
     \/ \E k \in KeyRead \ {"none"}, n \in 0..2 : SaveConfig(k, n, 1)

NatsDeploy ==
  Ensure("nats", <<NatsSet>>, "deploy", "continue")

NatsStep ==
  \/ NatsClient \/ NatsBootstrap
  \/ KeyFound \/ KeyCreated \/ KeyCollides \/ KeyFails
  \/ NatsObjectsStep \/ NatsAddress
  \/ CompareReplicas \/ CompareFails \/ ReplaceStops
  \/ NatsCAsStep \/ IssueServers \/ IssueStops
  \/ NatsConfig \/ NatsConfigStops \/ NatsDeploy
-----------------------------------------------------------------------------
(***************************************************************************)
(* reconcileIofogController.                                               *)
(***************************************************************************)
ControllerObjectsStep ==
  Ensure("controller", ControllerObjects(cp), "objects", "deploy")

ControllerDeployment == Deployment("controller")

\* createDeployment does not see the Deployment: it creates one, and asks for
\* another pass.
DeployNew ==
  /\ Go("controller", "deploy", "requeue")
  /\ ~IsStored(ControllerDeployment)
  /\ Store(<<ControllerDeployment>>)
  /\ Creating({ControllerDeployment}, 0)
  /\ template' = PodTemplate(cp)
  /\ UNCHANGED <<certificates, jsKey, confKey, credentials, outside, api,
                 rollout>>

\* It sees it and updates it: another template means another pod.  The read
\* of deploymentExists may have missed it.
DeployUpdate ==
  /\ at["controller"] = "deploy" /\ TRUE \in Shown(ControllerDeployment)
  /\ \E seen \in Shown(ControllerDeployment) :
       Go("controller", "deploy", IF seen THEN "client" ELSE "requeue")
  /\ template' = PodTemplate(cp)
  /\ IF template' = template
       THEN UNCHANGED <<api, rollout>>
       ELSE rollout' = TRUE /\ api' = (api /\ ~Recreates(cp))
  /\ UNCHANGED <<stored, behind, certificates, jsKey, confKey, credentials,
                 outside>>
  /\ Unfailing

\* It misses the one that exists, or the call fails.
DeployStops ==
  /\ Call("controller", "deploy", "error")
  /\ UNCHANGED known
  /\ \/ IsStored(ControllerDeployment) /\ Lags(ControllerDeployment) /\ Unfailing
     \/ Event

\* getIofogClient and loginIofogClient.
Client ==
  /\ Call("controller", "client", IF api THEN "proxy" ELSE "requeue")
  /\ UNCHANGED <<known, events>>

Proxy ==
  \/ /\ cp.routerType = "LoadBalancer"
     /\ WaitOrTimeout("controller", "router", "proxy", "register")
  \/ /\ cp.routerType # "LoadBalancer"
     /\ Call("controller", "proxy",
             IF cp.routerAddress THEN "register" ELSE "missingProxy")
     /\ UNCHANGED <<known, events>>

\* createDefaultRouter.
Register ==
  /\ Call("controller", "register",
          IF ~api THEN "error" ELSE IF cp.nats THEN "hub" ELSE "import")
  /\ known' = IF api THEN known \cup {"router"} ELSE known
  /\ Unfailing

HubHasAddress ==
  IF cp.natsType = "LoadBalancer" THEN "nats" \in addresses ELSE cp.natsAddress

\* createDefaultNatsHub, when the hub has an address.
Hub ==
  \/ /\ cp.natsType = "LoadBalancer"
     /\ Timeout("controller", "nats", "hub")
  \/ /\ HubHasAddress
     /\ Call("controller", "hub", IF api THEN "import" ELSE "requeue")
     /\ known' = IF api THEN known \cup {"hub"} ELSE known
     /\ Unfailing
  \/ /\ cp.natsType # "LoadBalancer" /\ ~cp.natsAddress
     /\ Call("controller", "hub", "import")
     /\ UNCHANGED <<known, events>>

\* The CAs that can be imported before one is met that cannot: the Controller
\* takes them from their secrets.
Importable ==
  LET ca == ImportedCAs(cp)
      ok(i) == api /\ (ca[i] \in known \/ IsStored(Object("Secret", ca[i])))
  IN  {ca[i] : i \in {j \in DOMAIN ca : \A k \in 1..j : ok(k)}}

\* ImportCertificates.
Import ==
  /\ Call("controller", "import",
          IF Importable = Elements(ImportedCAs(cp)) THEN "address" ELSE "requeue")
  /\ known' = known \cup Importable
  /\ Unfailing

\* The Controller's own address: the load balancer's, at which it answers, or
\* the ingress's.
Address ==
  /\ at["controller"] = "address"
  /\ UNCHANGED known
  /\ \/ /\ cp.controllerType = "LoadBalancer"
        /\ \/ Timeout("controller", "controller", "address")
           \/ /\ "controller" \in addresses
              /\ Call("controller", "address", IF api THEN "finish" ELSE "requeue")
              /\ Unfailing
     \/ /\ cp.controllerType = "ClusterIP"
        /\ \E seen \in Shown(Object("Ingress", "pot-controller")) :
             Call("controller", "address",
                  IF seen /\ "pot-controller" \in addresses THEN "finish" ELSE "error")
        /\ Unfailing
     \/ /\ cp.controllerType \notin {"LoadBalancer", "ClusterIP"}
        /\ Call("controller", "address", "finish")
        /\ Unfailing

\* restartPodsForDeployment writes back the Deployment it read, so nothing
\* changes; the update of the viewer's URL may fail without consequence.
Finish ==
  /\ \/ Call("controller", "finish", "continue")
     \/ Lags(ControllerDeployment) /\ Call("controller", "finish", "error")
  /\ UNCHANGED <<known, events>>

ControllerStep ==
  \/ ControllerObjectsStep \/ DeployNew \/ DeployUpdate \/ DeployStops
  \/ Client \/ Proxy \/ Register \/ Hub \/ Import \/ Address \/ Finish
-----------------------------------------------------------------------------
(***************************************************************************)
(* The world around the routines.                                          *)
(***************************************************************************)

\* The services and the ingress that the cloud gives an address.
Addressable ==
  {name \in {"controller", "router", "nats"} :
     ServiceIs(name, "LoadBalancer")}
  \cup {name \in {"pot-controller"} : IsStored(Object("Ingress", name))}

\* The cloud catches up with the load balancers and the ingress.
Cloud ==
  /\ addresses' = addresses \cup Addressable
  /\ addresses' # addresses
  /\ UNCHANGED <<spec, ready, cp, at, cluster, misread, api, rollout, using,
                 moved, known, events>>

\* A pod of the Controller starts, once what its template refers to exists.
\* Another database knows nothing of the router, the hub and the CAs.
StartController ==
  /\ IsStored(ControllerDeployment)
  /\ ~api \/ rollout
  /\ ControllerNeeds(template) \subseteq Provided
  /\ api' = TRUE /\ rollout' = FALSE
  /\ using' = [externalDb |-> template.externalDb, db |-> credentials]
  /\ known' = IF using'.externalDb = using.externalDb THEN known ELSE {}
  /\ moved' = (moved \/ known' # known)
  /\ UNCHANGED <<spec, ready, cp, at, cluster, misread, addresses, events>>

\* The informers catch up.
Deliver ==
  /\ behind # {}
  /\ behind' = {}
  /\ UNCHANGED <<spec, ready, cp, at, stored, certificates, misread, jsKey,
                 confKey, credentials, template, outside, api, rollout, events>>

DeliverServers ==
  /\ outdated' = [s \in Servers |-> {}]
  /\ outdated' # outdated
  /\ UNCHANGED <<spec, ready, cp, at, stored, behind, hosts, misread, jsKey,
                 confKey, credentials, template, outside, api, rollout, events>>

\* The owner asks for something else, which makes another pass due.
Edit ==
  /\ \E s \in Specs : <<spec, s>> \in Edits /\ spec' = s
  /\ ready' = FALSE
  /\ Event
  /\ UNCHANGED <<cp, at, cluster, misread, outside, api, rollout>>

\* The steps that call the Controller or the API server and store nothing.  A
\* failure of some of them is not reported as an error.
Calling ==
  {<<"controller", s>> : s \in {"client", "proxy", "register", "import", "finish"}}
    \cup (IF cp.controllerType \in {"LoadBalancer", "ClusterIP"}
            THEN {<<"controller", "address">>} ELSE {})
    \cup {<<"router", "address">>}
    \cup (IF cp.nats THEN {<<"nats", "client">>} ELSE {})
    \cup (IF cp.nats /\ cp.natsType = "LoadBalancer"
            THEN {<<"nats", "address">>} ELSE {})
    \cup (IF cp.nats /\ HubHasAddress THEN {<<"controller", "hub">>} ELSE {})

CallFails ==
  /\ \E call \in Calling :
       Call(call[1], call[2],
            IF call[2] \in {"import", "hub"} THEN "requeue" ELSE "error")
  /\ UNCHANGED known
  /\ Event

\* The Controller stops answering.
Outage ==
  /\ api
  /\ api' = FALSE
  /\ Event
  /\ UNCHANGED <<spec, ready, cp, at, cluster, misread, outside, rollout>>

\* The operator stops, and starts with informers that are up to date.
Crash ==
  /\ \E c \in Routines : at[c] # "off"
  /\ at' = [c \in Routines |-> "off"]
  /\ behind' = {} /\ outdated' = [s \in Servers |-> {}]
  /\ Event
  /\ UNCHANGED <<spec, ready, cp, stored, hosts, misread, jsKey, confKey,
                 credentials, template, outside, api, rollout>>

Next ==
  \/ StartPass \/ EndPass
  \/ ControllerStep \/ RouterStep \/ NatsStep
  \/ Cloud \/ StartController
  \/ Deliver \/ DeliverServers \/ Edit \/ CallFails \/ Outage \/ Crash

Spec == Init /\ [][Next]_vars

\* The routines are goroutines and their waits end; the work queue calls for
\* another pass after one that failed; the cluster does its part.
Fairness ==
  /\ WF_at(StartPass) /\ WF_at(EndPass)
  /\ WF_at(ControllerStep) /\ WF_at(RouterStep) /\ WF_at(NatsStep)
  /\ WF_addresses(Cloud) /\ WF_vars(StartController) /\ WF_behind(Deliver)
  /\ WF_outdated(DeliverServers)

FairSpec == Spec /\ Fairness
-----------------------------------------------------------------------------
(***************************************************************************)
(* What a routine has done when the spec of the pass is rolled out.        *)
(***************************************************************************)
Ids(E) == {Id(o) : o \in E}
AllStored(objects) == Ids(Elements(objects)) \subseteq DOMAIN stored

VaultId == <<"Secret", VaultCredentials>>
ControllerHas ==
  /\ cp.pullSecret # "missing"
  /\ credentials = cp.db
  /\ AllStored(ControllerObjects(cp))
  /\ VaultKeys(cp.vault) # {} => stored[VaultId] = VaultKeys(cp.vault)

KnowsRouter == moved \/ "router" \in known
KnowsHub ==
  \/ moved \/ "hub" \in known
  \/ ~cp.nats \/ (cp.natsType # "LoadBalancer" /\ ~cp.natsAddress)
KnowsCAs == moved \/ Elements(ImportedCAs(cp)) \subseteq known

ControllerDone ==
  /\ KnowsRouter /\ KnowsHub /\ KnowsCAs
  /\ template = PodTemplate(cp) /\ ControllerHas

RouterDone ==
  /\ IsStored(Deployment("router"))
  /\ AllStored(RouterObjects(cp)) /\ AllStored(RouterFiles)

NatsFiles ==
  /\ AllStored(BootstrapSecrets) /\ AllStored(NatsCAs)
  /\ AllStored(NatsConfigMaps) /\ jsKey \in Keys

NatsDone ==
  /\ IsStored(NatsSet) /\ confKey \in Keys
  /\ AllStored(NatsObjects(cp)) /\ NatsFiles
  /\ hosts[SiteServer] = NatsReplicas(cp) /\ hosts[MqttServer] # 0

\* Routine c has rolled out all of the pass's spec that is its own.
Done(c) ==
  /\ c = "controller" => ControllerDone
  /\ c = "router" => RouterDone
  /\ (c = "nats" /\ cp.nats) => NatsDone
-----------------------------------------------------------------------------
(***************************************************************************)
(* Properties.                                                             *)
(***************************************************************************)
Accounts == {<<"ServiceAccount", name, "">> : name \in Routines}

\* A workload is stored only after the secrets and config maps it mounts: the
\* router's and NATS's pods never wait for files that nobody has written.
\* (The accounts are another matter, see ReadyPodsCanStart.)  NATS's server
\* certificates are deleted when the number of replicas changes, so for them it
\* is said of the moment when a pass writes the StatefulSet, and only of a pass
\* that was shown what is stored: see NatsTls!BothAreRecreated.
DeployedInOrder ==
  /\ IsStored(Deployment("router")) => RouterNeeds \ Accounts \subseteq Provided
  /\ IsStored(NatsSet) => NatsNeeds \ (Accounts \cup ServerFiles) \subseteq Provided
  /\ (at["nats"] \in {"deploy", "continue"} /\ cp.nats /\ ~misread) =>
       ServerFiles \subseteq Provided

\* When the ControlPlane is ready, everything its pods refer to exists, every
\* key of every secret included.  There are two exceptions: a pull secret of
\* the wrong type leaves the pods without an account, and a pass that misread
\* NATS's server certificates may have deleted them without creating new ones
\* (NatsTls!BothAreRecreated).  The owner's own certificate is there from the
\* start.
ReadyPodsCanStart ==
  (ready /\ spec.pullSecret # "wrongType") =>
    /\ ControllerNeeds(spec) \cup RouterNeeds \subseteq Provided
    /\ spec.nats =>
         NatsNeeds \ (IF misread THEN ServerFiles ELSE {}) \subseteq Provided

\* When it is ready, the last pass has done all of it for the spec as it is:
\* the Deployment has its template and the secret its credentials, and the
\* Controller has been told of the router, the hub and every CA, unless it
\* forgot them by moving to another database.
ReadyIsComplete ==
  ready =>
    /\ template = PodTemplate(spec) /\ credentials = spec.db
    /\ IsStored(Deployment("router"))
    /\ spec.nats => IsStored(NatsSet) /\ confKey \in Keys
    /\ ~moved =>
         /\ {"router"} \cup Elements(ImportedCAs(spec)) \subseteq known
         /\ (spec.nats /\ HubHasAddress) => "hub" \in known

\* Work that is done stays done: wherever a routine that starts over fails or
\* the operator stops, what was rolled out of a spec stays for as long as passes
\* are about that spec.  The only step that may undo some of it is one that
\* deletes NATS's server certificates in a pass that misread them.
WorkStays ==
  [][\A c \in Routines :
       (cp' = cp /\ Done(c)) =>
         Done(c)' \/ (c = "nats" /\ misread' /\ hosts' # hosts)]_vars

\* The three routines keep the promise of ReadyContract, as the steps of
\* ControlPlane do: seen from outside, "ready" is announced only when each of
\* them has rolled out the spec as it is, and nothing of it moves until it is
\* taken back.  A pass that misread NATS's server certificates makes no such
\* promise: its "ready" does not count.
Contract == INSTANCE ReadyContract WITH
              Components <- Routines,
              Values <- Specs,
              Nothing <- NoTemplate,
              Mixed <- [mixed |-> TRUE],
              wanted <- spec,
              ready <- ready /\ ~misread,
              deployed <- [c \in Routines |->
                             IF Done(c) THEN cp ELSE [mixed |-> TRUE]]
KeepsContract == Contract!Spec

\* The key that encrypts JetStream's storage is never replaced: not by a pass
\* that reads it through a lagging cache, nor after a crash.
KeyIsKept == [][(jsKey \in Keys) => (jsKey' = jsKey)]_vars

\* server.conf never has another key than the secret, nor an empty one.
ConfUsesKey == confKey # "none" => confKey = jsKey /\ confKey \in Keys

\* What the code relies on the owner and the namespace for.
HasAddress(name, type) ==
  type = "LoadBalancer" =>
    \A t \in ServiceTypes \ {"LoadBalancer"} : ~ServiceIs(name, t)

WellFormed ==
  /\ spec.routerType = "LoadBalancer" \/ spec.routerAddress
  /\ spec.pullSecret \in {"none", "usable"}
  /\ spec.nats => jsKey # "empty"
  /\ HasAddress("router", spec.routerType)
  /\ HasAddress("controller", spec.controllerType)
  /\ spec.nats => HasAddress("nats", spec.natsType)

\* Although the Controller's routine waits for what the router's creates, and
\* NATS's for the Controller, a ControlPlane whose spec can be met is ready in
\* the end and stays so, once edits, outages and crashes are over.
ComesUp == <>[]WellFormed => <>[]ready

\* A pass always ends, however long a load balancer takes: no routine waits
\* for another or for the cloud for ever.
EveryPassEnds ==
  (\E c \in Routines : at[c] # "off") ~> (\A c \in Routines : at[c] = "off")

\* What "Restart pod" (reconcile.go:92) is for: a ready Controller uses the
\* database credentials of the spec.
ReadyUsesCredentials ==
  (ready /\ api /\ ~rollout /\ template.externalDb) => using.db = spec.db
=============================================================================
