--------------------------- MODULE BringupProofs ---------------------------
(***************************************************************************)
(* The inductive invariant of Bringup and what follows from it, for any    *)
(* specs and edits of them, any keys, and any number of late informers,    *)
(* faults and crashes.                                                     *)
(***************************************************************************)
EXTENDS Bringup, SequenceTheorems, FiniteSetTheorems, TLAPS

\* A sequence of objects.
List(objects) == objects \in Seq(Elements(objects))

-----------------------------------------------------------------------------
(***************************************************************************)
(* The inductive invariant.                                                *)
(***************************************************************************)
\* The objects that pods refer to the parts of, and that have the same parts
\* whatever the spec.
Fixed ==
  {AuthSecret, DbSecret, JetStreamKey,
   ObjectWith("Secret", "nats-creds-sys-admin-hub", {"admin-hub.creds"}),
   ObjectWith("ConfigMap", "iofog-router", {"skrouterd.json"})}

PartsInv == \A o \in Fixed : IsStored(o) => stored[Id(o)] = o.parts

\* The key is in a secret, and server.conf has it.
KeyInv == (jsKey # "none" => IsStored(JetStreamKey)) /\ ConfUsesKey

\* A Deployment has a template.
TemplateInv ==
  IsStored(ControllerDeployment) => template.externalDb \in BOOLEAN

\* What the Controller's routine has done when it has come to a step.
ControllerInv ==
  LET step == at["controller"]
      last == {"address", "finish", "continue"}
  IN  /\ step \in {"deploy", "client", "proxy", "register", "hub", "import"} \cup last
           => ControllerHas
      /\ step \in {"client", "proxy", "register", "hub", "import"} \cup last
           => template = PodTemplate(cp)
      /\ step \in {"hub", "import"} \cup last => KnowsRouter
      /\ step \in {"import"} \cup last => KnowsHub
      /\ step \in last => KnowsCAs

\* The same for the router, and a Deployment has its files.
RouterInv ==
  LET step == at["router"]
  IN  /\ step \in {"address", "files", "deploy", "continue"}
           => AllStored(RouterObjects(cp))
      /\ step = "deploy" => AllStored(RouterFiles)
      /\ step = "continue" => IsStored(Deployment("router"))
      /\ IsStored(Deployment("router")) => AllStored(RouterFiles)

\* NATS's part of a spec, all but its server certificates.
NatsRest ==
  /\ IsStored(NatsSet) /\ confKey \in Keys
  /\ AllStored(NatsObjects(cp)) /\ NatsFiles

\* The same for NATS.
NatsInv ==
  LET step == at["nats"]
      last == {"replicas", "certificates", "servers", "config", "deploy"}
  IN  /\ step \in {"key", "objects", "address"} \cup last
           => AllStored(BootstrapSecrets)
      /\ step \in {"objects", "address"} \cup last => jsKey \in Keys
      /\ step \in {"address"} \cup last => AllStored(NatsObjects(cp))
      /\ step \in {"servers", "config", "deploy"} => AllStored(NatsCAs)
      /\ step = "deploy" => AllStored(NatsConfigMaps) /\ confKey \in Keys
      /\ step = "continue" => (cp.nats => NatsRest)
      /\ IsStored(NatsSet) => NatsFiles

\* The server certificates are those of the pass's spec.
ServersDone == hosts[SiteServer] = NatsReplicas(cp) /\ hosts[MqttServer] # 0

\* What a pass that read them as they are has made of them.
CertInv ==
  LET step == at["nats"]
  IN  /\ (step \in {"certificates", "servers"} /\ ~misread)
           => hosts[SiteServer] \in {0, NatsReplicas(cp)}
      /\ (step \in {"config", "deploy", "continue"} /\ cp.nats /\ ~misread)
           => ServersDone

\* Nothing is undone while the ControlPlane is ready.
ReadyInv ==
  ready =>
    /\ cp = spec /\ \A c \in Routines : at[c] = "off"
    /\ ControllerDone /\ RouterDone /\ (cp.nats => NatsRest)
    /\ (cp.nats /\ ~misread) => ServersDone

IInv ==
  /\ TypeOK /\ PartsInv /\ KeyInv /\ TemplateInv /\ IsStored(OwnersCertificate)
  /\ ControllerInv /\ RouterInv /\ NatsInv /\ CertInv /\ ReadyInv

\* The certificates are what is left of NATS's part.
LEMMA PartsOfNats == NatsDone <=> NatsRest /\ ServersDone
BY DEF NatsDone, NatsRest, ServersDone
-----------------------------------------------------------------------------
(***************************************************************************)
(* Lists of objects.                                                       *)
(***************************************************************************)
\* A list of one object.
LEMMA OneObject ==
  ASSUME NEW o
  PROVE  List(<<o>>) /\ Elements(<<o>>) = {o}
<1>1. Elements(<<o>>) = {o}
  BY DEF Elements
<1> QED BY <1>1 DEF List

\* A list of none.
LEMMA NoObject == List(<< >>) /\ Elements(<< >>) = {}
BY DEF List, Elements

\* A list of an object that depends on the spec.
LEMMA OptionalObject ==
  ASSUME NEW cond, NEW o
  PROVE  /\ List(Opt(cond, o))
         /\ Elements(Opt(cond, o)) = {x \in {o} : cond}
<1>1. CASE cond
  BY <1>1, OneObject DEF Opt
<1>2. CASE ~cond
  BY <1>2, NoObject DEF Opt
<1> QED BY <1>1, <1>2

\* The objects of two lists one after the other are those of both.
LEMMA BothLists ==
  ASSUME NEW s, NEW t, List(s), List(t)
  PROVE  List(s \o t) /\ Elements(s \o t) = Elements(s) \cup Elements(t)
<1> DEFINE S == Elements(s) \cup Elements(t)
<1>1. s \in Seq(S) /\ t \in Seq(S)
  BY SeqMonotonic DEF List
<1> DEFINE u == s \o t
<1>2. /\ u \in Seq(S)
      /\ Len(u) = Len(s) + Len(t)
      /\ \A i \in 1..Len(s) : u[i] = s[i]
      /\ \A i \in Len(s) + 1..Len(s) + Len(t) : u[i] = t[i - Len(s)]
  BY <1>1, ConcatProperties
<1>3. /\ DOMAIN s = 1..Len(s) /\ DOMAIN t = 1..Len(t) /\ DOMAIN u = 1..Len(u)
      /\ Len(s) \in Nat /\ Len(t) \in Nat /\ Len(u) \in Nat
  BY <1>1, <1>2, LenProperties
<1>4. Elements(u) \subseteq S
  BY <1>2, <1>3, ElementOfSeq DEF Elements
<1>5. Elements(s) \subseteq Elements(u)
  <2>1. ASSUME NEW i \in DOMAIN s PROVE i \in DOMAIN u /\ s[i] = u[i]
    <3> HIDE DEF u
    <3> QED BY <1>2, <1>3, <2>1
  <2> HIDE DEF u
  <2> QED BY <2>1 DEF Elements
<1>6. Elements(t) \subseteq Elements(u)
  <2>1. ASSUME NEW i \in DOMAIN t
        PROVE  Len(s) + i \in DOMAIN u /\ t[i] = u[Len(s) + i]
    <3> HIDE DEF u
    <3> QED BY <1>2, <1>3, <2>1
  <2> HIDE DEF u
  <2> QED BY <2>1 DEF Elements
<1>7. Elements(u) = S
  BY <1>4, <1>5, <1>6
<1> HIDE DEF u
<1>8. u \in Seq(Elements(u))
  BY <1>2, <1>7
<1> QED BY <1>7, <1>8 DEF List, u

\* The objects of the first part of a list are some of its objects.
LEMMA FirstObjects ==
  ASSUME NEW s, List(s), NEW n \in Nat, n <= Len(s)
  PROVE  Elements(SubSeq(s, 1, n)) \subseteq Elements(s)
<1> DEFINE u == SubSeq(s, 1, n)
<1>1. s \in Seq(Elements(s)) /\ DOMAIN s = 1..Len(s) /\ Len(s) \in Nat
  BY LenProperties DEF List
<1>2. Len(u) = n /\ u \in Seq(Elements(s))
  BY <1>1, SubSeqProperties
<1>3. DOMAIN u = 1..n
  BY <1>2, LenProperties
<1> HIDE DEF u
<1> QED BY <1>2, <1>3, ElementOfSeq DEF Elements, u

-----------------------------------------------------------------------------
(***************************************************************************)
(* What storing objects does.                                              *)
(***************************************************************************)

\* The objects that are rewritten when they exist.
Rewritten(o) == o.name \in {DbCredentials, VaultCredentials}

\* The objects of E are stored.  No object is removed, and one that existed
\* keeps its parts unless it is one of those that are rewritten.
Wrote(E) ==
  /\ DOMAIN stored' = DOMAIN stored \cup Ids(E)
  /\ \A id \in DOMAIN stored :
       (\A o \in E : Rewritten(o) => Id(o) # id) => stored'[id] = stored[id]
  /\ \A id \in DOMAIN stored' :
       \/ id \in DOMAIN stored /\ stored'[id] = stored[id]
       \/ \E o \in E : Id(o) = id /\ stored'[id] = o.parts
  /\ \A o \in E :
       Rewritten(o) => \E p \in E : Id(p) = Id(o) /\ stored'[Id(o)] = p.parts

\* The objects of W come first.
LEMMA WithEffect ==
  ASSUME NEW W
  PROVE  /\ DOMAIN With(W) = DOMAIN stored \cup Ids(W)
         /\ \A id \in DOMAIN stored \ Ids(W) : With(W)[id] = stored[id]
         /\ \A id \in Ids(W) : \E o \in W : Id(o) = id /\ With(W)[id] = o.parts
<1>1. \A id \in Ids(W) : \E o \in W : Id(o) = id
  BY DEF Ids
<1>2. ASSUME NEW id \in Ids(W)
      PROVE  \E o \in W : Id(o) = id /\ With(W)[id] = o.parts
  <2> DEFINE c == CHOOSE o \in W : Id(o) = id
  <2>1. c \in W /\ Id(c) = id
    BY <1>1
  <2>2. With(W)[id] = c.parts
    BY DEF With, Ids
  <2> HIDE DEF c
  <2> QED BY <2>1, <2>2
<1>3. /\ DOMAIN With(W) = DOMAIN stored \cup Ids(W)
      /\ \A id \in DOMAIN stored \ Ids(W) : With(W)[id] = stored[id]
  BY DEF With, Ids
<1> QED BY <1>2, <1>3

\* Store does that for a list.
LEMMA StoreEffect ==
  ASSUME NEW objects, Store(objects)
  PROVE  Wrote(Elements(objects))
<1> DEFINE E == Elements(objects)
           W == {o \in E : ~IsStored(o) \/ Rewritten(o)}
<1>1. stored' = With(W)
  BY DEF Store, Rewritten
<1> HIDE DEF E
<1>2. /\ DOMAIN stored' = DOMAIN stored \cup Ids(W)
      /\ \A id \in DOMAIN stored \ Ids(W) : stored'[id] = stored[id]
      /\ \A id \in Ids(W) : \E o \in W : Id(o) = id /\ stored'[id] = o.parts
  BY <1>1, WithEffect
<1>3. DOMAIN stored \cup Ids(W) = DOMAIN stored \cup Ids(E)
  BY DEF Ids, IsStored
<1>4. ASSUME NEW id \in DOMAIN stored, \A o \in E : Rewritten(o) => Id(o) # id
      PROVE  stored'[id] = stored[id]
  <2>1. id \notin Ids(W)
    BY <1>4 DEF Ids, IsStored
  <2> QED BY <2>1, <1>2, <1>4
<1>5. ASSUME NEW id \in DOMAIN stored'
      PROVE  \/ id \in DOMAIN stored /\ stored'[id] = stored[id]
             \/ \E o \in E : Id(o) = id /\ stored'[id] = o.parts
  BY <1>2, <1>5
<1>6. ASSUME NEW o \in E, Rewritten(o)
      PROVE  \E p \in E : Id(p) = Id(o) /\ stored'[Id(o)] = p.parts
  <2>1. Id(o) \in Ids(W)
    BY <1>6 DEF Ids
  <2> QED BY <2>1, <1>2
<1> QED BY <1>2, <1>3, <1>4, <1>5, <1>6 DEF Wrote, E
-----------------------------------------------------------------------------
(***************************************************************************)
(* The lists of each routine.                                              *)
(***************************************************************************)

\* No workload is among the objects, and those that pods refer to the parts
\* of have them.
Plain(E) ==
  /\ \A o \in E : o.kind \notin {"Deployment", "StatefulSet"}
  /\ \A o \in E : \A f \in Fixed : Id(o) = Id(f) => o.parts = f.parts

\* No credentials are.
NoneRewritten(E) == \A o \in E : ~Rewritten(o)

\* The account, when it is usable, and its role.
LEMMA AccessObjects ==
  ASSUME NEW s \in ControlPlaneSpec, NEW name
  PROVE  /\ List(Access(s, name))
         /\ Elements(Access(s, name)) =
              {o \in {Object("ServiceAccount", name)} :
                 s.pullSecret \in {"none", "usable"}}
              \cup {Object("Role", name), Object("RoleBinding", name)}
<1> DEFINE rest == <<Object("Role", name), Object("RoleBinding", name)>>
<1>1. Elements(rest) = {Object("Role", name), Object("RoleBinding", name)}
  BY DEF Elements
<1>2. List(rest)
  BY <1>1 DEF List
<1> DEFINE cond == s.pullSecret \in {"none", "usable"}
           account == Object("ServiceAccount", name)
<1> HIDE DEF rest, cond, account
<1>3. /\ List(Opt(cond, account))
      /\ Elements(Opt(cond, account)) = {o \in {account} : cond}
  BY OptionalObject
<1>4. Access(s, name) = Opt(cond, account) \o rest
  BY DEF Access, Account, rest, cond, account
<1>5. /\ List(Access(s, name))
      /\ Elements(Access(s, name)) =
           {o \in {account} : cond}
           \cup {Object("Role", name), Object("RoleBinding", name)}
  BY <1>1, <1>2, <1>3, <1>4, BothLists
<1> QED BY <1>5 DEF cond, account

\* A service is one object.
LEMMA ServiceObject ==
  ASSUME NEW name, NEW type, NEW policy
  PROVE  /\ List(Service(name, type, policy))
         /\ \E o : /\ o.kind = "Service" /\ o.name = name
                   /\ Elements(Service(name, type, policy)) = {o}
<1> DEFINE o == ObjectWith("Service", name,
                           {type, TrafficPolicy(type, policy)} \ {""})
<1>1. o.kind = "Service" /\ o.name = name
  BY DEF ObjectWith
<1> HIDE DEF o
<1>2. Service(name, type, policy) = <<o>>
  BY DEF Service, o
<1> QED BY <1>1, <1>2, OneObject

\* What the fixed objects are called.
LEMMA NamesOfFixed ==
  ASSUME NEW f \in Fixed
  PROVE  /\ f.kind \in {"Secret", "ConfigMap"}
         /\ f.name \in {AuthCredentials, DbCredentials, "nats-jetstream-key",
                        "nats-creds-sys-admin-hub", "iofog-router"}
BY DEF Fixed, ObjectWith, AuthSecret, DbSecret, JetStreamKey

\* The lists of the router.
LEMMA RouterLists ==
  ASSUME NEW s \in ControlPlaneSpec
  PROVE  /\ List(RouterObjects(s)) /\ List(RouterFiles)
         /\ Plain(Elements(RouterObjects(s))) /\ Plain(Elements(RouterFiles))
         /\ NoneRewritten(Elements(RouterObjects(s)))
         /\ NoneRewritten(Elements(RouterFiles))
         /\ s.pullSecret \in {"none", "usable"} =>
              Object("ServiceAccount", "router") \in Elements(RouterObjects(s))
<1>1. /\ List(RouterObjects(s)) /\ Plain(Elements(RouterObjects(s)))
      /\ NoneRewritten(Elements(RouterObjects(s)))
      /\ s.pullSecret \in {"none", "usable"} =>
           Object("ServiceAccount", "router") \in Elements(RouterObjects(s))
  <2> DEFINE access == Access(s, "router")
             service == Service("router", WithDefault(s.routerType), s.policy)
  <2>1. List(access) /\ List(service)
    BY AccessObjects, ServiceObject
  <2>2. PICK o : /\ o.kind = "Service" /\ o.name = "router"
                 /\ Elements(service) = {o}
    BY ServiceObject
  <2>3. \A x \in Elements(access) :
          x.name = "router" /\ x.kind \in {"ServiceAccount", "Role", "RoleBinding"}
    BY AccessObjects DEF Object
  <2>6. s.pullSecret \in {"none", "usable"} =>
          Object("ServiceAccount", "router") \in Elements(access)
    BY AccessObjects
  <2> HIDE DEF access, service
  <2>4. RouterObjects(s) = access \o service
    BY DEF RouterObjects, access, service
  <2>5. /\ List(RouterObjects(s))
        /\ Elements(RouterObjects(s)) = Elements(access) \cup {o}
    BY <2>1, <2>2, <2>4, BothLists
  <2> QED BY <2>2, <2>3, <2>5, <2>6, NamesOfFixed DEF Plain, NoneRewritten,
             Rewritten, Id, DbCredentials, VaultCredentials
<1>2. Elements(RouterFiles) =
        {Object("Secret", "router-site-ca"),
         Object("Secret", "default-router-local-ca"),
         Object("Secret", "router-site-server"),
         Object("Secret", "router-local-server"),
         ObjectWith("ConfigMap", "iofog-router", {"skrouterd.json"})}
  BY DEF Elements, RouterFiles
<1>3. List(RouterFiles)
  BY <1>2 DEF List, RouterFiles
<1>4. Plain(Elements(RouterFiles)) /\ NoneRewritten(Elements(RouterFiles))
  BY <1>2 DEF Plain, NoneRewritten, Rewritten, Fixed, Id, Object, ObjectWith,
     AuthSecret, DbSecret, JetStreamKey, AuthCredentials, DbCredentials,
     VaultCredentials
<1> QED BY <1>1, <1>3, <1>4

\* The lists of NATS.
LEMMA NatsLists ==
  ASSUME NEW s \in ControlPlaneSpec
  PROVE  /\ List(NatsObjects(s)) /\ List(BootstrapSecrets)
         /\ List(NatsCAs) /\ List(NatsConfigMaps)
         /\ Plain(Elements(NatsObjects(s))) /\ Plain(Elements(BootstrapSecrets))
         /\ Plain(Elements(NatsCAs)) /\ Plain(Elements(NatsConfigMaps))
         /\ NoneRewritten(Elements(NatsObjects(s)))
         /\ NoneRewritten(Elements(BootstrapSecrets))
         /\ NoneRewritten(Elements(NatsCAs))
         /\ NoneRewritten(Elements(NatsConfigMaps))
         /\ s.pullSecret \in {"none", "usable"} =>
              Object("ServiceAccount", "nats") \in Elements(NatsObjects(s))
<1>1. /\ List(NatsObjects(s)) /\ Plain(Elements(NatsObjects(s)))
      /\ NoneRewritten(Elements(NatsObjects(s)))
      /\ s.pullSecret \in {"none", "usable"} =>
           Object("ServiceAccount", "nats") \in Elements(NatsObjects(s))
  <2> DEFINE access == Access(s, "nats")
             headless == Service("nats-headless", "ClusterIP", "")
             nats == Service("nats", WithDefault(s.natsType), s.policy)
             server == Service("nats-server", WithDefault(s.natsServerType), s.policy)
  <2>1. List(access) /\ List(headless) /\ List(nats) /\ List(server)
    BY AccessObjects, ServiceObject
  <2>2. \A x \in Elements(access) :
          x.name = "nats" /\ x.kind \in {"ServiceAccount", "Role", "RoleBinding"}
    BY AccessObjects DEF Object
  <2>8. s.pullSecret \in {"none", "usable"} =>
          Object("ServiceAccount", "nats") \in Elements(access)
    BY AccessObjects
  <2>3. \A x \in Elements(headless) : x.name = "nats-headless" /\ x.kind = "Service"
    <3> DEFINE none == ""
               type == "ClusterIP"
               name == "nats-headless"
    <3> HIDE DEF none, type, name
    <3>1. \A x \in Elements(Service(name, type, none)) :
            x.name = name /\ x.kind = "Service"
      BY ServiceObject
    <3> QED BY <3>1 DEF none, type, name
  <2>4. \A x \in Elements(nats) : x.name = "nats" /\ x.kind = "Service"
    BY ServiceObject
  <2>5. \A x \in Elements(server) : x.name = "nats-server" /\ x.kind = "Service"
    BY ServiceObject
  <2> HIDE DEF access, headless, nats, server
  <2>6. NatsObjects(s) = ((access \o headless) \o nats) \o server
    BY DEF NatsObjects, access, headless, nats, server
  <2>7. /\ List(NatsObjects(s))
        /\ Elements(NatsObjects(s)) =
             Elements(access) \cup Elements(headless)
               \cup Elements(nats) \cup Elements(server)
    BY <2>1, <2>6, BothLists
  <2> QED BY <2>2, <2>3, <2>4, <2>5, <2>7, <2>8, NamesOfFixed
          DEF Plain, NoneRewritten, Rewritten, Id, DbCredentials, VaultCredentials
<1>2. /\ Elements(BootstrapSecrets) =
           {ObjectWith("Secret", "nats-operator-seed", {"seed"}),
            ObjectWith("Secret", "nats-creds-sys-admin-hub", {"admin-hub.creds"})}
      /\ Elements(NatsCAs) =
           {Object("Secret", "nats-site-ca"), Object("Secret", "default-nats-local-ca")}
      /\ Elements(NatsConfigMaps) =
           {Object("ConfigMap", "iofog-nats-config"),
            Object("ConfigMap", "iofog-nats-jwt-bundle")}
  BY DEF Elements, BootstrapSecrets, NatsCAs, NatsConfigMaps
<1>3. List(BootstrapSecrets) /\ List(NatsCAs) /\ List(NatsConfigMaps)
  BY <1>2 DEF List, BootstrapSecrets, NatsCAs, NatsConfigMaps
<1>4. Plain(Elements(BootstrapSecrets)) /\ NoneRewritten(Elements(BootstrapSecrets))
  BY <1>2 DEF Plain, NoneRewritten, Rewritten, Fixed, Id, Object, ObjectWith,
     AuthSecret, DbSecret, JetStreamKey, AuthCredentials, DbCredentials,
     VaultCredentials
<1>5. /\ Plain(Elements(NatsCAs)) /\ NoneRewritten(Elements(NatsCAs))
      /\ Plain(Elements(NatsConfigMaps)) /\ NoneRewritten(Elements(NatsConfigMaps))
  <2>1. \A o \in Elements(NatsCAs) \cup Elements(NatsConfigMaps) :
          /\ o.kind \in {"Secret", "ConfigMap"}
          /\ o.name \in {"nats-site-ca", "default-nats-local-ca",
                         "iofog-nats-config", "iofog-nats-jwt-bundle"}
    BY <1>2 DEF Object
  <2> QED BY <2>1, NamesOfFixed DEF Plain, NoneRewritten, Rewritten, Id,
             AuthCredentials, DbCredentials, VaultCredentials
<1> QED BY <1>1, <1>3, <1>4, <1>5

\* The list of the Controller: the credentials of the vault have its keys.
LEMMA ControllerList ==
  ASSUME NEW s \in ControlPlaneSpec
  PROVE  /\ List(ControllerObjects(s)) /\ Plain(Elements(ControllerObjects(s)))
         /\ {DbSecret, AuthSecret, Object("Role", "controller")}
              \subseteq Elements(ControllerObjects(s))
         /\ s.pullSecret \in {"none", "usable"} =>
              Object("ServiceAccount", "controller") \in Elements(ControllerObjects(s))
         /\ ~s.externalDb =>
              Object("PersistentVolumeClaim", "controller-sqlite")
                \in Elements(ControllerObjects(s))
         /\ VaultKeys(s.vault) # {} =>
              ObjectWith("Secret", VaultCredentials, VaultKeys(s.vault))
                \in Elements(ControllerObjects(s))
         /\ \A o \in Elements(ControllerObjects(s)) :
              Id(o) = VaultId => o.parts = VaultKeys(s.vault)
<1> DEFINE access == Access(s, "controller")
           vaultSecret == ObjectWith("Secret", VaultCredentials, VaultKeys(s.vault))
           vault == VaultSecret(s)
           secrets == <<DbSecret, AuthSecret>>
           service == ControllerService(s)
           ingress == Opt(s.controllerType = "ClusterIP",
                          Object("Ingress", "pot-controller"))
           claims == ControllerClaims(s)
           E == Elements(access) \cup {DbSecret, AuthSecret} \cup Elements(vault)
                  \cup Elements(service) \cup Elements(ingress) \cup Elements(claims)
<1>1. /\ List(access)
      /\ Elements(access) =
           {o \in {Object("ServiceAccount", "controller")} :
              s.pullSecret \in {"none", "usable"}}
           \cup {Object("Role", "controller"), Object("RoleBinding", "controller")}
  BY AccessObjects
<1>2. /\ List(vault)
      /\ Elements(vault) = {o \in {vaultSecret} : VaultKeys(s.vault) # {}}
  BY OptionalObject DEF VaultSecret
<1>3. /\ List(<<DbSecret>>) /\ Elements(<<DbSecret>>) = {DbSecret}
      /\ List(secrets) /\ Elements(secrets) = {DbSecret, AuthSecret}
  <2>1. Elements(secrets) = {DbSecret, AuthSecret}
    BY DEF Elements
  <2> QED BY <2>1, OneObject DEF List
<1>4. /\ List(service)
      /\ \A o \in Elements(service) : o.kind = "Service" /\ o.name = "controller"
  BY ServiceObject DEF ControllerService
<1>5. /\ List(ingress)
      /\ \A o \in Elements(ingress) : o.kind = "Ingress"
  BY OptionalObject DEF Object
<1>6. /\ List(claims)
      /\ Elements(claims) =
           {o \in {Object("PersistentVolumeClaim", "controller-sqlite")} : ~s.externalDb}
  BY OptionalObject DEF ControllerClaims
<1>7. List(ControllerObjects(s)) /\ Elements(ControllerObjects(s)) = E
  <2> HIDE DEF access, vault, secrets, service, ingress, claims
  <2>1. ControllerObjects(s) =
          ((((((access \o <<DbSecret>>) \o vault) \o secrets) \o vault) \o service)
             \o ingress) \o claims
    BY DEF ControllerObjects, access, vault, secrets, service, ingress, claims
  <2>2. /\ List((access \o <<DbSecret>>) \o vault)
        /\ Elements((access \o <<DbSecret>>) \o vault) =
             Elements(access) \cup {DbSecret} \cup Elements(vault)
    BY <1>1, <1>2, <1>3, BothLists
  <2> DEFINE front == (access \o <<DbSecret>>) \o vault
  <2> HIDE DEF front
  <2>3. /\ List((front \o secrets) \o vault)
        /\ Elements((front \o secrets) \o vault) =
             Elements(access) \cup {DbSecret, AuthSecret} \cup Elements(vault)
    BY <2>2, <1>2, <1>3, BothLists DEF front
  <2> DEFINE middle == (front \o secrets) \o vault
  <2> HIDE DEF middle
  <2>4. /\ List(((middle \o service) \o ingress) \o claims)
        /\ Elements(((middle \o service) \o ingress) \o claims) = E
    BY <2>3, <1>4, <1>5, <1>6, BothLists DEF middle
  <2> QED BY <2>1, <2>4 DEF middle, front
<1> HIDE DEF access, vault, secrets, service, ingress, claims
<1>8. Plain(E)
  <2>1. Plain(Elements(access)) /\ Plain(Elements(service))
        /\ Plain(Elements(ingress)) /\ Plain(Elements(claims))
    BY <1>1, <1>4, <1>5, <1>6, NamesOfFixed DEF Plain, Id, Object
  <2>2. Plain(Elements(vault))
    <3>1. \A o \in Elements(vault) : o.kind = "Secret" /\ o.name = VaultCredentials
      BY <1>2 DEF ObjectWith
    <3> QED BY <3>1, NamesOfFixed DEF Plain, Id, AuthCredentials, DbCredentials,
               VaultCredentials
  <2>3. Plain({DbSecret, AuthSecret})
    BY DEF Plain, Fixed, Id, ObjectWith, AuthSecret, DbSecret, JetStreamKey,
       AuthCredentials, DbCredentials
  <2> QED BY <2>1, <2>2, <2>3 DEF Plain
<1>9. \A o \in E : Id(o) = VaultId => o.parts = VaultKeys(s.vault)
  BY <1>1, <1>2, <1>4, <1>5, <1>6 DEF Id, VaultId, Object, ObjectWith,
     AuthSecret, DbSecret, AuthCredentials, DbCredentials, VaultCredentials
<1> QED BY <1>1, <1>2, <1>6, <1>7, <1>8, <1>9
-----------------------------------------------------------------------------
(***************************************************************************)
(* Steps of the routines.                                                  *)
(***************************************************************************)

\* Creating objects that are stored then leaves one object behind at most.
LEMMA CreatingEffect ==
  ASSUME TypeOK, NEW new, NEW n \in Nat, Creating(new, n),
         DOMAIN stored \subseteq DOMAIN stored', Ids(new) \subseteq DOMAIN stored'
  PROVE  /\ Cardinality(behind') <= 1 /\ behind' \subseteq DOMAIN stored'
         /\ events' \in 0..MaxEvents
<1>1. PICK late \in SUBSET Lagging :
        /\ late = {} \/ (behind = {} /\ Cardinality(late) = 1)
        /\ late \subseteq Ids(new)
        /\ behind' = behind \cup late
        /\ Happen(n + Cardinality(late))
  BY DEF Creating, Ids
<1>2. Cardinality(late) \in {0, 1}
  BY <1>1, FS_EmptySet
<1>3. events' \in 0..MaxEvents
  BY <1>1, <1>2, BoundsAssumption DEF Happen, TypeOK
<1>4. behind' = behind \/ (behind' = late /\ Cardinality(late) = 1)
  BY <1>1
<1>5. Cardinality(behind') <= 1
  BY <1>4 DEF TypeOK
<1>6. behind' \subseteq DOMAIN stored'
  BY <1>1 DEF TypeOK
<1> QED BY <1>3, <1>5, <1>6

\* What Save leaves alone, and what it writes.
LEMMA SaveEffect ==
  ASSUME TypeOK, NEW objects, NEW n \in Nat, Save(objects, n)
  PROVE  /\ UNCHANGED <<hosts, outdated, jsKey, confKey, template, addresses,
                        using, moved, known, api, rollout>>
         /\ Wrote(Elements(objects))
         /\ credentials' = IF DbSecret \in Elements(objects) THEN cp.db
                                                             ELSE credentials
         /\ Cardinality(behind') <= 1 /\ behind' \subseteq DOMAIN stored'
         /\ events' \in 0..MaxEvents
<1>1. Wrote(Elements(objects))
  BY StoreEffect DEF Save
<1>2. DOMAIN stored \subseteq DOMAIN stored'
      /\ Ids(Created(objects)) \subseteq DOMAIN stored'
  BY <1>1 DEF Wrote, Ids, Created
<1>3. Creating(Created(objects), n)
  BY DEF Save
<1> QED BY <1>1, <1>2, <1>3, CreatingEffect DEF Save, certificates, outside

\* Ensure stores all of the list and goes on, or some of it and fails.
LEMMA EnsureEffect ==
  ASSUME TypeOK, NEW c \in Routines, NEW list, List(list), NEW from, NEW to,
         Ensure(c, list, from, to)
  PROVE  /\ at[c] = from
         /\ UNCHANGED <<spec, ready, cp, hosts, outdated, misread, jsKey, confKey,
                        template, addresses, using, moved, known, api, rollout>>
         /\ Cardinality(behind') <= 1 /\ behind' \subseteq DOMAIN stored'
         /\ events' \in 0..MaxEvents
         /\ \E E \in SUBSET Elements(list) :
              /\ Wrote(E)
              /\ credentials' = IF DbSecret \in E THEN cp.db ELSE credentials
              /\ \/ /\ at' = [at EXCEPT ![c] = to]
                    /\ E = Elements(list) /\ ~NoPullSecret(list)
                 \/ at' = [at EXCEPT ![c] = "error"]
<1>1. at[c] = from
  BY DEF Ensure
<1>2. CASE EnsureAll(c, list, from, to)
  <2>1. Save(list, 0) /\ Go(c, from, to) /\ ~NoPullSecret(list)
    BY <1>2 DEF EnsureAll
  <2> QED BY <1>1, <2>1, SaveEffect DEF Go
<1>3. CASE EnsureStops(c, list, from)
  <2>1. Go(c, from, "error")
    BY <1>3 DEF EnsureStops
  <2>2. PICK i \in DOMAIN list :
          \/ Save(SubSeq(list, 1, i - 1), 0)
          \/ Save(SubSeq(list, 1, i - 1), 1)
          \/ Save(SubSeq(list, 1, i), 1)
    BY <1>3 DEF EnsureStops
  <2>3. DOMAIN list = 1..Len(list) /\ Len(list) \in Nat
    BY LenProperties DEF List
  <2>4. PICK k \in Nat, n \in {0, 1} : k <= Len(list) /\ Save(SubSeq(list, 1, k), n)
    BY <2>2, <2>3
  <2>5. Elements(SubSeq(list, 1, k)) \subseteq Elements(list)
    BY <2>4, FirstObjects
  <2> DEFINE part == SubSeq(list, 1, k)
  <2> HIDE DEF part
  <2>6. Save(part, n) /\ Elements(part) \subseteq Elements(list)
    BY <2>4, <2>5 DEF part
  <2> QED BY <1>1, <2>1, <2>6, SaveEffect DEF Go
<1> QED BY <1>2, <1>3 DEF Ensure

\* The fixed objects keep their parts.
LEMMA PartsKept ==
  ASSUME PartsInv, NEW E, Wrote(E),
         \A o \in E : \A f \in Fixed : Id(o) = Id(f) => o.parts = f.parts
  PROVE  PartsInv'
<1> SUFFICES ASSUME NEW f \in Fixed, Id(f) \in DOMAIN stored'
             PROVE  stored'[Id(f)] = f.parts
  BY DEF PartsInv, IsStored, Id, Fixed
<1>1. CASE Id(f) \in DOMAIN stored /\ stored'[Id(f)] = stored[Id(f)]
  BY <1>1 DEF PartsInv, IsStored
<1>2. CASE \E o \in E : Id(o) = Id(f) /\ stored'[Id(f)] = o.parts
  BY <1>2
<1> QED BY <1>1, <1>2 DEF Wrote

\* A step of routine c that stores the objects of E, none perhaps: what is
\* its own to change and what it leaves alone.
StepOf(c, E) ==
  /\ at[c] \in StepsOf[c]
  /\ \E to \in StepsOf[c] \cup Ended : at' = [at EXCEPT ![c] = to]
  /\ UNCHANGED <<spec, ready, cp, moved, using, addresses>>
  /\ api' \in BOOLEAN /\ rollout' \in BOOLEAN
  /\ known \subseteq known'
  /\ known' \subseteq {"router", "hub"} \cup known \cup Elements(ImportedCAs(cp))
  /\ Cardinality(behind') <= 1 /\ behind' \subseteq DOMAIN stored'
  /\ events' \in 0..MaxEvents
  /\ {jsKey', confKey'} \subseteq Keys \cup {"none", "empty"}
  /\ credentials' \in {credentials, cp.db}
  /\ template' \in {template, PodTemplate(cp)}
  /\ Wrote(E)
  /\ \A o \in E : \A f \in Fixed : Id(o) = Id(f) => o.parts = f.parts
  /\ Id(ControllerDeployment) \in Ids(E) => template' = PodTemplate(cp)
  /\ c # "controller" => UNCHANGED <<credentials, template>> /\ NoneRewritten(E)
  /\ c # "router" => Id(Deployment("router")) \notin Ids(E)
  /\ c # "nats" => UNCHANGED <<jsKey, confKey>> /\ Id(NatsSet) \notin Ids(E)
  /\ hosts' \in [Servers -> Nat] /\ outdated' \in [Servers -> SUBSET Nat]
  /\ misread' \in BOOLEAN
  /\ \/ hosts' = hosts /\ misread' = misread
     \/ c = "nats" /\ at[c] \in {"replicas", "servers"}

\* The spec of a pass is a spec.
LEMMA SpecOfPass ==
  ASSUME TypeOK
  PROVE  /\ cp \in ControlPlaneSpec /\ spec \in ControlPlaneSpec
         /\ PodTemplate(cp).externalDb \in BOOLEAN /\ cp.db \in Nat
         /\ Elements(ImportedCAs(cp)) \subseteq
              {"router-site-ca", "default-router-local-ca", "nats-site-ca",
               "default-nats-local-ca"}
<1>1. cp \in ControlPlaneSpec /\ spec \in ControlPlaneSpec
  BY SpecsAssumption DEF TypeOK
<1>2. cp.externalDb \in BOOLEAN /\ cp.db \in Nat
  BY <1>1 DEF ControlPlaneSpec
<1>3. Elements(ImportedCAs(cp)) \subseteq
        {"router-site-ca", "default-router-local-ca", "nats-site-ca",
         "default-nats-local-ca"}
  <2>1. CASE cp.nats
    <3> DEFINE router == <<"router-site-ca", "default-router-local-ca">>
               nats == <<"nats-site-ca", "default-nats-local-ca">>
    <3>1. /\ Elements(router) = {"router-site-ca", "default-router-local-ca"}
          /\ Elements(nats) = {"nats-site-ca", "default-nats-local-ca"}
      BY DEF Elements
    <3>2. List(router) /\ List(nats)
      BY <3>1 DEF List
    <3>3. ImportedCAs(cp) = router \o nats
      BY <2>1 DEF ImportedCAs
    <3> HIDE DEF router, nats
    <3> QED BY <3>1, <3>2, <3>3, BothLists
  <2>2. CASE ~cp.nats
    <3> DEFINE router == <<"router-site-ca", "default-router-local-ca">>
    <3>1. Elements(router) = {"router-site-ca", "default-router-local-ca"}
      BY DEF Elements
    <3>2. List(router)
      BY <3>1 DEF List
    <3>3. ImportedCAs(cp) = router \o << >>
      BY <2>2 DEF ImportedCAs
    <3> HIDE DEF router
    <3> QED BY <3>1, <3>2, <3>3, BothLists, NoObject
  <2> QED BY <2>1, <2>2
<1> QED BY <1>1, <1>2, <1>3 DEF PodTemplate

\* A step of a routine keeps the types.
LEMMA StepKeepsType ==
  ASSUME IInv, NEW c \in Routines, NEW E, StepOf(c, E)
  PROVE  TypeOK'
<1>1. TypeOK
  BY DEF IInv
<1>2. DOMAIN at' = Routines
      /\ \A d \in Routines : at'[d] \in StepsOf[d] \cup Ended \cup {"off"}
  BY <1>1 DEF StepOf, TypeOK
<1>3. credentials' \in Nat
  BY <1>1, SpecOfPass DEF StepOf, TypeOK
<1>4. known' \subseteq {"router", "hub", "router-site-ca",
                        "default-router-local-ca", "nats-site-ca",
                        "default-nats-local-ca"}
  BY <1>1, SpecOfPass DEF StepOf, TypeOK
<1> QED BY <1>1, <1>2, <1>3, <1>4 DEF StepOf, TypeOK

\* What another routine does keeps what a routine has done.
LEMMA ControllerKept ==
  ASSUME IInv, NEW c \in Routines \ {"controller"}, NEW E, StepOf(c, E)
  PROVE  ControllerInv'
<1>1. at'["controller"] = at["controller"]
  BY DEF StepOf, IInv, TypeOK, Routines
<1>2. UNCHANGED <<cp, moved, credentials, template>> /\ known \subseteq known'
  BY DEF StepOf
<1>3. DOMAIN stored \subseteq DOMAIN stored'
      /\ \A id \in DOMAIN stored : stored'[id] = stored[id]
  BY DEF StepOf, Wrote, NoneRewritten
<1>4. ControllerHas => ControllerHas'
  <2> SUFFICES ASSUME ControllerHas PROVE ControllerHas'
    OBVIOUS
  <2>1. cp \in ControlPlaneSpec
    BY SpecOfPass DEF IInv
  <2>2. AllStored(ControllerObjects(cp))'
    BY <1>2, <1>3 DEF ControllerHas, AllStored
  <2>3. ASSUME VaultKeys(cp.vault) # {}
        PROVE  stored'[VaultId] = VaultKeys(cp.vault)
    <3>1. VaultId \in Ids(Elements(ControllerObjects(cp)))
      <4> DEFINE v == ObjectWith("Secret", VaultCredentials, VaultKeys(cp.vault))
      <4>1. Id(v) = VaultId
        BY DEF Id, ObjectWith, VaultId
      <4>2. v \in Elements(ControllerObjects(cp))
        BY <2>1, <2>3, ControllerList
      <4> HIDE DEF v
      <4> QED BY <4>1, <4>2 DEF Ids
    <3> QED BY <2>3, <3>1, <1>3 DEF ControllerHas, AllStored
  <2> QED BY <1>2, <2>2, <2>3 DEF ControllerHas
<1>5. /\ KnowsRouter => KnowsRouter'
      /\ KnowsHub => KnowsHub'
      /\ KnowsCAs => KnowsCAs'
  BY <1>2 DEF KnowsRouter, KnowsHub, KnowsCAs
<1>6. template = PodTemplate(cp) => template' = PodTemplate(cp')
  BY <1>2
<1>7. ControllerInv
  BY DEF IInv
<1> HIDE DEF Routines
<1> QED BY <1>1, <1>4, <1>5, <1>6, <1>7 DEF ControllerInv

\* So for the router.
LEMMA RouterKept ==
  ASSUME IInv, NEW c \in Routines \ {"router"}, NEW E, StepOf(c, E)
  PROVE  RouterInv'
<1>1. at'["router"] = at["router"]
  BY DEF StepOf, IInv, TypeOK, Routines
<1>2. DOMAIN stored \subseteq DOMAIN stored'
  BY DEF StepOf, Wrote
<1>3. cp' = cp
  BY DEF StepOf
<1>4. /\ AllStored(RouterObjects(cp)) => AllStored(RouterObjects(cp))'
      /\ AllStored(RouterFiles) => AllStored(RouterFiles)'
      /\ IsStored(Deployment("router")) => IsStored(Deployment("router"))'
  BY <1>2, <1>3 DEF AllStored, IsStored
<1>5. IsStored(Deployment("router"))' => IsStored(Deployment("router"))
  BY DEF StepOf, Wrote, IsStored
<1>6. RouterInv
  BY DEF IInv
<1> HIDE DEF Routines
<1> QED BY <1>1, <1>3, <1>4, <1>5, <1>6 DEF RouterInv

\* So for NATS.
LEMMA NatsKept ==
  ASSUME IInv, NEW c \in Routines \ {"nats"}, NEW E, StepOf(c, E)
  PROVE  NatsInv' /\ CertInv'
<1>1. at'["nats"] = at["nats"]
  BY DEF StepOf, IInv, TypeOK, Routines
<1>2. DOMAIN stored \subseteq DOMAIN stored'
  BY DEF StepOf, Wrote
<1>3. cp' = cp
  BY DEF StepOf
<1>4. jsKey' = jsKey /\ confKey' = confKey
  BY DEF StepOf
<1>5. /\ AllStored(NatsObjects(cp)) => AllStored(NatsObjects(cp))'
      /\ AllStored(BootstrapSecrets) => AllStored(BootstrapSecrets)'
      /\ AllStored(NatsCAs) => AllStored(NatsCAs)'
      /\ AllStored(NatsConfigMaps) => AllStored(NatsConfigMaps)'
      /\ IsStored(NatsSet) => IsStored(NatsSet)'
  BY <1>2, <1>3 DEF AllStored, IsStored
<1>6. IsStored(NatsSet)' => IsStored(NatsSet)
  BY DEF StepOf, Wrote, IsStored
<1>7. (NatsFiles => NatsFiles') /\ (NatsRest => NatsRest')
  BY <1>4, <1>5 DEF NatsFiles, NatsRest
<1>8. NatsInv /\ CertInv
  BY DEF IInv
<1>9. hosts' = hosts /\ misread' = misread
  BY DEF StepOf
<1>10. CertInv'
  BY <1>1, <1>3, <1>8, <1>9 DEF CertInv, ServersDone
<1> HIDE DEF Routines
<1> QED BY <1>1, <1>3, <1>4, <1>5, <1>6, <1>7, <1>8, <1>10 DEF NatsInv

\* What every step of a routine keeps.
LEMMA StepKeeps ==
  ASSUME IInv, NEW c \in Routines, NEW E, StepOf(c, E)
  PROVE  /\ TypeOK' /\ PartsInv' /\ TemplateInv' /\ IsStored(OwnersCertificate)'
         /\ ReadyInv'
         /\ c # "nats" => KeyInv' /\ NatsInv' /\ CertInv'
         /\ c # "controller" => ControllerInv'
         /\ c # "router" => RouterInv'
<1>1. TypeOK'
  BY StepKeepsType
<1>2. PartsInv'
  <2>1. PartsInv /\ Wrote(E)
    BY DEF IInv, StepOf
  <2> QED BY <2>1, PartsKept DEF StepOf
<1>3. TemplateInv'
  <2>1. PodTemplate(cp).externalDb \in BOOLEAN
    BY SpecOfPass DEF IInv
  <2>2. ASSUME (IsStored(ControllerDeployment))' PROVE template'.externalDb \in BOOLEAN
    <3>1. CASE IsStored(ControllerDeployment)
      BY <2>1, <3>1 DEF IInv, TemplateInv, StepOf
    <3>2. CASE ~IsStored(ControllerDeployment)
      <4>1. Id(ControllerDeployment) \in Ids(E)
        BY <2>2, <3>2 DEF StepOf, Wrote, IsStored
      <4> QED BY <2>1, <4>1 DEF StepOf
    <3> QED BY <3>1, <3>2
  <2> QED BY <2>2 DEF TemplateInv
<1>4. IsStored(OwnersCertificate)'
  BY DEF IInv, IsStored, StepOf, Wrote
<1>5. ReadyInv'
  <2>1. at[c] # "off"
    BY DEF StepOf, StepsOf, Routines
  <2>2. ~ready
    BY <2>1 DEF IInv, ReadyInv
  <2> QED BY <2>2 DEF StepOf, ReadyInv
<1>6. c # "nats" => KeyInv'
  BY DEF IInv, KeyInv, ConfUsesKey, IsStored, StepOf, Wrote
<1> QED BY <1>1, <1>2, <1>3, <1>4, <1>5, <1>6, ControllerKept, RouterKept, NatsKept

\* A step that is one call stores nothing.
LEMMA CallIsStep ==
  ASSUME IInv, NEW c \in Routines, NEW from \in StepsOf[c],
         NEW to \in StepsOf[c] \cup Ended, Call(c, from, to),
         known \subseteq known',
         known' \subseteq {"router", "hub"} \cup known \cup Elements(ImportedCAs(cp)),
         events' \in 0..MaxEvents
  PROVE  StepOf(c, {}) /\ at'[c] = to /\ UNCHANGED cluster
<1>1. TypeOK
  BY DEF IInv
<1>2. /\ at[c] = from /\ at' = [at EXCEPT ![c] = to]
      /\ UNCHANGED <<spec, ready, cp, stored, behind, hosts, outdated, misread,
                     jsKey, confKey, credentials, template, api, rollout,
                     addresses, using, moved>>
  BY DEF Call, Go, cluster, certificates
<1>3. Wrote({})
  BY <1>2 DEF Wrote, Ids
<1>4. at'[c] = to
  BY <1>1, <1>2 DEF TypeOK
<1> QED BY <1>1, <1>2, <1>3, <1>4
        DEF StepOf, TypeOK, cluster, certificates, Ids, NoneRewritten

\* Nor does one that waits for a load balancer.
LEMMA WaitIsStep ==
  ASSUME IInv, NEW c \in Routines, NEW from \in StepsOf[c],
         NEW to \in StepsOf[c] \cup Ended, NEW name, WaitOrTimeout(c, name, from, to)
  PROVE  /\ StepOf(c, {}) /\ at[c] = from /\ UNCHANGED <<cluster, known>>
         /\ at'[c] \in {to, "error"}
<1>1. PICK t \in {to, "error"} : Call(c, from, t) /\ UNCHANGED known /\ Unfailing
  BY DEF WaitOrTimeout, Wait, Timeout
<1>2. events' \in 0..MaxEvents
  BY <1>1, BoundsAssumption DEF Unfailing, Happen, IInv, TypeOK
<1>3. t \in StepsOf[c] \cup Ended
  BY DEF Ended, Failed
<1>4. at[c] = from
  BY <1>1 DEF Call, Go
<1> QED BY <1>1, <1>2, <1>3, <1>4, CallIsStep

\* What the routine may store with a list.
OwnList(c, list) ==
  /\ \A o \in Elements(list) : \A f \in Fixed : Id(o) = Id(f) => o.parts = f.parts
  /\ \A o \in Elements(list) :
       /\ Id(o) # Id(ControllerDeployment)
       /\ c # "router" => Id(o) # Id(Deployment("router"))
       /\ c # "nats" => Id(o) # Id(NatsSet)
  /\ c # "controller" => NoneRewritten(Elements(list))

\* Ensure stores all of the list, or part of it and fails.
LEMMA EnsureIsStep ==
  ASSUME IInv, NEW c \in Routines, NEW from \in StepsOf[c],
         NEW to \in StepsOf[c] \cup Ended, NEW list, List(list), OwnList(c, list),
         Ensure(c, list, from, to)
  PROVE  \E E \in SUBSET Elements(list) :
           /\ StepOf(c, E) /\ at[c] = from
           /\ UNCHANGED <<jsKey, confKey, template, known>>
           /\ credentials' = IF DbSecret \in E THEN cp.db ELSE credentials
           /\ \/ at'[c] = to /\ E = Elements(list) /\ ~NoPullSecret(list)
              \/ at'[c] = "error"
<1>1. TypeOK
  BY DEF IInv
<1>2. /\ at[c] = from
      /\ UNCHANGED <<spec, ready, cp, hosts, outdated, misread, jsKey, confKey,
                     template, addresses, using, moved, known, api, rollout>>
      /\ Cardinality(behind') <= 1 /\ behind' \subseteq DOMAIN stored'
      /\ events' \in 0..MaxEvents
  BY <1>1, EnsureEffect
<1>3. PICK E \in SUBSET Elements(list) :
        /\ Wrote(E)
        /\ credentials' = IF DbSecret \in E THEN cp.db ELSE credentials
        /\ \/ /\ at' = [at EXCEPT ![c] = to]
              /\ E = Elements(list) /\ ~NoPullSecret(list)
           \/ at' = [at EXCEPT ![c] = "error"]
  BY <1>1, EnsureEffect
<1>4. /\ \A o \in E : \A f \in Fixed : Id(o) = Id(f) => o.parts = f.parts
      /\ Id(ControllerDeployment) \notin Ids(E)
      /\ c # "router" => Id(Deployment("router")) \notin Ids(E)
      /\ c # "nats" => Id(NatsSet) \notin Ids(E)
      /\ c # "controller" => NoneRewritten(E)
  BY DEF OwnList, Ids, NoneRewritten
<1>5. c # "controller" => DbSecret \notin E
  BY <1>4 DEF NoneRewritten, Rewritten, DbSecret, ObjectWith
<1>6. \E t \in StepsOf[c] \cup Ended : at' = [at EXCEPT ![c] = t]
  BY <1>3 DEF Ended, Failed
<1>7. StepOf(c, E)
  BY <1>1, <1>2, <1>3, <1>4, <1>5, <1>6 DEF StepOf, TypeOK
<1>8. \/ at'[c] = to /\ E = Elements(list) /\ ~NoPullSecret(list)
      \/ at'[c] = "error"
  BY <1>1, <1>3 DEF TypeOK
<1> QED BY <1>2, <1>3, <1>7, <1>8

\* Lists without workloads may be stored by any routine.
LEMMA PlainIsOwn ==
  ASSUME NEW c \in Routines, NEW list, Plain(Elements(list)),
         c # "controller" => NoneRewritten(Elements(list))
  PROVE  OwnList(c, list)
BY DEF OwnList, Plain, Id, ControllerDeployment, Deployment, NatsSet, Object

\* So may a workload by its own.
LEMMA WorkloadIsOwn ==
  /\ OwnList("router", <<Deployment("router")>>)
  /\ OwnList("nats", <<NatsSet>>)
<1>1. \A f \in Fixed : f.kind \notin {"Deployment", "StatefulSet"}
  BY NamesOfFixed
<1>2. OwnList("router", <<Deployment("router")>>)
  <2> DEFINE o == Deployment("router")
  <2>1. o.kind = "Deployment" /\ o.name = "router" /\ Id(o) = <<"Deployment", "router">>
    BY DEF Deployment, Object, Id
  <2>2. Id(ControllerDeployment) = <<"Deployment", "controller">>
        /\ Id(NatsSet) = <<"StatefulSet", "nats">>
    BY DEF ControllerDeployment, Deployment, NatsSet, Object, Id
  <2>3. \A f \in Fixed : Id(o) # Id(f)
    BY <1>1, <2>1 DEF Id
  <2> HIDE DEF o
  <2>4. Elements(<<o>>) = {o}
    BY OneObject
  <2> QED BY <2>1, <2>2, <2>3, <2>4 DEF OwnList, NoneRewritten, Rewritten,
             DbCredentials, VaultCredentials, o
<1>3. OwnList("nats", <<NatsSet>>)
  <2> DEFINE o == NatsSet
  <2>1. o.kind = "StatefulSet" /\ o.name = "nats" /\ Id(o) = <<"StatefulSet", "nats">>
    BY DEF NatsSet, Object, Id
  <2>2. Id(ControllerDeployment) = <<"Deployment", "controller">>
        /\ Id(Deployment("router")) = <<"Deployment", "router">>
    BY DEF ControllerDeployment, Deployment, Object, Id
  <2>3. \A f \in Fixed : Id(o) # Id(f)
    BY <1>1, <2>1 DEF Id
  <2> HIDE DEF o
  <2>4. Elements(<<o>>) = {o}
    BY OneObject
  <2> QED BY <2>1, <2>2, <2>3, <2>4 DEF OwnList, NoneRewritten, Rewritten,
             DbCredentials, VaultCredentials, o
<1> QED BY <1>2, <1>3
-----------------------------------------------------------------------------
(***************************************************************************)
(* The router's routine keeps the invariant.                               *)
(***************************************************************************)
\* Each step of the router's routine.
LEMMA RouterStepInv ==
  ASSUME IInv, RouterStep
  PROVE  IInv'
<1> DEFINE c == "router"
           step == at[c]
           step2 == at'[c]
<1>0. /\ TypeOK /\ RouterInv /\ c \in Routines /\ cp \in ControlPlaneSpec
      /\ {"objects", "address", "files", "deploy"} = StepsOf[c]
      /\ Ended = {"requeue", "error", "missingProxy", "continue"}
  BY SpecOfPass DEF IInv, Routines, StepsOf, Ended, Failed
<1>1. /\ List(RouterObjects(cp)) /\ List(RouterFiles)
      /\ OwnList(c, RouterObjects(cp)) /\ OwnList(c, RouterFiles)
      /\ Plain(Elements(RouterObjects(cp))) /\ Plain(Elements(RouterFiles))
  BY <1>0, RouterLists, PlainIsOwn
\* It is enough to show what is the router's own.
<1>2. ASSUME NEW E, StepOf(c, E),
             step2 \in {"address", "files", "deploy", "continue"}
               => Ids(Elements(RouterObjects(cp))) \subseteq DOMAIN stored',
             step2 = "deploy" => Ids(Elements(RouterFiles)) \subseteq DOMAIN stored',
             step2 = "continue" => Id(Deployment("router")) \in DOMAIN stored',
             Id(Deployment("router")) \in Ids(E)
               => Ids(Elements(RouterFiles)) \subseteq DOMAIN stored
      PROVE  IInv'
  <2>1. DOMAIN stored' = DOMAIN stored \cup Ids(E) /\ cp' = cp
    BY <1>2 DEF StepOf, Wrote
  <2>2. Id(Deployment("router")) \in DOMAIN stored'
          => Ids(Elements(RouterFiles)) \subseteq DOMAIN stored'
    BY <1>0, <1>2, <2>1 DEF RouterInv, IsStored, AllStored
  <2>3. RouterInv'
    BY <1>2, <2>1, <2>2 DEF RouterInv, IsStored, AllStored
  <2>4. /\ TypeOK' /\ PartsInv' /\ TemplateInv' /\ IsStored(OwnersCertificate)'
        /\ ReadyInv' /\ KeyInv' /\ NatsInv' /\ CertInv' /\ ControllerInv'
    BY <1>0, <1>2, StepKeeps
  <2> QED BY <2>3, <2>4 DEF IInv
<1>3. CASE RouterObjectsStep
  <2>1. PICK E \in SUBSET Elements(RouterObjects(cp)) :
          /\ StepOf(c, E)
          /\ (step2 = "address" /\ E = Elements(RouterObjects(cp))) \/ step2 = "error"
    BY <1>0, <1>1, <1>3, EnsureIsStep DEF RouterObjectsStep
  <2>2. DOMAIN stored' = DOMAIN stored \cup Ids(E)
    BY <2>1 DEF StepOf, Wrote
  <2>3. Id(Deployment("router")) \notin Ids(E)
    BY <2>1, <1>1 DEF Plain, Ids, Id, Deployment, Object
  <2>4. step2 \in {"address", "files", "deploy", "continue"}
               => Ids(Elements(RouterObjects(cp))) \subseteq DOMAIN stored'
    BY <2>1, <2>2
  <2>5. step2 # "deploy" /\ step2 # "continue"
    BY <2>1
  <2> QED BY <1>2, <2>1, <2>3, <2>4, <2>5
<1>4. CASE RouterAddress
  <2>1. /\ step = "address" /\ StepOf(c, {}) /\ UNCHANGED stored
        /\ step2 \in {"files", "missingProxy", "error"}
    <3>1. CASE cp.routerType = "LoadBalancer"
      <4>1. WaitOrTimeout(c, "router", "address", "files")
        BY <1>4, <3>1 DEF RouterAddress
      <4> QED BY <1>0, <4>1, WaitIsStep DEF cluster
    <3>2. CASE cp.routerType # "LoadBalancer"
      <4>1. PICK to \in {"files", "missingProxy"} :
              Call(c, "address", to) /\ UNCHANGED <<known, events>>
        BY <1>4, <3>2 DEF RouterAddress
      <4>2. events' \in 0..MaxEvents /\ step = "address"
        BY <1>0, <4>1 DEF TypeOK, Call, Go
      <4> QED BY <1>0, <4>1, <4>2, CallIsStep DEF cluster
    <3> QED BY <3>1, <3>2
  <2>2. Ids(Elements(RouterObjects(cp))) \subseteq DOMAIN stored'
    BY <1>0, <2>1 DEF RouterInv, AllStored
  <2>3. Id(Deployment("router")) \notin Ids({})
    BY DEF Ids
  <2> QED BY <1>2, <2>1, <2>2, <2>3
<1>5. CASE RouterFilesStep
  <2>1. PICK E \in SUBSET Elements(RouterFiles) :
          /\ StepOf(c, E) /\ step = "files"
          /\ (step2 = "deploy" /\ E = Elements(RouterFiles)) \/ step2 = "error"
    BY <1>0, <1>1, <1>5, EnsureIsStep DEF RouterFilesStep
  <2>2. DOMAIN stored' = DOMAIN stored \cup Ids(E)
    BY <2>1 DEF StepOf, Wrote
  <2>3. Id(Deployment("router")) \notin Ids(E)
    BY <2>1, <1>1 DEF Plain, Ids, Id, Deployment, Object
  <2>4. Ids(Elements(RouterObjects(cp))) \subseteq DOMAIN stored'
    BY <1>0, <2>1, <2>2 DEF RouterInv, AllStored
  <2>5. step2 = "deploy" => Ids(Elements(RouterFiles)) \subseteq DOMAIN stored'
    BY <2>1, <2>2
  <2>6. step2 # "continue"
    BY <2>1
  <2> QED BY <1>2, <2>1, <2>3, <2>4, <2>5, <2>6
<1>6. CASE RouterDeploy
  <2> DEFINE list == <<Deployment("router")>>
  <2>1. List(list) /\ Elements(list) = {Deployment("router")} /\ OwnList(c, list)
    BY OneObject, WorkloadIsOwn
  <2>2. Ensure(c, list, "deploy", "continue")
    BY <1>6 DEF RouterDeploy
  <2> HIDE DEF list
  <2>3. PICK E \in SUBSET Elements(list) :
          /\ StepOf(c, E) /\ step = "deploy"
          /\ (step2 = "continue" /\ E = Elements(list)) \/ step2 = "error"
    BY <1>0, <2>1, <2>2, EnsureIsStep
  <2>4. DOMAIN stored' = DOMAIN stored \cup Ids(E)
    BY <2>3 DEF StepOf, Wrote
  <2>5. /\ Ids(Elements(RouterObjects(cp))) \subseteq DOMAIN stored
        /\ Ids(Elements(RouterFiles)) \subseteq DOMAIN stored
    BY <1>0, <2>3 DEF RouterInv, AllStored
  <2>6. step2 = "continue" => Id(Deployment("router")) \in DOMAIN stored'
    BY <2>1, <2>3, <2>4 DEF Ids
  <2> QED BY <1>2, <2>3, <2>4, <2>5, <2>6
<1> QED BY <1>3, <1>4, <1>5, <1>6 DEF RouterStep
-----------------------------------------------------------------------------
(***************************************************************************)
(* NATS's routine keeps the invariant.                                     *)
(***************************************************************************)

\* Storing a key where there is none.
LEMMA StoreKeyIsStep ==
  ASSUME IInv, jsKey = "none", NEW to \in {"objects", "error"},
         Go("nats", "key", to), NEW n \in Nat, StoreKey(NewKey, n)
  PROVE  /\ StepOf("nats", {JetStreamKey}) /\ at["nats"] = "key" /\ at'["nats"] = to
         /\ jsKey' \in Keys /\ KeyInv'
<1> DEFINE E == {JetStreamKey}
<1>1. TypeOK /\ PartsInv /\ KeyInv
  BY DEF IInv
<1>2. /\ jsKey' = NewKey /\ stored' = With(E) /\ Creating(E, n)
      /\ UNCHANGED <<hosts, outdated, misread, confKey, credentials, template,
                     addresses, using, moved, known, api, rollout, spec, ready, cp>>
      /\ at["nats"] = "key" /\ at' = [at EXCEPT !["nats"] = to]
  BY DEF StoreKey, Go, certificates, outside
<1>3. NewKey \in Keys
  BY KeysAssumption DEF NewKey
<1>4. /\ JetStreamKey \in Fixed /\ ~Rewritten(JetStreamKey)
      /\ Id(JetStreamKey) = <<"Secret", "nats-jetstream-key">>
  BY DEF Fixed, Rewritten, JetStreamKey, ObjectWith, Id, DbCredentials,
     VaultCredentials
<1>5. /\ DOMAIN stored' = DOMAIN stored \cup Ids(E)
      /\ \A id \in DOMAIN stored \ Ids(E) : stored'[id] = stored[id]
      /\ \A id \in Ids(E) : \E o \in E : Id(o) = id /\ stored'[id] = o.parts
  BY <1>2, WithEffect
<1>6. \A id \in DOMAIN stored : stored'[id] = stored[id]
  BY <1>1, <1>4, <1>5 DEF PartsInv, Ids, IsStored
<1>7. Wrote(E)
  BY <1>4, <1>5, <1>6 DEF Wrote
<1>8. /\ Cardinality(behind') <= 1 /\ behind' \subseteq DOMAIN stored'
      /\ events' \in 0..MaxEvents
  BY <1>1, <1>2, <1>5, CreatingEffect
<1>9. /\ \A f \in Fixed : Id(JetStreamKey) = Id(f) => JetStreamKey.parts = f.parts
      /\ Id(ControllerDeployment) # Id(JetStreamKey)
      /\ Id(Deployment("router")) # Id(JetStreamKey)
  BY DEF Fixed, AuthSecret, DbSecret, JetStreamKey, ObjectWith, Object, Id,
     AuthCredentials, DbCredentials, ControllerDeployment, Deployment
<1>10. at'["nats"] = to
  BY <1>1, <1>2 DEF TypeOK, Routines
<1>11. to \in StepsOf["nats"] \cup Ended /\ at["nats"] \in StepsOf["nats"]
  BY <1>2 DEF StepsOf, Ended, Failed
<1>12. StepOf("nats", E)
  BY <1>1, <1>2, <1>3, <1>4, <1>7, <1>8, <1>9, <1>11
     DEF StepOf, TypeOK, NoneRewritten, Ids
<1>13. KeyInv'
  <2>1. confKey' = "none"
    BY <1>1, <1>2, KeysAssumption DEF KeyInv, ConfUsesKey
  <2>2. Id(JetStreamKey) \in DOMAIN stored'
    BY <1>5 DEF Ids
  <2> QED BY <2>1, <2>2 DEF KeyInv, ConfUsesKey, IsStored
<1> QED BY <1>2, <1>3, <1>10, <1>12, <1>13

\* Writing the first n config maps, server.conf with the key.
LEMMA SaveConfigIsStep ==
  ASSUME IInv, NEW to \in {"deploy", "error"}, Go("nats", "config", to),
         NEW n \in 0..2, NEW key, key = jsKey \/ n = 0, NEW faults \in Nat,
         SaveConfig(key, n, faults)
  PROVE  \E E \in SUBSET Elements(NatsConfigMaps) :
           /\ StepOf("nats", E) /\ at["nats"] = "config" /\ at'["nats"] = to
           /\ jsKey' = jsKey /\ KeyInv'
           /\ n = 2 => E = Elements(NatsConfigMaps) /\ confKey' \in Keys
<1> DEFINE done == SubSeq(NatsConfigMaps, 1, n)
           E == Elements(done)
<1>1. TypeOK /\ KeyInv /\ NatsInv
  BY DEF IInv
<1>2. /\ Store(done) /\ Creating(Created(done), faults)
      /\ confKey' = (IF n > 0 THEN key ELSE confKey)
      /\ UNCHANGED <<hosts, outdated, misread, jsKey, credentials, template,
                     addresses, using, moved, known, api, rollout, spec, ready, cp>>
      /\ at["nats"] = "config" /\ at' = [at EXCEPT !["nats"] = to]
  BY DEF SaveConfig, Go, certificates, outside
<1>3. Wrote(E)
  BY <1>2, StoreEffect
<1>4. Len(NatsConfigMaps) = 2 /\ List(NatsConfigMaps)
      /\ Plain(Elements(NatsConfigMaps)) /\ NoneRewritten(Elements(NatsConfigMaps))
  BY <1>1, SpecOfPass, NatsLists DEF NatsConfigMaps
<1>5. E \subseteq Elements(NatsConfigMaps)
  BY <1>4, FirstObjects
<1>6. n = 2 => E = Elements(NatsConfigMaps)
  <2>1. ASSUME n = 2 PROVE done = NatsConfigMaps
    BY <1>4, <2>1, SubSeqFull DEF List
  <2> QED BY <2>1
<1>7. jsKey \in Keys
  BY <1>1, <1>2 DEF NatsInv
<1>8. OwnList("nats", NatsConfigMaps)
  BY <1>4, PlainIsOwn DEF Routines
<1> HIDE DEF done
<1>9. /\ Cardinality(behind') <= 1 /\ behind' \subseteq DOMAIN stored'
      /\ events' \in 0..MaxEvents
  <2>1. DOMAIN stored \subseteq DOMAIN stored'
        /\ Ids(Created(done)) \subseteq DOMAIN stored'
    BY <1>3 DEF Wrote, Ids, Created
  <2> QED BY <1>1, <1>2, <2>1, CreatingEffect
<1>10. at'["nats"] = to /\ at["nats"] \in StepsOf["nats"]
       /\ to \in StepsOf["nats"] \cup Ended
  BY <1>1, <1>2 DEF TypeOK, Routines, StepsOf, Ended, Failed
<1> HIDE DEF E
<1>11. StepOf("nats", E)
  <2>1. /\ \A o \in E : \A f \in Fixed : Id(o) = Id(f) => o.parts = f.parts
        /\ Id(ControllerDeployment) \notin Ids(E)
        /\ Id(Deployment("router")) \notin Ids(E)
        /\ NoneRewritten(E)
    BY <1>5, <1>8 DEF OwnList, Ids, NoneRewritten
  <2>2. confKey' \in Keys \cup {"none", "empty"}
    BY <1>1, <1>2, <1>7 DEF TypeOK
  <2> QED BY <1>1, <1>2, <1>3, <1>9, <1>10, <2>1, <2>2 DEF StepOf, TypeOK
<1>12. KeyInv'
  <2>1. confKey' # "none" => confKey' = jsKey
    BY <1>1, <1>2 DEF KeyInv, ConfUsesKey
  <2>2. IsStored(JetStreamKey)'
    BY <1>1, <1>3, <1>7, KeysAssumption DEF KeyInv, IsStored, Wrote
  <2> QED BY <1>2, <1>7, <2>1, <2>2 DEF KeyInv, ConfUsesKey
<1>13. n = 2 => confKey' \in Keys
  BY <1>2, <1>7
<1> QED BY <1>2, <1>5, <1>6, <1>10, <1>11, <1>12, <1>13

\* The number of certified replicas is a number, and not none.
LEMMA ReplicasOfPass ==
  ASSUME TypeOK
  PROVE  NatsReplicas(cp) \in Nat \ {0}
BY SpecOfPass DEF NatsReplicas, ControlPlaneSpec

\* The two certificates.
LEMMA TwoServers ==
  /\ SiteServer \in Servers /\ MqttServer \in Servers /\ SiteServer # MqttServer
  /\ Servers = {SiteServer, MqttServer}
  /\ FirstServers(2) = Servers
<1>1. SiteServer # MqttServer /\ Servers = {SiteServer, MqttServer}
  BY DEF Servers, SiteServer, MqttServer
<1>2. FirstServers(2) = {ServerOrder[1], ServerOrder[2]}
  BY DEF FirstServers
<1>3. ServerOrder[1] = SiteServer /\ ServerOrder[2] = MqttServer
  BY DEF ServerOrder
<1> QED BY <1>1, <1>2, <1>3

\* Deleting or creating certificates leaves numbers behind.
LEMMA PutHostsEffect ==
  ASSUME TypeOK, NEW new \in [Servers -> Nat], NEW n \in Nat, PutHosts(new, n)
  PROVE  /\ hosts' = new
         /\ outdated' \in [Servers -> SUBSET Nat]
         /\ events' \in 0..MaxEvents
<1> DEFINE changed == {s \in Servers : new[s] # hosts[s]}
           behindhand == {s \in changed : outdated[s] # {}}
<1>1. PICK late \in SUBSET {s \in changed \ behindhand : <<"Secret", s>> \in Lagging} :
        /\ hosts' = new
        /\ outdated' = [s \in Servers |->
                          IF s \in late \cup behindhand
                            THEN outdated[s] \cup {hosts[s]} ELSE outdated[s]]
        /\ Happen(n + Cardinality(late))
  BY DEF PutHosts
<1>2. late \subseteq {SiteServer, MqttServer}
  BY TwoServers
<1>3. Cardinality(late) \in Nat
  <2>1. IsFiniteSet({SiteServer, MqttServer})
    <3>1. IsFiniteSet({SiteServer} \cup {MqttServer})
      BY FS_Singleton, FS_Union
    <3>2. {SiteServer} \cup {MqttServer} = {SiteServer, MqttServer}
      OBVIOUS
    <3> QED BY <3>1, <3>2
  <2>2. IsFiniteSet(late)
    BY <1>2, <2>1, FS_Subset
  <2> QED BY <2>2, FS_CardinalityType
<1>4. events' \in 0..MaxEvents
  BY <1>1, <1>3, BoundsAssumption DEF Happen, TypeOK
<1>5. \A s \in Servers : outdated[s] \cup {hosts[s]} \subseteq Nat
  BY DEF TypeOK
<1> HIDE DEF changed, behindhand
<1> QED BY <1>1, <1>4, <1>5 DEF TypeOK

\* A step that only the certificates are about.
LEMMA CertifyIsStep ==
  ASSUME IInv, NEW from \in {"replicas", "servers"},
         NEW to \in StepsOf["nats"] \cup Ended, Certify(from, to),
         hosts' \in [Servers -> Nat], outdated' \in [Servers -> SUBSET Nat],
         misread' \in BOOLEAN, events' \in 0..MaxEvents
  PROVE  /\ StepOf("nats", {}) /\ at["nats"] = from /\ at'["nats"] = to
         /\ UNCHANGED <<stored, jsKey, confKey>>
<1>1. TypeOK
  BY DEF IInv
<1>2. /\ at["nats"] = from /\ at' = [at EXCEPT !["nats"] = to]
      /\ UNCHANGED <<spec, ready, cp, stored, behind, jsKey, confKey, credentials,
                     template, addresses, using, moved, known, api, rollout>>
  BY DEF Certify, outside
<1>3. Wrote({})
  BY <1>2 DEF Wrote, Ids
<1>4. at'["nats"] = to /\ from \in StepsOf["nats"]
  BY <1>1, <1>2 DEF TypeOK, Routines, StepsOf
<1> QED BY <1>1, <1>2, <1>3, <1>4 DEF StepOf, TypeOK, Ids, NoneRewritten

\* What a comparison, or the beginning of one, makes of the certificates.
LEMMA ReplaceEffect ==
  ASSUME TypeOK, NEW n \in 0..2, NEW faults \in Nat, Replace(n, faults)
  PROVE  /\ hosts' \in [Servers -> Nat] /\ outdated' \in [Servers -> SUBSET Nat]
         /\ misread' \in BOOLEAN /\ events' \in 0..MaxEvents
         /\ (~misread' /\ hosts[SiteServer] = NatsReplicas(cp)) => hosts' = hosts
         /\ (~misread' /\ n = 2) => hosts'[SiteServer] \in {0, NatsReplicas(cp)}
<1>1. PICK read \in HostsRead(SiteServer) :
        /\ misread' = (misread \/ read # hosts[SiteServer])
        /\ PutHosts([s \in Servers |->
                       IF Stale(read) /\ s \in FirstServers(n) THEN 0 ELSE hosts[s]],
                    faults)
  BY DEF Replace
<1> DEFINE new == [s \in Servers |->
                     IF Stale(read) /\ s \in FirstServers(n) THEN 0 ELSE hosts[s]]
<1>2. new \in [Servers -> Nat]
  BY DEF TypeOK
<1>3. hosts' = new /\ outdated' \in [Servers -> SUBSET Nat] /\ events' \in 0..MaxEvents
  <2> HIDE DEF new
  <2>1. PutHosts(new, faults)
    BY <1>1 DEF new
  <2> QED BY <1>2, <2>1, PutHostsEffect
<1>4. misread' \in BOOLEAN
  BY <1>1
<1>5. ASSUME ~misread' PROVE read = hosts[SiteServer]
  BY <1>1, <1>5
<1>6. ASSUME ~misread', hosts[SiteServer] = NatsReplicas(cp) PROVE hosts' = hosts
  <2>1. ~Stale(read)
    BY <1>5, <1>6 DEF Stale
  <2> QED BY <1>3, <2>1 DEF TypeOK
<1>7. ASSUME ~misread', n = 2 PROVE hosts'[SiteServer] \in {0, NatsReplicas(cp)}
  <2>1. SiteServer \in Servers /\ SiteServer \in FirstServers(n)
    BY <1>7, TwoServers
  <2>2. hosts'[SiteServer] = IF Stale(read) THEN 0 ELSE hosts[SiteServer]
    BY <1>3, <2>1
  <2> QED BY <1>5, <1>7, <2>2 DEF Stale
<1> QED BY <1>2, <1>3, <1>4, <1>6, <1>7

\* What creating those that are lacking does, or the beginning of it.
LEMMA IssueEffect ==
  ASSUME TypeOK, NEW n \in 0..2, NEW faults \in Nat, Issue(n, faults)
  PROVE  /\ hosts' \in [Servers -> Nat] /\ outdated' \in [Servers -> SUBSET Nat]
         /\ misread' \in BOOLEAN /\ events' \in 0..MaxEvents
         /\ ~misread' => ~misread
         /\ \A s \in Servers : hosts[s] # 0 => hosts'[s] = hosts[s]
         /\ (~misread' /\ n = 2) =>
              \A s \in Servers : hosts[s] = 0 => hosts'[s] = NatsReplicas(cp)
<1>1. PICK site \in HostsRead(SiteServer), mqtt \in HostsRead(MqttServer) :
        LET seen == [s \in Servers |-> IF s = SiteServer THEN site ELSE mqtt]
        IN  /\ misread' = (misread \/ seen # hosts)
            /\ PutHosts([s \in Servers |->
                           IF s \in FirstServers(n) /\ seen[s] = 0 /\ hosts[s] = 0
                             THEN NatsReplicas(cp) ELSE hosts[s]],
                        faults)
  BY DEF Issue
<1> DEFINE seen == [s \in Servers |-> IF s = SiteServer THEN site ELSE mqtt]
           new == [s \in Servers |->
                     IF s \in FirstServers(n) /\ seen[s] = 0 /\ hosts[s] = 0
                       THEN NatsReplicas(cp) ELSE hosts[s]]
<1>2. misread' = (misread \/ seen # hosts) /\ PutHosts(new, faults)
  BY <1>1
<1> HIDE DEF seen
<1>3. new \in [Servers -> Nat]
  BY ReplicasOfPass DEF TypeOK
<1>4. hosts' = new /\ outdated' \in [Servers -> SUBSET Nat] /\ events' \in 0..MaxEvents
  <2> HIDE DEF new
  <2> QED BY <1>2, <1>3, PutHostsEffect
<1>5. misread' \in BOOLEAN /\ (~misread' => ~misread)
  BY <1>2
<1>6. ~misread' => seen = hosts
  BY <1>2
<1>7. \A s \in Servers : hosts[s] # 0 => hosts'[s] = hosts[s]
  BY <1>4
<1>8. ASSUME ~misread', n = 2, NEW s \in Servers, hosts[s] = 0
      PROVE  hosts'[s] = NatsReplicas(cp)
  BY <1>4, <1>6, <1>8, TwoServers
<1> QED BY <1>3, <1>4, <1>5, <1>7, <1>8

\* The steps that compare, delete and create the server certificates.
LEMMA CertificateSteps ==
  ASSUME IInv, CompareReplicas \/ CompareFails \/ ReplaceStops
                 \/ IssueServers \/ IssueStops
  PROVE  /\ StepOf("nats", {}) /\ CertInv' /\ UNCHANGED <<stored, jsKey, confKey>>
         /\ \/ at["nats"] = "replicas" /\ at'["nats"] \in {"certificates", "error"}
            \/ at["nats"] = "servers" /\ at'["nats"] \in {"config", "error"}
         /\ \/ hosts' = hosts \/ misread'
            \/ hosts[SiteServer] = NatsReplicas(cp) =>
                 \A s \in Servers : hosts[s] # 0 => hosts'[s] = hosts[s]
<1>0. TypeOK /\ CertInv
  BY DEF IInv
<1>1. {"certificates", "config", "error"} \subseteq StepsOf["nats"] \cup Ended
  BY DEF StepsOf, Ended, Failed
<1>2. ASSUME at'["nats"] = "error" PROVE CertInv'
  BY <1>2 DEF CertInv
\* A comparison to the end.
<1>3. CASE CompareReplicas
  <2>1. Certify("replicas", "certificates") /\ Replace(2, 0)
    BY <1>3 DEF CompareReplicas
  <2>2. /\ hosts' \in [Servers -> Nat] /\ outdated' \in [Servers -> SUBSET Nat]
        /\ misread' \in BOOLEAN /\ events' \in 0..MaxEvents
        /\ (~misread' /\ hosts[SiteServer] = NatsReplicas(cp)) => hosts' = hosts
        /\ ~misread' => hosts'[SiteServer] \in {0, NatsReplicas(cp)}
    BY <1>0, <2>1, ReplaceEffect
  <2>3. /\ StepOf("nats", {}) /\ at["nats"] = "replicas"
        /\ at'["nats"] = "certificates" /\ UNCHANGED <<stored, jsKey, confKey>>
    BY <1>1, <2>1, <2>2, CertifyIsStep
  <2>4. CertInv'
    <3>1. cp' = cp
      BY <2>3 DEF StepOf
    <3> QED BY <2>2, <2>3, <3>1 DEF CertInv
  <2> QED BY <2>2, <2>3, <2>4
<1>4. CASE CompareFails
  <2>1. Certify("replicas", "certificates") /\ misread' = TRUE
        /\ hosts' = hosts /\ outdated' = outdated /\ Event
    BY <1>4 DEF CompareFails, certificates
  <2>2. events' \in 0..MaxEvents
    BY <1>0, <2>1, BoundsAssumption DEF Event, Happen, TypeOK
  <2>3. /\ StepOf("nats", {}) /\ at["nats"] = "replicas"
        /\ at'["nats"] = "certificates" /\ UNCHANGED <<stored, jsKey, confKey>>
    BY <1>0, <1>1, <2>1, <2>2, CertifyIsStep DEF TypeOK
  <2>4. CertInv'
    BY <2>1, <2>3 DEF CertInv
  <2> QED BY <2>1, <2>3, <2>4
\* One that stops.
<1>5. CASE ReplaceStops
  <2>1. PICK n \in 0..2 : Certify("replicas", "error") /\ Replace(n, 1)
    BY <1>5 DEF ReplaceStops
  <2>2. /\ hosts' \in [Servers -> Nat] /\ outdated' \in [Servers -> SUBSET Nat]
        /\ misread' \in BOOLEAN /\ events' \in 0..MaxEvents
        /\ (~misread' /\ hosts[SiteServer] = NatsReplicas(cp)) => hosts' = hosts
    BY <1>0, <2>1, ReplaceEffect
  <2>3. /\ StepOf("nats", {}) /\ at["nats"] = "replicas"
        /\ at'["nats"] = "error" /\ UNCHANGED <<stored, jsKey, confKey>>
    BY <1>1, <2>1, <2>2, CertifyIsStep
  <2> QED BY <1>2, <2>2, <2>3
\* Creating those that are lacking.
<1>6. CASE IssueServers
  <2>1. Certify("servers", "config") /\ Issue(2, 0)
    BY <1>6 DEF IssueServers
  <2>2. /\ hosts' \in [Servers -> Nat] /\ outdated' \in [Servers -> SUBSET Nat]
        /\ misread' \in BOOLEAN /\ events' \in 0..MaxEvents
        /\ ~misread' => ~misread
        /\ \A s \in Servers : hosts[s] # 0 => hosts'[s] = hosts[s]
        /\ ~misread' => \A s \in Servers : hosts[s] = 0 => hosts'[s] = NatsReplicas(cp)
    BY <1>0, <2>1, IssueEffect
  <2>3. /\ StepOf("nats", {}) /\ at["nats"] = "servers"
        /\ at'["nats"] = "config" /\ UNCHANGED <<stored, jsKey, confKey>>
    BY <1>1, <2>1, <2>2, CertifyIsStep
  <2>4. CertInv'
    <3>1. cp' = cp
      BY <2>3 DEF StepOf
    <3>2. ASSUME ~misread'
          PROVE  hosts'[SiteServer] = NatsReplicas(cp) /\ hosts'[MqttServer] # 0
      <4>1. hosts[SiteServer] \in {0, NatsReplicas(cp)}
        BY <1>0, <2>2, <2>3, <3>2 DEF CertInv
      <4>2. hosts'[SiteServer] = NatsReplicas(cp)
        BY <2>2, <3>2, <4>1, TwoServers
      <4>3. hosts'[MqttServer] # 0
        BY <1>0, <2>2, <3>2, TwoServers, ReplicasOfPass
      <4> QED BY <4>2, <4>3
    <3> QED BY <2>3, <3>1, <3>2 DEF CertInv, ServersDone
  <2> QED BY <2>2, <2>3, <2>4
<1>7. CASE IssueStops
  <2>1. PICK n \in 0..2 : Certify("servers", "error") /\ Issue(n, 1)
    BY <1>7 DEF IssueStops
  <2>2. /\ hosts' \in [Servers -> Nat] /\ outdated' \in [Servers -> SUBSET Nat]
        /\ misread' \in BOOLEAN /\ events' \in 0..MaxEvents
        /\ \A s \in Servers : hosts[s] # 0 => hosts'[s] = hosts[s]
    BY <1>0, <2>1, IssueEffect
  <2>3. /\ StepOf("nats", {}) /\ at["nats"] = "servers"
        /\ at'["nats"] = "error" /\ UNCHANGED <<stored, jsKey, confKey>>
    BY <1>1, <2>1, <2>2, CertifyIsStep
  <2> QED BY <1>2, <2>2, <2>3
<1> QED BY <1>3, <1>4, <1>5, <1>6, <1>7

\* Each step of NATS's routine.
LEMMA NatsStepInv ==
  ASSUME IInv, NatsStep
  PROVE  IInv'
<1> DEFINE c == "nats"
           step == at[c]
           step2 == at'[c]
           Has(list) == Ids(Elements(list)) \subseteq DOMAIN stored
           Gets(list) == Ids(Elements(list)) \subseteq DOMAIN stored'
           last == {"replicas", "certificates", "servers", "config", "deploy"}
           Certified ==
             \/ CertInv'
             \/ /\ step \notin {"replicas", "servers"}
                /\ step2 \in {"certificates", "servers"} => step = "certificates"
                /\ (step2 \in {"config", "deploy", "continue"} /\ cp.nats)
                     => step \in {"config", "deploy"}
<1>0. /\ TypeOK /\ NatsInv /\ KeyInv /\ c \in Routines /\ cp \in ControlPlaneSpec
      /\ {"client", "bootstrap", "key", "objects", "address", "replicas",
          "certificates", "servers", "config", "deploy"} = StepsOf[c]
      /\ Ended = {"requeue", "error", "missingProxy", "continue"}
  BY SpecOfPass DEF IInv, Routines, StepsOf, Ended, Failed
<1>1. /\ List(NatsObjects(cp)) /\ List(BootstrapSecrets)
      /\ List(NatsCAs) /\ List(NatsConfigMaps)
      /\ OwnList(c, NatsObjects(cp)) /\ OwnList(c, BootstrapSecrets)
      /\ OwnList(c, NatsCAs) /\ OwnList(c, NatsConfigMaps)
      /\ Plain(Elements(NatsObjects(cp))) /\ Plain(Elements(BootstrapSecrets))
      /\ Plain(Elements(NatsCAs)) /\ Plain(Elements(NatsConfigMaps))
  BY <1>0, NatsLists, PlainIsOwn
\* It is enough to show what is NATS's own.
<1>2. ASSUME NEW E, StepOf(c, E), KeyInv', Certified, jsKey \in Keys => jsKey' = jsKey,
             confKey \in Keys => confKey' \in Keys,
             step2 \in {"key", "objects", "address"} \cup last
               => Gets(BootstrapSecrets),
             step2 \in {"objects", "address"} \cup last => jsKey' \in Keys,
             step2 \in {"address"} \cup last => Gets(NatsObjects(cp)),
             step2 \in {"servers", "config", "deploy"} => Gets(NatsCAs),
             step2 = "deploy" => Gets(NatsConfigMaps) /\ confKey' \in Keys,
             step2 = "continue" /\ cp.nats =>
               Gets(NatsObjects(cp)) /\ Id(NatsSet) \in DOMAIN stored'
                 /\ confKey' \in Keys,
             Id(NatsSet) \in Ids(E) =>
               Has(BootstrapSecrets) /\ Has(NatsCAs) /\ Has(NatsConfigMaps)
                 /\ jsKey \in Keys
      PROVE  IInv'
  <2>1. DOMAIN stored' = DOMAIN stored \cup Ids(E)
    BY <1>2 DEF StepOf, Wrote
  <2>2. cp' = cp
    BY <1>2 DEF StepOf
  <2>3. Id(NatsSet) \in DOMAIN stored' =>
          /\ Gets(BootstrapSecrets) /\ Gets(NatsCAs) /\ Gets(NatsConfigMaps)
          /\ jsKey' \in Keys
    BY <1>0, <1>2, <2>1 DEF NatsInv, NatsFiles, IsStored, AllStored
  <2>4. NatsInv'
    BY <1>2, <2>2, <2>3 DEF NatsInv, NatsFiles, NatsRest, IsStored, AllStored
  <2>6. CertInv'
    <3>1. CASE CertInv'
      BY <3>1
    <3>2. CASE ~CertInv'
      <4>1. hosts' = hosts /\ misread' = misread
        BY <1>2, <3>2 DEF StepOf
      <4>2. CertInv
        BY DEF IInv
      <4> QED BY <1>2, <2>2, <3>2, <4>1, <4>2 DEF CertInv, ServersDone
    <3> QED BY <3>1, <3>2
  <2>5. /\ TypeOK' /\ PartsInv' /\ TemplateInv' /\ IsStored(OwnersCertificate)'
        /\ ReadyInv' /\ ControllerInv' /\ RouterInv'
    BY <1>0, <1>2, StepKeeps
  <2> QED BY <1>2, <2>4, <2>5, <2>6 DEF IInv
\* What has been done at each step.
<1>3. /\ step \in {"key", "objects", "address"} \cup last => Has(BootstrapSecrets)
      /\ step \in {"objects", "address"} \cup last => jsKey \in Keys
      /\ step \in {"address"} \cup last => Has(NatsObjects(cp))
      /\ step \in {"servers", "config", "deploy"} => Has(NatsCAs)
      /\ step = "deploy" => Has(NatsConfigMaps) /\ confKey \in Keys
  BY <1>0 DEF NatsInv, AllStored
\* A step that stores a list, or part of it and fails.
<1>4. ASSUME NEW from \in StepsOf[c], NEW to \in StepsOf[c], NEW list,
             List(list), OwnList(c, list), Plain(Elements(list)),
             Ensure(c, list, from, to)
      PROVE  \E E : /\ StepOf(c, E) /\ step = from
                    /\ KeyInv' /\ jsKey' = jsKey /\ confKey' = confKey
                    /\ DOMAIN stored \subseteq DOMAIN stored'
                    /\ Id(NatsSet) \notin Ids(E)
                    /\ (step2 = to /\ Gets(list)) \/ step2 = "error"
  <2>1. PICK E \in SUBSET Elements(list) :
          /\ StepOf(c, E) /\ step = from /\ UNCHANGED <<jsKey, confKey>>
          /\ (step2 = to /\ E = Elements(list)) \/ step2 = "error"
    BY <1>0, <1>4, EnsureIsStep
  <2>2. DOMAIN stored' = DOMAIN stored \cup Ids(E)
    BY <2>1 DEF StepOf, Wrote
  <2>3. Id(NatsSet) \notin Ids(E)
    BY <2>1, <1>4 DEF Plain, Ids, Id, NatsSet, Object
  <2>4. KeyInv'
    BY <1>0, <2>1, <2>2 DEF KeyInv, ConfUsesKey, IsStored
  <2> QED BY <2>1, <2>2, <2>3, <2>4
\* A step that stores nothing.
<1>5. ASSUME StepOf(c, {}), UNCHANGED cluster
      PROVE  /\ KeyInv' /\ jsKey' = jsKey /\ confKey' = confKey
             /\ Id(NatsSet) \notin Ids({}) /\ stored' = stored
  BY <1>0, <1>5 DEF KeyInv, ConfUsesKey, IsStored, cluster, Ids
<1>6. CASE NatsClient
  <2>1. PICK to \in {"continue", "bootstrap", "requeue"} :
          /\ Call(c, "client", to) /\ UNCHANGED <<known, events>>
          /\ to = "continue" => ~cp.nats
    BY <1>6 DEF NatsClient
  <2>2. StepOf(c, {}) /\ step2 = to /\ UNCHANGED cluster
    BY <1>0, <2>1, CallIsStep DEF TypeOK
  <2>3. step = "client"
    BY <2>1 DEF Call, Go
  <2> QED BY <1>2, <1>5, <2>1, <2>2, <2>3
<1>7. CASE NatsBootstrap
  <2>1. PICK E : /\ StepOf(c, E) /\ step = "bootstrap"
                 /\ KeyInv' /\ jsKey' = jsKey /\ confKey' = confKey
                 /\ Id(NatsSet) \notin Ids(E)
                 /\ (step2 = "key" /\ Gets(BootstrapSecrets)) \/ step2 = "error"
    BY <1>0, <1>1, <1>4, <1>7 DEF NatsBootstrap
  <2> QED BY <1>2, <2>1
<1>8. CASE KeyFound
  <2>1. /\ Call(c, "key", "objects") /\ UNCHANGED <<known, events>>
        /\ \E k \in Keys : k \in KeyRead
    BY <1>8 DEF KeyFound, KeyShown
  <2>2. StepOf(c, {}) /\ step2 = "objects" /\ UNCHANGED cluster
    BY <1>0, <2>1, CallIsStep DEF TypeOK
  <2>3. jsKey \in Keys /\ step = "key"
    BY <2>1, KeysAssumption DEF KeyRead, Call, Go
  <2> QED BY <1>2, <1>3, <1>5, <2>2, <2>3
\* A key is stored, or the answer is lost when it is.
<1>9. ASSUME NEW to \in {"objects", "error"}, NEW n \in Nat,
             jsKey = "none", Go(c, "key", to), StoreKey(NewKey, n)
      PROVE  IInv'
  <2> DEFINE E == {JetStreamKey}
  <2>1. StepOf(c, E) /\ step = "key" /\ step2 = to /\ jsKey' \in Keys /\ KeyInv'
    BY <1>9, StoreKeyIsStep
  <2>2. Id(NatsSet) \notin Ids(E)
    BY DEF Ids, Id, NatsSet, JetStreamKey, Object, ObjectWith
  <2>3. DOMAIN stored \subseteq DOMAIN stored'
    BY <2>1 DEF StepOf, Wrote
  <2>4. confKey' = confKey /\ jsKey \notin Keys
    BY <1>9, KeysAssumption DEF StoreKey
  <2> HIDE DEF E
  <2> QED BY <1>2, <1>3, <2>1, <2>2, <2>3, <2>4
<1>10. CASE KeyCreated
  BY <1>9, <1>10 DEF KeyCreated
<1>11. ASSUME Call(c, "key", "error") \/ (Go(c, "key", "error") /\ Event
                 /\ UNCHANGED <<cluster, outside, api, rollout>>),
              UNCHANGED known, events' \in 0..MaxEvents
       PROVE  IInv'
  <2>1. Call(c, "key", "error")
    BY <1>11 DEF Call, outside
  <2>2. StepOf(c, {}) /\ step2 = "error" /\ UNCHANGED cluster
    BY <1>0, <1>11, <2>1, CallIsStep
  <2>3. step = "key"
    BY <2>1 DEF Call, Go
  <2> QED BY <1>2, <1>5, <2>2, <2>3
<1>12. CASE KeyCollides
  BY <1>0, <1>11, <1>12 DEF KeyCollides, TypeOK
<1>13. CASE KeyFails
  <2>1. jsKey = "none" /\ Go(c, "key", "error")
    BY <1>13 DEF KeyFails
  <2>2. CASE Event /\ UNCHANGED <<cluster, outside, api, rollout>>
    <3>1. events' \in 0..MaxEvents
      BY <1>0, <2>2, BoundsAssumption DEF Event, Happen, TypeOK
    <3> QED BY <1>11, <2>1, <2>2, <3>1 DEF outside
  <2>3. CASE StoreKey(NewKey, 1)
    BY <1>9, <2>1, <2>3
  <2> QED BY <1>13, <2>2, <2>3 DEF KeyFails
<1>14. CASE NatsObjectsStep
  <2>1. PICK E : /\ StepOf(c, E) /\ step = "objects"
                 /\ KeyInv' /\ jsKey' = jsKey /\ confKey' = confKey
                 /\ DOMAIN stored \subseteq DOMAIN stored'
                 /\ Id(NatsSet) \notin Ids(E)
                 /\ (step2 = "address" /\ Gets(NatsObjects(cp))) \/ step2 = "error"
    BY <1>0, <1>1, <1>4, <1>14 DEF NatsObjectsStep
  <2> QED BY <1>2, <1>3, <2>1
<1>15. CASE NatsAddress
  <2>1. /\ step = "address" /\ StepOf(c, {}) /\ UNCHANGED cluster
        /\ step2 \in {"replicas", "error"}
    <3>1. CASE cp.natsType = "LoadBalancer"
      <4>1. WaitOrTimeout(c, "nats", "address", "replicas")
        BY <1>15, <3>1 DEF NatsAddress
      <4> QED BY <1>0, <4>1, WaitIsStep
    <3>2. CASE cp.natsType # "LoadBalancer"
      <4>1. Call(c, "address", "replicas") /\ UNCHANGED <<known, events>>
        BY <1>15, <3>2 DEF NatsAddress
      <4>2. step = "address"
        BY <4>1 DEF Call, Go
      <4> QED BY <1>0, <4>1, <4>2, CallIsStep DEF TypeOK
    <3> QED BY <3>1, <3>2
  <2> QED BY <1>2, <1>3, <1>5, <2>1
<1>16. CASE NatsCAsStep
  <2>1. PICK E : /\ StepOf(c, E) /\ step = "certificates"
                 /\ KeyInv' /\ jsKey' = jsKey /\ confKey' = confKey
                 /\ DOMAIN stored \subseteq DOMAIN stored'
                 /\ Id(NatsSet) \notin Ids(E)
                 /\ (step2 = "servers" /\ Gets(NatsCAs)) \/ step2 = "error"
    BY <1>0, <1>1, <1>4, <1>16 DEF NatsCAsStep
  <2> QED BY <1>2, <1>3, <2>1
\* The server certificates.
<1>21. CASE CompareReplicas \/ CompareFails \/ ReplaceStops
              \/ IssueServers \/ IssueStops
  <2>1. /\ StepOf(c, {}) /\ CertInv' /\ UNCHANGED <<stored, jsKey, confKey>>
        /\ \/ step = "replicas" /\ step2 \in {"certificates", "error"}
           \/ step = "servers" /\ step2 \in {"config", "error"}
    BY <1>21, CertificateSteps
  <2>2. KeyInv' /\ Id(NatsSet) \notin Ids({})
    BY <1>0, <2>1 DEF KeyInv, ConfUsesKey, IsStored, Ids
  <2> QED BY <1>2, <1>3, <2>1, <2>2
\* The config maps are written, or some of them.
<1>17. ASSUME NEW to \in {"deploy", "error"}, NEW n \in 0..2, NEW key,
              key = jsKey \/ n = 0, NEW faults \in Nat, Go(c, "config", to),
              SaveConfig(key, n, faults), to = "deploy" => n = 2
       PROVE  IInv'
  <2>1. PICK E \in SUBSET Elements(NatsConfigMaps) :
          /\ StepOf(c, E) /\ step = "config" /\ step2 = to
          /\ jsKey' = jsKey /\ KeyInv'
          /\ n = 2 => E = Elements(NatsConfigMaps) /\ confKey' \in Keys
    BY <1>17, SaveConfigIsStep
  <2>2. DOMAIN stored' = DOMAIN stored \cup Ids(E)
    BY <2>1 DEF StepOf, Wrote
  <2>3. Id(NatsSet) \notin Ids(E)
    BY <2>1, <1>1 DEF Plain, Ids, Id, NatsSet, Object
  <2>4. jsKey \in Keys
    BY <1>3, <2>1
  <2>5. confKey \in Keys => confKey' \in Keys
    BY <1>17, <2>4 DEF SaveConfig
  <2>6. step2 = "deploy" => Gets(NatsConfigMaps) /\ confKey' \in Keys
    BY <1>17, <2>1, <2>2
  <2> QED BY <1>2, <1>3, <1>17, <2>1, <2>2, <2>3, <2>4, <2>5, <2>6
<1>18. CASE NatsConfig
  <2>1. PICK k \in KeyRead \ {"none"} : SaveConfig(k, 2, 0)
    BY <1>18 DEF NatsConfig
  <2>2. k = jsKey
    BY <2>1 DEF KeyRead
  <2> QED BY <1>17, <1>18, <2>1, <2>2 DEF NatsConfig
<1>19. CASE NatsConfigStops
  <2>1. Go(c, "config", "error")
    BY <1>19 DEF NatsConfigStops
  <2>2. CASE SaveConfig("none", 0, 0)
    BY <1>17, <2>1, <2>2
  <2>3. CASE \E k \in KeyRead \ {"none"}, n \in 0..2 : SaveConfig(k, n, 1)
    <3>1. PICK k \in KeyRead \ {"none"}, n \in 0..2 : SaveConfig(k, n, 1)
      BY <2>3
    <3>2. k = jsKey
      BY <3>1 DEF KeyRead
    <3> QED BY <1>17, <2>1, <3>1, <3>2
  <2> QED BY <1>19, <2>2, <2>3 DEF NatsConfigStops
<1>20. CASE NatsDeploy
  <2> DEFINE list == <<NatsSet>>
  <2>1. List(list) /\ Elements(list) = {NatsSet} /\ OwnList(c, list)
    BY OneObject, WorkloadIsOwn
  <2>2. Ensure(c, list, "deploy", "continue")
    BY <1>20 DEF NatsDeploy
  <2> HIDE DEF list
  <2>3. PICK E \in SUBSET Elements(list) :
          /\ StepOf(c, E) /\ step = "deploy" /\ UNCHANGED <<jsKey, confKey>>
          /\ (step2 = "continue" /\ E = Elements(list)) \/ step2 = "error"
    <3>1. "deploy" \in StepsOf[c] /\ "continue" \in StepsOf[c] \cup Ended
      BY <1>0
    <3> QED BY <1>0, <2>1, <2>2, <3>1, EnsureIsStep
  <2>4. DOMAIN stored' = DOMAIN stored \cup Ids(E)
    BY <2>3 DEF StepOf, Wrote
  <2>5. step2 = "continue" => Id(NatsSet) \in DOMAIN stored'
    BY <2>1, <2>3, <2>4 DEF Ids
  <2>6. KeyInv'
    BY <1>0, <2>3, <2>4 DEF KeyInv, ConfUsesKey, IsStored
  <2> QED BY <1>2, <1>3, <2>3, <2>4, <2>5, <2>6
<1> QED BY <1>6, <1>7, <1>8, <1>10, <1>12, <1>13, <1>14, <1>15, <1>16, <1>18, <1>19,
           <1>20, <1>21 DEF NatsStep
-----------------------------------------------------------------------------
(***************************************************************************)
(* The Controller's routine keeps the invariant.                           *)
(***************************************************************************)
\* All that the Controller needs is stored, or the routine fails.
LEMMA ControllerObjectsEffect ==
  ASSUME IInv, ControllerObjectsStep
  PROVE  \E E : /\ StepOf("controller", E)
                /\ (at'["controller"] = "deploy" /\ ControllerHas')
                     \/ at'["controller"] = "error"
<1> DEFINE c == "controller"
           list == ControllerObjects(cp)
<1>1. /\ TypeOK /\ c \in Routines /\ cp \in ControlPlaneSpec
      /\ "objects" \in StepsOf[c] /\ "deploy" \in StepsOf[c]
  BY SpecOfPass DEF IInv, Routines, StepsOf
<1>2. List(list) /\ OwnList(c, list)
  BY <1>1, ControllerList, PlainIsOwn
<1>3. PICK E \in SUBSET Elements(list) :
        /\ StepOf(c, E)
        /\ credentials' = IF DbSecret \in E THEN cp.db ELSE credentials
        /\ \/ at'[c] = "deploy" /\ E = Elements(list) /\ ~NoPullSecret(list)
           \/ at'[c] = "error"
  <2>1. Ensure(c, list, "objects", "deploy")
    BY DEF ControllerObjectsStep
  <2> HIDE DEF list
  <2> QED BY <1>1, <1>2, <2>1, EnsureIsStep
<1>4. ASSUME at'[c] = "deploy", E = Elements(list), ~NoPullSecret(list)
      PROVE  ControllerHas'
  <2>1. cp' = cp /\ Wrote(E)
    BY <1>3 DEF StepOf
  <2>2. Ids(Elements(list)) \subseteq DOMAIN stored'
    BY <2>1, <1>4 DEF Wrote
  <2>3. credentials' = cp.db
    BY <1>1, <1>3, <1>4, ControllerList
  <2>4. cp.pullSecret # "missing"
    <3>1. Object("Role", "controller") \in Elements(list)
      BY <1>1, ControllerList
    <3> HIDE DEF list
    <3> QED BY <1>4, <3>1 DEF NoPullSecret, Object
  <2>5. ASSUME VaultKeys(cp.vault) # {}
        PROVE  stored'[VaultId] = VaultKeys(cp.vault)
    <3> DEFINE v == ObjectWith("Secret", VaultCredentials, VaultKeys(cp.vault))
    <3>1. v \in E
      BY <1>1, <1>4, <2>5, ControllerList
    <3>2. Rewritten(v) /\ Id(v) = VaultId
      BY DEF ObjectWith, Rewritten, Id, VaultId
    <3> HIDE DEF v
    <3>3. PICK o \in E : Id(o) = VaultId /\ stored'[VaultId] = o.parts
      BY <2>1, <3>1, <3>2 DEF Wrote
    <3>4. o.parts = VaultKeys(cp.vault)
      BY <1>1, <1>4, <3>3, ControllerList
    <3> QED BY <3>3, <3>4
  <2> QED BY <2>1, <2>2, <2>3, <2>4, <2>5 DEF ControllerHas, AllStored
<1> QED BY <1>3, <1>4

\* A new Deployment has the template of the pass.
LEMMA DeployNewIsStep ==
  ASSUME IInv, DeployNew
  PROVE  StepOf("controller", {ControllerDeployment}) /\ at'["controller"] = "requeue"
<1> DEFINE c == "controller"
           E == {ControllerDeployment}
<1>1. TypeOK
  BY DEF IInv
<1>2. /\ at[c] = "deploy" /\ at' = [at EXCEPT ![c] = "requeue"]
      /\ Store(<<ControllerDeployment>>) /\ Creating(E, 0)
      /\ template' = PodTemplate(cp)
      /\ UNCHANGED <<spec, ready, cp, hosts, outdated, misread, jsKey, confKey,
                     credentials, addresses, using, moved, known, api, rollout>>
  BY DEF DeployNew, Go, certificates, outside
<1>3. Wrote(E)
  <2>1. Elements(<<ControllerDeployment>>) = E
    BY OneObject
  <2> HIDE DEF E
  <2> QED BY <1>2, <2>1, StoreEffect
<1>4. /\ Cardinality(behind') <= 1 /\ behind' \subseteq DOMAIN stored'
      /\ events' \in 0..MaxEvents
  BY <1>1, <1>2, <1>3, CreatingEffect DEF Wrote
<1>5. /\ \A f \in Fixed : Id(ControllerDeployment) # Id(f)
      /\ Id(Deployment("router")) # Id(ControllerDeployment)
      /\ Id(NatsSet) # Id(ControllerDeployment)
  BY NamesOfFixed DEF Id, ControllerDeployment, Deployment, NatsSet, Object
<1>6. at'[c] = "requeue" /\ at[c] \in StepsOf[c] /\ "requeue" \in Ended
  BY <1>1, <1>2 DEF TypeOK, Routines, StepsOf, Ended, Failed
<1>7. StepOf(c, E)
  BY <1>1, <1>2, <1>3, <1>4, <1>5, <1>6 DEF StepOf, TypeOK, Ids
<1> QED BY <1>6, <1>7

\* An update gives it the template of the pass.
LEMMA DeployUpdateIsStep ==
  ASSUME IInv, DeployUpdate
  PROVE  /\ StepOf("controller", {}) /\ at["controller"] = "deploy"
         /\ at'["controller"] \in {"client", "requeue"}
         /\ template' = PodTemplate(cp) /\ UNCHANGED <<stored, credentials>>
<1> DEFINE c == "controller"
<1>1. TypeOK
  BY DEF IInv
<1>2. PICK to \in {"client", "requeue"} : Go(c, "deploy", to)
  BY DEF DeployUpdate
<1>3. /\ at[c] = "deploy" /\ at' = [at EXCEPT ![c] = to]
      /\ template' = PodTemplate(cp)
      /\ UNCHANGED <<spec, ready, cp, stored, behind, hosts, outdated, misread,
                     jsKey, confKey, credentials, addresses, using, moved, known>>
  BY <1>2 DEF DeployUpdate, Go, certificates, outside
<1>4. api' \in BOOLEAN /\ rollout' \in BOOLEAN
  <2>1. CASE template' = template
    BY <1>1, <2>1 DEF DeployUpdate, TypeOK
  <2>2. CASE template' # template
    BY <2>2 DEF DeployUpdate
  <2> QED BY <2>1, <2>2
<1>5. events' \in 0..MaxEvents
  BY <1>1, BoundsAssumption DEF DeployUpdate, Unfailing, Happen, TypeOK
<1>6. Wrote({})
  BY <1>3 DEF Wrote, Ids
<1>7. at'[c] = to /\ at[c] \in StepsOf[c] /\ to \in StepsOf[c] \cup Ended
  BY <1>1, <1>3 DEF TypeOK, Routines, StepsOf, Ended, Failed
<1>8. StepOf(c, {})
  BY <1>1, <1>3, <1>4, <1>5, <1>6, <1>7 DEF StepOf, TypeOK, Ids
<1> QED BY <1>3, <1>7, <1>8

\* A call that fails keeps the invariant, whoever makes it.
LEMMA FailedCallInv ==
  ASSUME IInv, NEW c \in Routines, StepOf(c, {}), UNCHANGED cluster,
         at'[c] \in {"requeue", "error", "missingProxy"}
  PROVE  IInv'
<1>1. /\ TypeOK' /\ PartsInv' /\ TemplateInv' /\ IsStored(OwnersCertificate)'
      /\ ReadyInv'
  BY StepKeeps
<1>2. stored' = stored /\ jsKey' = jsKey /\ confKey' = confKey
  BY DEF cluster
<1>3. KeyInv'
  BY <1>2 DEF IInv, KeyInv, ConfUsesKey, IsStored
<1>4. ControllerInv'
  <2>1. CASE c = "controller"
    BY <2>1 DEF ControllerInv
  <2>2. CASE c # "controller"
    BY <2>2, StepKeeps
  <2> QED BY <2>1, <2>2
<1>5. RouterInv'
  <2>1. CASE c = "router"
    <3>1. IsStored(Deployment("router"))' => IsStored(Deployment("router"))
      BY <1>2 DEF IsStored
    <3>2. AllStored(RouterFiles) => AllStored(RouterFiles)'
      BY <1>2 DEF AllStored
    <3> QED BY <2>1, <3>1, <3>2 DEF RouterInv, IInv
  <2>2. CASE c # "router"
    BY <2>2, StepKeeps
  <2> QED BY <2>1, <2>2
<1>6. NatsInv'
  <2>1. CASE c = "nats"
    <3>1. IsStored(NatsSet)' => IsStored(NatsSet)
      BY <1>2 DEF IsStored
    <3>2. /\ AllStored(BootstrapSecrets) => AllStored(BootstrapSecrets)'
          /\ AllStored(NatsCAs) => AllStored(NatsCAs)'
          /\ AllStored(NatsConfigMaps) => AllStored(NatsConfigMaps)'
      BY <1>2 DEF AllStored
    <3>3. NatsFiles => NatsFiles'
      BY <1>2, <3>2 DEF NatsFiles
    <3> QED BY <2>1, <3>1, <3>3 DEF NatsInv, IInv
  <2>2. CASE c # "nats"
    BY <2>2, StepKeeps
  <2> QED BY <2>1, <2>2
<1>7. CertInv'
  <2>1. CASE c = "nats"
    BY <2>1 DEF CertInv
  <2>2. CASE c # "nats"
    BY <2>2, StepKeeps
  <2> QED BY <2>1, <2>2
<1> QED BY <1>1, <1>3, <1>4, <1>5, <1>6, <1>7 DEF IInv

\* Each step of the Controller's routine.
LEMMA ControllerStepInv ==
  ASSUME IInv, ControllerStep
  PROVE  IInv'
<1> DEFINE c == "controller"
           step == at[c]
           step2 == at'[c]
           last == {"address", "finish", "continue"}
           failed == {"requeue", "error", "missingProxy"}
<1>0. /\ TypeOK /\ ControllerInv /\ c \in Routines
      /\ StepsOf[c] = {"objects", "deploy", "client", "proxy", "register", "hub",
                       "import", "address", "finish"}
      /\ Ended = {"requeue", "error", "missingProxy", "continue"}
  BY DEF IInv, Routines, StepsOf, Ended, Failed
\* It is enough to show what is the Controller's own.
<1>1. ASSUME NEW E, StepOf(c, E),
             step2 \in failed
               \/ (/\ ControllerHas'
                   /\ \/ step2 = "deploy"
                      \/ /\ step2 \in {"client", "proxy", "register", "hub", "import"}
                                        \cup last
                         /\ template' = PodTemplate(cp)
                   /\ step2 \in {"hub", "import"} \cup last => KnowsRouter'
                   /\ step2 \in {"import"} \cup last => KnowsHub'
                   /\ step2 \in last => KnowsCAs')
      PROVE  IInv'
  <2>1. cp' = cp
    BY <1>1 DEF StepOf
  <2>2. ControllerInv'
    BY <1>1, <2>1 DEF ControllerInv
  <2>3. /\ TypeOK' /\ PartsInv' /\ TemplateInv' /\ IsStored(OwnersCertificate)'
        /\ ReadyInv' /\ KeyInv' /\ NatsInv' /\ CertInv' /\ RouterInv'
    BY <1>0, <1>1, StepKeeps
  <2> QED BY <2>2, <2>3 DEF IInv
\* What has been done at each step.
<1>2. /\ step \in {"deploy", "client", "proxy", "register", "hub", "import"} \cup last
           => ControllerHas
      /\ step \in {"client", "proxy", "register", "hub", "import"} \cup last
           => template = PodTemplate(cp)
      /\ step \in {"hub", "import"} \cup last => KnowsRouter
      /\ step \in {"import"} \cup last => KnowsHub
      /\ step \in last => KnowsCAs
  BY <1>0 DEF ControllerInv
\* A step after the deployment, that stores nothing and is told no less.
<1>3. ASSUME NEW from \in StepsOf[c], NEW to \in StepsOf[c] \cup Ended,
             from \notin {"objects", "deploy"}, to \notin {"objects", "deploy"},
             Call(c, from, to), events' \in 0..MaxEvents, known \subseteq known',
             known' \subseteq {"router", "hub"} \cup known \cup Elements(ImportedCAs(cp)),
             to \in {"hub", "import"} \cup last => KnowsRouter',
             to \in {"import"} \cup last => KnowsHub',
             to \in last => KnowsCAs'
      PROVE  IInv'
  <2>1. StepOf(c, {}) /\ step2 = to /\ UNCHANGED cluster /\ step = from
    BY <1>0, <1>3, CallIsStep DEF Call, Go
  <2>2. cp' = cp /\ stored' = stored /\ credentials' = credentials
        /\ template' = template
    BY <2>1 DEF StepOf, cluster
  <2>3. ControllerHas' /\ template' = PodTemplate(cp)
    BY <1>0, <1>2, <1>3, <2>1, <2>2 DEF ControllerHas, AllStored
  <2> QED BY <1>0, <1>1, <1>3, <2>1, <2>3
\* What the Controller knows it still knows.
<1>4. ASSUME UNCHANGED <<cp, moved>>, known \subseteq known'
      PROVE  /\ KnowsRouter => KnowsRouter'
             /\ KnowsHub => KnowsHub'
             /\ KnowsCAs => KnowsCAs'
  BY <1>4 DEF KnowsRouter, KnowsHub, KnowsCAs
<1>5. CASE ControllerObjectsStep
  BY <1>1, <1>5, ControllerObjectsEffect
<1>6. CASE DeployNew
  BY <1>1, <1>6, DeployNewIsStep
<1>7. CASE DeployUpdate
  <2>1. /\ StepOf(c, {}) /\ step = "deploy" /\ step2 \in {"client", "requeue"}
        /\ template' = PodTemplate(cp) /\ UNCHANGED <<stored, credentials>>
    BY <1>7, DeployUpdateIsStep
  <2>2. cp' = cp
    BY <2>1 DEF StepOf
  <2>3. ControllerHas'
    BY <1>2, <2>1, <2>2 DEF ControllerHas, AllStored
  <2> QED BY <1>1, <2>1, <2>3
\* The calls that fail.
<1>8. ASSUME NEW from \in StepsOf[c], NEW to \in failed,
             Call(c, from, to), UNCHANGED known, events' \in 0..MaxEvents
      PROVE  IInv'
  <2>1. StepOf(c, {}) /\ step2 = to /\ UNCHANGED cluster
    BY <1>0, <1>8, CallIsStep
  <2> QED BY <1>0, <2>1, FailedCallInv
<1>9. Event \/ Unfailing => events' \in 0..MaxEvents
  BY <1>0, BoundsAssumption DEF Event, Unfailing, Happen, TypeOK
<1>10. ASSUME NEW from \in StepsOf[c], NEW name, Timeout(c, name, from)
       PROVE  IInv'
  BY <1>8, <1>9, <1>10 DEF Timeout
<1>11. CASE DeployStops
  BY <1>0, <1>8, <1>9, <1>11 DEF DeployStops
<1>12. events' = events => events' \in 0..MaxEvents
  BY <1>0 DEF TypeOK
<1>13. CASE Client
  <2>1. PICK to \in {"proxy", "requeue"} :
          Call(c, "client", to) /\ UNCHANGED <<known, events>>
    BY <1>13 DEF Client
  <2> QED BY <1>0, <1>3, <1>12, <2>1
<1>14. CASE Proxy
  <2>1. PICK to \in {"register", "missingProxy", "error"} :
          Call(c, "proxy", to) /\ UNCHANGED known /\ events' \in 0..MaxEvents
    <3>1. CASE cp.routerType = "LoadBalancer"
      BY <1>9, <1>14, <3>1 DEF Proxy, WaitOrTimeout, Wait, Timeout
    <3>2. CASE cp.routerType # "LoadBalancer"
      BY <1>12, <1>14, <3>2 DEF Proxy
    <3> QED BY <3>1, <3>2
  <2> QED BY <1>0, <1>3, <2>1
<1>15. CASE Register
  <2>1. events' \in 0..MaxEvents /\ UNCHANGED <<cp, moved>>
    BY <1>9, <1>15 DEF Register, Call, Go
  <2>2. CASE ~api
    <3>1. Call(c, "register", "error") /\ UNCHANGED known
      BY <1>15, <2>2 DEF Register
    <3> QED BY <1>0, <1>8, <2>1, <3>1
  <2>3. CASE api
    <3>1. known' = known \cup {"router"}
      BY <1>15, <2>3 DEF Register
    <3>2. KnowsRouter'
      BY <3>1 DEF KnowsRouter
    <3>3. CASE cp.nats
      <4>1. Call(c, "register", "hub")
        BY <1>15, <2>3, <3>3 DEF Register
      <4> QED BY <1>0, <1>3, <2>1, <3>1, <3>2, <4>1
    <3>4. CASE ~cp.nats
      <4>1. Call(c, "register", "import")
        BY <1>15, <2>3, <3>4 DEF Register
      <4>2. KnowsHub'
        BY <2>1, <3>4 DEF KnowsHub
      <4> QED BY <1>0, <1>3, <2>1, <3>1, <3>2, <4>1, <4>2
    <3> QED BY <3>3, <3>4
  <2> QED BY <2>2, <2>3
<1>16. CASE Hub
  <2>1. CASE Timeout(c, "nats", "hub")
    BY <1>0, <1>10, <2>1
  <2>2. CASE /\ Call(c, "hub", IF api THEN "import" ELSE "requeue")
             /\ known' = IF api THEN known \cup {"hub"} ELSE known
             /\ Unfailing
    <3>1. CASE ~api
      BY <1>0, <1>8, <1>9, <2>2, <3>1
    <3>2. CASE api
      <4>1. Call(c, "hub", "import") /\ known' = known \cup {"hub"}
        BY <2>2, <3>2
      <4>2. KnowsHub'
        BY <4>1 DEF KnowsHub
      <4>3. KnowsRouter' /\ step = "hub"
        BY <1>2, <1>4, <4>1 DEF Call, Go
      <4> QED BY <1>0, <1>3, <1>9, <2>2, <4>1, <4>2, <4>3
    <3> QED BY <3>1, <3>2
  <2>3. CASE /\ cp.natsType # "LoadBalancer" /\ ~cp.natsAddress
             /\ Call(c, "hub", "import")
             /\ UNCHANGED <<known, events>>
    <3>1. UNCHANGED <<cp, moved>> /\ step = "hub"
      BY <2>3 DEF Call, Go
    <3>2. KnowsHub' /\ KnowsRouter'
      BY <1>2, <1>4, <2>3, <3>1 DEF KnowsHub
    <3> QED BY <1>0, <1>3, <1>12, <2>3, <3>2
  <2> QED BY <1>16, <2>1, <2>2, <2>3 DEF Hub
<1>17. CASE Import
  <2>1. PICK to \in {"address", "requeue"} :
          /\ Call(c, "import", to)
          /\ to = "address" => Importable = Elements(ImportedCAs(cp))
    BY <1>17 DEF Import
  <2>2. known' = known \cup Importable /\ events' \in 0..MaxEvents
    BY <1>9, <1>17 DEF Import
  <2>3. Importable \subseteq Elements(ImportedCAs(cp))
    BY DEF Importable, Elements
  <2>4. UNCHANGED <<cp, moved>> /\ step = "import"
    BY <2>1 DEF Call, Go
  <2>5. KnowsRouter' /\ KnowsHub'
    BY <1>2, <1>4, <2>2, <2>4
  <2>6. to = "address" => KnowsCAs'
    BY <2>1, <2>2, <2>4 DEF KnowsCAs
  <2> QED BY <1>0, <1>3, <2>1, <2>2, <2>3, <2>5, <2>6
\* The last steps tell the Controller nothing.
<1>18. ASSUME NEW from \in {"address", "finish"}, NEW to \in failed \cup last,
              Call(c, from, to), UNCHANGED known, events' \in 0..MaxEvents
       PROVE  IInv'
  <2>1. UNCHANGED <<cp, moved>> /\ step = from
    BY <1>18 DEF Call, Go
  <2>2. KnowsRouter' /\ KnowsHub' /\ KnowsCAs'
    BY <1>2, <1>4, <1>18, <2>1
  <2> QED BY <1>0, <1>3, <1>18, <2>2
<1>19. CASE Address
  <2>1. UNCHANGED known
    BY <1>19 DEF Address
  <2>2. PICK to \in failed \cup last :
          Call(c, "address", to) /\ events' \in 0..MaxEvents
    <3>1. CASE cp.controllerType = "LoadBalancer"
      BY <1>9, <1>19, <3>1 DEF Address, Timeout
    <3>2. CASE cp.controllerType = "ClusterIP"
      BY <1>9, <1>19, <3>2 DEF Address
    <3>3. CASE cp.controllerType \notin {"LoadBalancer", "ClusterIP"}
      BY <1>9, <1>19, <3>3 DEF Address
    <3> QED BY <3>1, <3>2, <3>3
  <2> QED BY <1>18, <2>1, <2>2
<1>20. CASE Finish
  <2>1. PICK to \in {"continue", "error"} : Call(c, "finish", to)
    BY <1>20 DEF Finish
  <2>2. UNCHANGED <<known, events>>
    BY <1>20 DEF Finish
  <2> QED BY <1>12, <1>18, <2>1, <2>2
<1> QED BY <1>5, <1>6, <1>7, <1>11, <1>13, <1>14, <1>15, <1>16, <1>17, <1>19, <1>20
        DEF ControllerStep
-----------------------------------------------------------------------------
(***************************************************************************)
(* The world keeps the invariant, and so do the ends of a pass.            *)
(***************************************************************************)

\* What is left as it is when the namespace is.
LEMMA NamespaceKept ==
  ASSUME IInv, UNCHANGED <<stored, jsKey, confKey, credentials, template>>
  PROVE  /\ PartsInv' /\ KeyInv' /\ TemplateInv' /\ IsStored(OwnersCertificate)'
         /\ IsStored(Deployment("router"))' <=> IsStored(Deployment("router"))
         /\ IsStored(NatsSet)' <=> IsStored(NatsSet)
         /\ AllStored(RouterFiles)' <=> AllStored(RouterFiles)
         /\ AllStored(BootstrapSecrets)' <=> AllStored(BootstrapSecrets)
         /\ AllStored(NatsCAs)' <=> AllStored(NatsCAs)
         /\ AllStored(NatsConfigMaps)' <=> AllStored(NatsConfigMaps)
         /\ NatsFiles' <=> NatsFiles
<1>1. PartsInv'
  BY DEF IInv, PartsInv, IsStored
<1>2. KeyInv' /\ TemplateInv' /\ IsStored(OwnersCertificate)'
  BY DEF IInv, KeyInv, ConfUsesKey, TemplateInv, IsStored
<1>3. /\ IsStored(Deployment("router"))' <=> IsStored(Deployment("router"))
      /\ IsStored(NatsSet)' <=> IsStored(NatsSet)
  BY DEF IsStored
<1>4. /\ AllStored(RouterFiles)' <=> AllStored(RouterFiles)
      /\ AllStored(BootstrapSecrets)' <=> AllStored(BootstrapSecrets)
      /\ AllStored(NatsCAs)' <=> AllStored(NatsCAs)
      /\ AllStored(NatsConfigMaps)' <=> AllStored(NatsConfigMaps)
  BY DEF AllStored
<1>5. NatsFiles' <=> NatsFiles
  BY <1>4 DEF NatsFiles
<1> QED BY <1>1, <1>2, <1>3, <1>4, <1>5

\* And what a pass has done, when its spec is the same.
LEMMA PassKept ==
  ASSUME IInv, UNCHANGED <<cp, stored, hosts, jsKey, confKey, credentials, template>>,
         moved' \/ (moved' = moved /\ known \subseteq known')
  PROVE  /\ ControllerHas => ControllerHas'
         /\ KnowsRouter => KnowsRouter'
         /\ KnowsHub => KnowsHub'
         /\ KnowsCAs => KnowsCAs'
         /\ ControllerDone => ControllerDone'
         /\ AllStored(RouterObjects(cp)) => AllStored(RouterObjects(cp))'
         /\ AllStored(NatsObjects(cp)) => AllStored(NatsObjects(cp))'
         /\ RouterDone => RouterDone'
         /\ NatsRest => NatsRest'
         /\ ServersDone => ServersDone'
<1>1. /\ ControllerHas => ControllerHas'
      /\ AllStored(RouterObjects(cp)) => AllStored(RouterObjects(cp))'
      /\ AllStored(NatsObjects(cp)) => AllStored(NatsObjects(cp))'
  BY DEF ControllerHas, AllStored
<1>2. /\ KnowsRouter => KnowsRouter'
      /\ KnowsHub => KnowsHub'
      /\ KnowsCAs => KnowsCAs'
  BY DEF KnowsRouter, KnowsHub, KnowsCAs
<1>3. ControllerDone => ControllerDone'
  BY <1>1, <1>2 DEF ControllerDone
<1>4. /\ RouterDone => RouterDone'
      /\ NatsRest => NatsRest'
      /\ ServersDone => ServersDone'
  BY <1>1, NamespaceKept DEF RouterDone, NatsRest, ServersDone
<1> QED BY <1>1, <1>2, <1>3, <1>4

\* The routines are where they were.
LEMMA StepsKept ==
  ASSUME IInv, UNCHANGED <<cp, at, stored, hosts, misread, jsKey, confKey,
                           credentials, template>>,
         moved' \/ (moved' = moved /\ known \subseteq known'), TypeOK',
         ready' => ready /\ spec' = spec
  PROVE  IInv'
<1>1. ControllerInv'
  BY PassKept DEF ControllerInv, IInv
<1>2. RouterInv'
  BY PassKept, NamespaceKept DEF RouterInv, IInv
<1>3. NatsInv'
  BY PassKept, NamespaceKept DEF NatsInv, IInv
<1>4. ReadyInv'
  BY PassKept DEF ReadyInv, IInv
<1>5. CertInv'
  <2>1. CertInv
    BY DEF IInv
  <2> QED BY <2>1 DEF CertInv, ServersDone
<1> QED BY <1>1, <1>2, <1>3, <1>4, <1>5, NamespaceKept DEF IInv

\* No pass is on.
LEMMA StepsEnded ==
  ASSUME IInv, at' = [c \in Routines |-> "off"],
         UNCHANGED <<stored, jsKey, confKey, credentials, template>>, TypeOK', ReadyInv'
  PROVE  IInv'
<1>1. at'["controller"] = "off" /\ at'["router"] = "off" /\ at'["nats"] = "off"
  BY DEF Routines
<1>2. ControllerInv'
  BY <1>1 DEF ControllerInv
<1>3. RouterInv'
  BY <1>1, NamespaceKept DEF RouterInv, IInv
<1>4. NatsInv' /\ CertInv'
  BY <1>1, NamespaceKept DEF NatsInv, CertInv, IInv
<1> QED BY <1>2, <1>3, <1>4, NamespaceKept DEF IInv

\* A pass starts with routines that have done nothing.
LEMMA StartPassInv ==
  ASSUME IInv, StartPass
  PROVE  IInv'
<1>1. /\ ~ready /\ cp' = spec /\ misread' = FALSE
      /\ at' = [controller |-> "objects", router |-> "objects", nats |-> "client"]
      /\ UNCHANGED <<spec, ready, stored, behind, hosts, outdated, jsKey, confKey,
                     credentials, template, addresses, using, moved, known, api,
                     rollout, events>>
  BY DEF StartPass, cluster, certificates, outside
<1>2. /\ at'["controller"] = "objects" /\ at'["router"] = "objects"
      /\ at'["nats"] = "client"
  BY <1>1
<1>3. DOMAIN at' = Routines
      /\ \A c \in Routines : at'[c] \in StepsOf[c] \cup Ended \cup {"off"}
  BY <1>1 DEF Routines, StepsOf
<1>4. TypeOK'
  BY <1>1, <1>3 DEF IInv, TypeOK
<1>5. ControllerInv'
  BY <1>2 DEF ControllerInv
<1>6. RouterInv'
  BY <1>1, <1>2, NamespaceKept DEF RouterInv, IInv
<1>7. NatsInv' /\ CertInv'
  BY <1>1, <1>2, NamespaceKept DEF NatsInv, CertInv, IInv
<1>8. ReadyInv'
  BY <1>1 DEF ReadyInv
<1> QED BY <1>1, <1>4, <1>5, <1>6, <1>7, <1>8, NamespaceKept DEF IInv

\* The object is ready when all three are done.
LEMMA EndPassInv ==
  ASSUME IInv, EndPass
  PROVE  IInv'
<1>1. /\ at' = [c \in Routines |-> "off"] /\ ready' = (Succeeded /\ cp = spec)
      /\ UNCHANGED <<spec, cp, stored, behind, hosts, outdated, misread, jsKey,
                     confKey, credentials, template, addresses, using, moved, known,
                     api, rollout, events>>
  BY DEF EndPass, cluster, certificates, outside
<1>2. TypeOK'
  BY <1>1 DEF IInv, TypeOK, Routines
<1>3. ASSUME ready'
      PROVE  /\ cp' = spec' /\ \A c \in Routines : at'[c] = "off"
             /\ ControllerDone' /\ RouterDone' /\ (cp'.nats => NatsRest')
             /\ (cp'.nats /\ ~misread') => ServersDone'
  <2>1. at["controller"] = "continue" /\ at["router"] = "continue"
        /\ at["nats"] = "continue" /\ cp = spec
    BY <1>1, <1>3 DEF Succeeded, Routines
  <2>2. ControllerDone
    BY <2>1 DEF IInv, ControllerInv, ControllerDone
  <2>3. RouterDone
    BY <2>1 DEF IInv, RouterInv, RouterDone
  <2>4. (cp.nats => NatsRest) /\ (cp.nats /\ ~misread => ServersDone)
    BY <2>1 DEF IInv, NatsInv, CertInv
  <2>5. /\ ControllerDone' /\ RouterDone' /\ (cp.nats => NatsRest')
        /\ cp.nats /\ ~misread => ServersDone'
    BY <1>1, <2>2, <2>3, <2>4, PassKept
  <2> QED BY <1>1, <2>1, <2>5
<1>4. ReadyInv'
  BY <1>3 DEF ReadyInv
<1> QED BY <1>1, <1>2, <1>4, StepsEnded

\* A crash forgets the pass.
LEMMA CrashInv ==
  ASSUME IInv, Crash
  PROVE  IInv'
<1>1. /\ at' = [c \in Routines |-> "off"] /\ behind' = {}
      /\ outdated' = [s \in Servers |-> {}]
      /\ UNCHANGED <<spec, ready, cp, stored, hosts, misread, jsKey, confKey,
                     credentials, template, addresses, using, moved, known, api,
                     rollout>>
  BY DEF Crash, outside
<1>2. events' \in 0..MaxEvents
  BY BoundsAssumption DEF Crash, Event, Happen, IInv, TypeOK
<1>3. Cardinality({}) <= 1
  BY FS_EmptySet
<1>4. TypeOK'
  BY <1>1, <1>2, <1>3 DEF IInv, TypeOK, Routines
<1>5. ~ready'
  BY <1>1 DEF Crash, IInv, ReadyInv
<1> QED BY <1>1, <1>4, <1>5, StepsEnded DEF ReadyInv

\* A pod of the Controller starts: another database leaves "moved" behind.
LEMMA StartControllerInv ==
  ASSUME IInv, StartController
  PROVE  IInv'
<1>1. /\ IsStored(ControllerDeployment)
      /\ api' = TRUE /\ rollout' = FALSE
      /\ using' = [externalDb |-> template.externalDb, db |-> credentials]
      /\ known' \in {known, {}} /\ moved' = (moved \/ known' # known)
      /\ UNCHANGED <<spec, ready, cp, at, stored, behind, hosts, outdated, misread,
                     jsKey, confKey, credentials, template, addresses, events>>
  BY DEF StartController, cluster, certificates
<1>2. using' \in [externalDb : BOOLEAN, db : Nat]
  BY <1>1 DEF IInv, TemplateInv, TypeOK
<1>3. TypeOK'
  <2>1. moved' \in BOOLEAN
    BY <1>1
  <2>2. known' \subseteq known
    BY <1>1
  <2> QED BY <1>1, <1>2, <2>1, <2>2 DEF IInv, TypeOK
<1>4. moved' \/ (moved' = moved /\ known \subseteq known')
  BY <1>1 DEF IInv, TypeOK
<1> QED BY <1>1, <1>3, <1>4, StepsKept

\* What else the world does changes no object and no step.
LEMMA WorldInv ==
  ASSUME IInv, Cloud \/ Deliver \/ DeliverServers \/ Edit \/ Outage
  PROVE  IInv'
<1>1. CASE Cloud
  <2>1. /\ addresses' = addresses \cup Addressable
        /\ UNCHANGED <<spec, ready, cp, at, stored, behind, hosts, outdated, misread,
                       jsKey, confKey, credentials, template, api, rollout, using,
                       moved, known, events>>
    BY <1>1 DEF Cloud, cluster, certificates
  <2>2. TypeOK'
    <3>1. Addressable \subseteq {"controller", "router", "nats", "pot-controller"}
      BY DEF Addressable
    <3> QED BY <2>1, <3>1 DEF IInv, TypeOK
  <2> QED BY <2>1, <2>2, StepsKept
<1>2. CASE Deliver
  <2>1. /\ behind' = {}
        /\ UNCHANGED <<spec, ready, cp, at, stored, hosts, outdated, misread, jsKey,
                       confKey, credentials, template, addresses, using, moved, known,
                       api, rollout, events>>
    BY <1>2 DEF Deliver, certificates, outside
  <2>2. TypeOK'
    BY <2>1, FS_EmptySet DEF IInv, TypeOK
  <2> QED BY <2>1, <2>2, StepsKept
<1>5. CASE DeliverServers
  <2>1. /\ outdated' = [s \in Servers |-> {}]
        /\ UNCHANGED <<spec, ready, cp, at, stored, behind, hosts, misread, jsKey,
                       confKey, credentials, template, addresses, using, moved, known,
                       api, rollout, events>>
    BY <1>5 DEF DeliverServers, outside
  <2>2. TypeOK'
    BY <2>1 DEF IInv, TypeOK
  <2> QED BY <2>1, <2>2, StepsKept
<1>3. CASE Edit
  <2>1. /\ spec' \in Specs /\ ready' = FALSE
        /\ UNCHANGED <<cp, at, stored, behind, hosts, outdated, misread, jsKey,
                       confKey, credentials, template, addresses, using, moved, known,
                       api, rollout>>
    BY <1>3 DEF Edit, cluster, certificates, outside
  <2>2. events' \in 0..MaxEvents
    BY <1>3, BoundsAssumption DEF Edit, Event, Happen, IInv, TypeOK
  <2>3. TypeOK'
    BY <2>1, <2>2 DEF IInv, TypeOK
  <2> QED BY <2>1, <2>3, StepsKept
<1>4. CASE Outage
  <2>1. /\ api' = FALSE
        /\ UNCHANGED <<spec, ready, cp, at, stored, behind, hosts, outdated, misread,
                       jsKey, confKey, credentials, template, addresses, using, moved,
                       known, rollout>>
    BY <1>4 DEF Outage, cluster, certificates, outside
  <2>2. events' \in 0..MaxEvents
    BY <1>4, BoundsAssumption DEF Outage, Event, Happen, IInv, TypeOK
  <2>3. TypeOK'
    BY <2>1, <2>2 DEF IInv, TypeOK
  <2> QED BY <2>1, <2>3, StepsKept
<1> QED BY <1>1, <1>2, <1>3, <1>4, <1>5

\* A call that fails.
LEMMA CallFailsInv ==
  ASSUME IInv, CallFails
  PROVE  IInv'
<1>1. PICK call \in Calling, to \in {"requeue", "error"} : Call(call[1], call[2], to)
  BY DEF CallFails
<1>2. call[1] \in Routines /\ call[2] \in StepsOf[call[1]]
  BY <1>1 DEF Calling, Routines, StepsOf
<1>3. events' \in 0..MaxEvents /\ UNCHANGED known
  BY BoundsAssumption DEF CallFails, Event, Happen, IInv, TypeOK
<1>4. to \in StepsOf[call[1]] \cup Ended
  BY DEF Ended, Failed
<1> QED BY <1>1, <1>2, <1>3, <1>4, CallIsStep, FailedCallInv
-----------------------------------------------------------------------------
(***************************************************************************)
(* What is done is not undone.                                             *)
(***************************************************************************)

\* A step that takes nothing back of what passes about this spec have done.
Advances ==
  /\ DOMAIN stored \subseteq DOMAIN stored'
  /\ VaultId \in DOMAIN stored
       => stored'[VaultId] \in {stored[VaultId], VaultKeys(cp.vault)}
  /\ credentials' \in {credentials, cp.db}
  /\ template' \in {template, PodTemplate(cp)}
  /\ moved' \/ (moved' = moved /\ known \subseteq known')
  /\ jsKey \in Keys => jsKey' = jsKey
  /\ confKey \in Keys => confKey' \in Keys
  /\ \/ hosts' = hosts \/ misread'
     \/ hosts[SiteServer] = NatsReplicas(cp) =>
          \A s \in Servers : hosts[s] # 0 => hosts'[s] = hosts[s]

\* After such a step a routine that was done is done, when the spec of the
\* pass is the same, unless certificates were deleted that had been misread.
LEMMA AdvanceKeepsDone ==
  ASSUME IInv, Advances, cp' = cp, NEW c \in Routines, Done(c)
  PROVE  Done(c)' \/ (c = "nats" /\ misread' /\ hosts' # hosts)
<1>1. DOMAIN stored \subseteq DOMAIN stored'
  BY DEF Advances
<1>2. CASE c = "controller"
  <2>1. ControllerHas /\ template = PodTemplate(cp)
        /\ KnowsRouter /\ KnowsHub /\ KnowsCAs
    BY <1>2 DEF Done, ControllerDone
  <2>2. AllStored(ControllerObjects(cp))'
    BY <1>1, <2>1 DEF ControllerHas, AllStored
  <2>3. ASSUME VaultKeys(cp.vault) # {}
        PROVE  stored'[VaultId] = VaultKeys(cp.vault)
    <3> DEFINE v == ObjectWith("Secret", VaultCredentials, VaultKeys(cp.vault))
    <3>1. v \in Elements(ControllerObjects(cp)) /\ Id(v) = VaultId
      BY <2>3, SpecOfPass, ControllerList DEF IInv, Id, ObjectWith, VaultId
    <3> HIDE DEF v
    <3>2. VaultId \in DOMAIN stored
      BY <2>1, <3>1 DEF ControllerHas, AllStored, Ids
    <3> QED BY <2>1, <2>3, <3>2 DEF ControllerHas, Advances
  <2>4. credentials' = cp.db /\ cp.pullSecret # "missing"
        /\ template' = PodTemplate(cp)
    BY <2>1 DEF Advances, ControllerHas
  <2>5. ControllerHas'
    BY <2>2, <2>3, <2>4 DEF ControllerHas
  <2>6. KnowsRouter' /\ KnowsHub' /\ KnowsCAs'
    BY <2>1 DEF Advances, KnowsRouter, KnowsHub, KnowsCAs
  <2> QED BY <1>2, <2>4, <2>5, <2>6 DEF Done, ControllerDone
<1>3. CASE c = "router"
  <2>1. RouterDone
    BY <1>3 DEF Done
  <2>2. RouterDone'
    BY <1>1, <2>1 DEF RouterDone, AllStored, IsStored
  <2> QED BY <1>3, <2>2 DEF Done
<1>4. CASE c = "nats" /\ cp.nats
  <2>1. NatsDone
    BY <1>4 DEF Done
  <2>2. NatsRest /\ ServersDone
    BY <2>1, PartsOfNats
  <2>3. jsKey' \in Keys /\ confKey' \in Keys
    BY <2>2 DEF NatsRest, NatsFiles, Advances
  <2>4. NatsRest'
    BY <1>1, <2>2, <2>3 DEF NatsRest, NatsFiles, AllStored, IsStored
  <2>5. CASE misread' /\ hosts' # hosts
    BY <1>4, <2>5
  <2>6. CASE ~(misread' /\ hosts' # hosts)
    <3>1. hosts'[SiteServer] = hosts[SiteServer] /\ hosts'[MqttServer] # 0
      <4>1. CASE hosts' = hosts
        BY <2>2, <4>1 DEF ServersDone
      <4>2. CASE hosts' # hosts
        <5>1. \A s \in Servers : hosts[s] # 0 => hosts'[s] = hosts[s]
          BY <2>2, <2>6, <4>2 DEF Advances, ServersDone
        <5>2. hosts[SiteServer] # 0
          BY <2>2, ReplicasOfPass DEF ServersDone, IInv
        <5> QED BY <2>2, <5>1, <5>2, TwoServers DEF ServersDone
      <4> QED BY <4>1, <4>2
    <3>2. ServersDone'
      BY <2>2, <3>1 DEF ServersDone
    <3>3. NatsDone'
      BY <2>4, <3>2 DEF NatsDone, NatsRest, ServersDone
    <3> QED BY <1>4, <3>3 DEF Done
  <2> QED BY <2>5, <2>6
<1>5. CASE c = "nats" /\ ~cp.nats
  BY <1>5 DEF Done
<1> QED BY <1>2, <1>3, <1>4, <1>5 DEF Routines

\* Ensuring objects advances, when the vault's credentials are the spec's.
LEMMA EnsureAdvances ==
  ASSUME TypeOK, NEW c \in Routines, NEW list, List(list), NEW from, NEW to,
         \A o \in Elements(list) : Id(o) = VaultId => o.parts = VaultKeys(cp.vault),
         Ensure(c, list, from, to)
  PROVE  Advances
<1>1. /\ UNCHANGED <<hosts, jsKey, confKey, template, moved, known>>
      /\ \E E \in SUBSET Elements(list) :
           Wrote(E) /\ credentials' = IF DbSecret \in E THEN cp.db ELSE credentials
  BY EnsureEffect
<1>2. PICK E \in SUBSET Elements(list) :
        Wrote(E) /\ credentials' = IF DbSecret \in E THEN cp.db ELSE credentials
  BY <1>1
<1>3. DOMAIN stored \subseteq DOMAIN stored'
  BY <1>2 DEF Wrote
<1>4. ASSUME VaultId \in DOMAIN stored
      PROVE  stored'[VaultId] \in {stored[VaultId], VaultKeys(cp.vault)}
  BY <1>2, <1>3, <1>4 DEF Wrote
<1> QED BY <1>1, <1>2, <1>3, <1>4 DEF Advances

\* So does every step.
LEMMA NextAdvances ==
  ASSUME IInv, Next
  PROVE  Advances
<1>0. TypeOK /\ cp \in ControlPlaneSpec
  BY SpecOfPass DEF IInv
<1>1. ASSUME NEW c, NEW from, NEW to, Call(c, from, to), known \subseteq known'
      PROVE  Advances
  BY <1>1 DEF Call, cluster, certificates, Advances
<1>2. ASSUME NEW c, NEW name, NEW from, NEW to, WaitOrTimeout(c, name, from, to)
      PROVE  Advances
  BY <1>1, <1>2 DEF WaitOrTimeout, Wait, Timeout
<1>3. ASSUME NEW c \in Routines, NEW list, NEW from, NEW to, List(list),
             NoneRewritten(Elements(list)), Ensure(c, list, from, to)
      PROVE  Advances
  <2>1. \A o \in Elements(list) : Id(o) # VaultId
    BY <1>3 DEF NoneRewritten, Rewritten, Id, VaultId
  <2> QED BY <1>0, <1>3, <2>1, EnsureAdvances
\* A workload is no secret.
<1>4. ASSUME NEW o, o.kind \in {"Deployment", "StatefulSet"}
      PROVE  /\ List(<<o>>)
             /\ \A p \in Elements(<<o>>) : Id(p) # VaultId
  BY <1>4, OneObject DEF Id, VaultId
<1>5. CASE RouterStep
  <2>1. CASE RouterObjectsStep \/ RouterFilesStep
    BY <1>0, <1>3, <2>1, RouterLists DEF RouterObjectsStep, RouterFilesStep, Routines
  <2>2. CASE RouterAddress
    BY <1>1, <1>2, <2>2 DEF RouterAddress
  <2>3. CASE RouterDeploy
    <3> DEFINE o == Deployment("router")
    <3>1. o.kind = "Deployment" /\ Ensure("router", <<o>>, "deploy", "continue")
      BY <2>3 DEF Deployment, Object, RouterDeploy
    <3> HIDE DEF o
    <3>2. List(<<o>>) /\ \A p \in Elements(<<o>>) : Id(p) # VaultId
      BY <1>4, <3>1
    <3> QED BY <1>0, <3>1, <3>2, EnsureAdvances DEF Routines
  <2> QED BY <1>5, <2>1, <2>2, <2>3 DEF RouterStep
<1>6. ASSUME NEW key, NEW n, StoreKey(key, n), jsKey \notin Keys, UNCHANGED cp
      PROVE  Advances
  <2>1. /\ stored' = With({JetStreamKey})
        /\ UNCHANGED <<hosts, confKey, credentials, template, moved, known>>
    BY <1>6 DEF StoreKey, certificates, outside
  <2>2. VaultId \notin Ids({JetStreamKey})
    BY DEF Ids, Id, JetStreamKey, ObjectWith, VaultId, VaultCredentials
  <2>3. /\ DOMAIN stored \subseteq DOMAIN stored'
        /\ VaultId \in DOMAIN stored => stored'[VaultId] = stored[VaultId]
    BY <2>1, <2>2, WithEffect
  <2> QED BY <1>6, <2>1, <2>3 DEF Advances
<1>7. ASSUME NEW key \in KeyRead \cup {"none"}, NEW n, NEW faults,
             SaveConfig(key, n, faults), key = "none" => n = 0, n \in 0..2
      PROVE  Advances
  <2>1. /\ Store(SubSeq(NatsConfigMaps, 1, n))
        /\ confKey' = IF n > 0 THEN key ELSE confKey
        /\ UNCHANGED <<hosts, jsKey, credentials, template, moved, known>>
    BY <1>7 DEF SaveConfig, certificates, outside
  <2>2. confKey \in Keys => confKey' \in Keys
    <3>1. confKey \in Keys => confKey = jsKey
      BY KeysAssumption DEF IInv, KeyInv, ConfUsesKey
    <3>2. key \in {jsKey, "none"}
      BY DEF KeyRead
    <3> QED BY <1>7, <2>1, <3>1, <3>2
  <2>3. /\ List(NatsConfigMaps) /\ NoneRewritten(Elements(NatsConfigMaps))
        /\ Len(NatsConfigMaps) = 2
    BY <1>0, NatsLists DEF NatsConfigMaps
  <2>4. Elements(SubSeq(NatsConfigMaps, 1, n)) \subseteq Elements(NatsConfigMaps)
    BY <1>7, <2>3, FirstObjects
  <2> DEFINE part == SubSeq(NatsConfigMaps, 1, n)
  <2> HIDE DEF part
  <2>5. Wrote(Elements(part)) /\ Elements(part) \subseteq Elements(NatsConfigMaps)
    BY <2>1, <2>4, StoreEffect DEF part
  <2>6. \A o \in Elements(part) : Id(o) # VaultId
    BY <2>3, <2>5 DEF NoneRewritten, Rewritten, Id, VaultId
  <2>7. /\ DOMAIN stored \subseteq DOMAIN stored'
        /\ VaultId \in DOMAIN stored => stored'[VaultId] = stored[VaultId]
    BY <2>5, <2>6 DEF Wrote
  <2> QED BY <2>1, <2>2, <2>7 DEF Advances
<1>8. CASE NatsStep
  <2>1. CASE NatsClient \/ KeyFound \/ KeyCollides
    BY <1>1, <2>1 DEF NatsClient, KeyFound, KeyCollides
  <2>2. CASE NatsBootstrap \/ NatsObjectsStep \/ NatsCAsStep
    BY <1>0, <1>3, <2>2, NatsLists
       DEF NatsBootstrap, NatsObjectsStep, NatsCAsStep, Routines
  <2>3. CASE NatsDeploy
    <3> DEFINE o == NatsSet
    <3>1. o.kind = "StatefulSet" /\ Ensure("nats", <<o>>, "deploy", "continue")
      BY <2>3 DEF NatsSet, Object, NatsDeploy
    <3> HIDE DEF o
    <3>2. List(<<o>>) /\ \A p \in Elements(<<o>>) : Id(p) # VaultId
      BY <1>4, <3>1
    <3> QED BY <1>0, <3>1, <3>2, EnsureAdvances DEF Routines
  <2>4. CASE KeyCreated \/ KeyFails
    <3>1. jsKey \notin Keys /\ UNCHANGED cp
      BY <2>4, KeysAssumption DEF KeyCreated, KeyFails, Go
    <3>2. CASE UNCHANGED <<cluster, outside>>
      BY <3>2 DEF cluster, certificates, outside, Advances
    <3> QED BY <1>6, <2>4, <3>1, <3>2 DEF KeyCreated, KeyFails
  <2>5. CASE NatsAddress
    BY <1>1, <1>2, <2>5 DEF NatsAddress
  <2>6. CASE NatsConfig \/ NatsConfigStops
    <3>1. PICK key \in KeyRead \cup {"none"}, n \in 0..2, faults \in {0, 1} :
            SaveConfig(key, n, faults) /\ (key = "none" => n = 0)
      BY <2>6 DEF NatsConfig, NatsConfigStops
    <3> QED BY <1>7, <3>1
  <2>7. CASE CompareReplicas \/ CompareFails \/ ReplaceStops
               \/ IssueServers \/ IssueStops
    <3>1. UNCHANGED <<stored, jsKey, confKey>>
          /\ \/ hosts' = hosts \/ misread'
             \/ hosts[SiteServer] = NatsReplicas(cp) =>
                  \A s \in Servers : hosts[s] # 0 => hosts'[s] = hosts[s]
      BY <2>7, CertificateSteps
    <3>2. UNCHANGED <<credentials, template, moved, known>>
      BY <2>7 DEF CompareReplicas, CompareFails, ReplaceStops, IssueServers,
         IssueStops, Certify, outside
    <3> QED BY <3>1, <3>2 DEF Advances
  <2> QED BY <1>8, <2>1, <2>2, <2>3, <2>4, <2>5, <2>6, <2>7 DEF NatsStep
<1>9. CASE ControllerStep
  <2>1. CASE ControllerObjectsStep
    BY <1>0, <2>1, ControllerList, EnsureAdvances DEF ControllerObjectsStep, Routines
  <2>2. CASE DeployNew
    <3> DEFINE o == ControllerDeployment
    <3>1. o.kind = "Deployment"
      BY DEF ControllerDeployment, Deployment, Object
    <3>2. /\ Store(<<o>>) /\ template' = PodTemplate(cp)
          /\ UNCHANGED <<hosts, jsKey, confKey, credentials, moved, known>>
      BY <2>2 DEF DeployNew, certificates, outside
    <3> HIDE DEF o
    <3>3. \A p \in Elements(<<o>>) : Id(p) # VaultId
      BY <1>4, <3>1
    <3>4. Wrote(Elements(<<o>>))
      BY <3>2, StoreEffect
    <3>5. /\ DOMAIN stored \subseteq DOMAIN stored'
          /\ VaultId \in DOMAIN stored => stored'[VaultId] = stored[VaultId]
      BY <3>3, <3>4 DEF Wrote
    <3> QED BY <3>2, <3>5 DEF Advances
  <2>3. CASE DeployUpdate
    BY <2>3 DEF DeployUpdate, certificates, outside, Advances
  <2>4. CASE DeployStops \/ Client \/ Register \/ Import \/ Finish
    BY <1>1, <2>4 DEF DeployStops, Client, Register, Import, Finish
  <2>5. CASE Proxy
    BY <1>1, <1>2, <2>5 DEF Proxy
  <2>6. CASE Hub
    BY <1>1, <2>6 DEF Hub, Timeout
  <2>7. CASE Address
    BY <1>1, <2>7 DEF Address, Timeout
  <2> QED BY <1>9, <2>1, <2>2, <2>3, <2>4, <2>5, <2>6, <2>7 DEF ControllerStep
<1>10. CASE CallFails
  BY <1>1, <1>10 DEF CallFails
<1>11. CASE StartController
  BY <1>11 DEF StartController, cluster, certificates, Advances, IInv, TypeOK
<1>12. CASE StartPass \/ EndPass \/ Cloud \/ Deliver \/ DeliverServers \/ Edit
              \/ Outage \/ Crash
  <2>1. UNCHANGED <<stored, hosts, jsKey, confKey, credentials, template, moved, known>>
    BY <1>12 DEF StartPass, EndPass, Cloud, Deliver, DeliverServers, Edit, Outage,
       Crash, cluster, certificates, outside
  <2> QED BY <2>1 DEF Advances
<1> QED BY <1>5, <1>8, <1>9, <1>10, <1>11, <1>12 DEF Next
-----------------------------------------------------------------------------
(***************************************************************************)
(* The invariant, and what it says.                                        *)
(***************************************************************************)
\* The invariant holds at first.
LEMMA InitInv == Init => IInv
<1> SUFFICES ASSUME Init PROVE IInv
  OBVIOUS
<1>1. /\ spec \in Specs /\ cp = spec /\ ready = FALSE
      /\ at = [c \in Routines |-> "off"]
      /\ jsKey \in {"none", "empty"} /\ confKey = "none"
      /\ behind = {} /\ addresses = {} /\ known = {}
      /\ outdated = [s \in Servers |-> {}] /\ misread = FALSE
      /\ credentials = 0 /\ using = [externalDb |-> FALSE, db |-> 0]
      /\ template = NoTemplate /\ moved = FALSE
      /\ api = FALSE /\ rollout = FALSE /\ events = 0
  BY DEF Init
<1>2. /\ DOMAIN stored = {Id(OwnersCertificate)} \cup
                           (IF jsKey = "empty" THEN {Id(JetStreamKey)} ELSE {})
      /\ jsKey = "empty" => stored[Id(JetStreamKey)] = JetStreamKey.parts
  BY DEF Init
<1>3. /\ Id(OwnersCertificate) = <<"Secret", "owners-certificate">>
      /\ Id(JetStreamKey) = <<"Secret", "nats-jetstream-key">>
      /\ Id(ControllerDeployment) = <<"Deployment", "controller">>
      /\ Id(Deployment("router")) = <<"Deployment", "router">>
      /\ Id(NatsSet) = <<"StatefulSet", "nats">>
  BY DEF Id, OwnersCertificate, JetStreamKey, ControllerDeployment, Deployment,
     NatsSet, Object, ObjectWith
<1>4. TypeOK
  <2>1. using \in [externalDb : BOOLEAN, db : Nat] /\ events \in 0..MaxEvents
    BY <1>1, BoundsAssumption
  <2>2. Cardinality(behind) <= 1 /\ behind \subseteq DOMAIN stored
    BY <1>1, FS_EmptySet
  <2>3. DOMAIN at = Routines
        /\ \A c \in Routines : at[c] \in StepsOf[c] \cup Ended \cup {"off"}
    BY <1>1
  <2>4. addresses \subseteq {"controller", "router", "nats", "pot-controller"}
        /\ known \subseteq {"router", "hub", "router-site-ca",
                            "default-router-local-ca", "nats-site-ca",
                            "default-nats-local-ca"}
    BY <1>1
  <2>5. hosts \in [Servers -> Nat] /\ outdated \in [Servers -> SUBSET Nat]
    <3>1. PICK n \in {0} \cup {left[2] : left \in {l \in Left : l[1] = spec}} :
            hosts = [s \in Servers |-> n]
      BY DEF Init
    <3>2. n \in Nat
      BY BoundsAssumption
    <3> QED BY <1>1, <3>1, <3>2
  <2> QED BY <1>1, <2>1, <2>2, <2>3, <2>4, <2>5 DEF TypeOK
<1>5. PartsInv
  <2> SUFFICES ASSUME NEW f \in Fixed, Id(f) \in DOMAIN stored
               PROVE  stored[Id(f)] = f.parts
    BY DEF PartsInv, IsStored
  <2>1. Id(f) # Id(OwnersCertificate)
    BY <1>3, NamesOfFixed DEF Id, AuthCredentials, DbCredentials
  <2>2. Id(f) = Id(JetStreamKey) /\ jsKey = "empty"
    BY <1>2, <2>1
  <2>3. f.parts = JetStreamKey.parts
    BY <2>2 DEF Fixed, Id, AuthSecret, DbSecret, JetStreamKey, ObjectWith,
       AuthCredentials, DbCredentials
  <2> QED BY <1>2, <2>2, <2>3
<1>6. KeyInv /\ TemplateInv /\ IsStored(OwnersCertificate)
  BY <1>1, <1>2, <1>3 DEF KeyInv, ConfUsesKey, TemplateInv, IsStored
<1>7. at["controller"] = "off" /\ at["router"] = "off" /\ at["nats"] = "off"
  BY <1>1 DEF Routines
<1>8. ControllerInv
  BY <1>7 DEF ControllerInv
<1>9. RouterInv
  BY <1>2, <1>3, <1>7 DEF RouterInv, IsStored
<1>10. NatsInv /\ CertInv
  BY <1>2, <1>3, <1>7 DEF NatsInv, CertInv, IsStored
<1> QED BY <1>1, <1>4, <1>5, <1>6, <1>8, <1>9, <1>10 DEF IInv, ReadyInv

\* Every step keeps it.
LEMMA NextInv == IInv /\ [Next]_vars => IInv'
<1> SUFFICES ASSUME IInv, [Next]_vars PROVE IInv'
  OBVIOUS
<1>1. CASE UNCHANGED vars
  <2>1. TypeOK'
    BY <1>1 DEF vars, IInv, TypeOK
  <2> QED BY <1>1, <2>1, StepsKept DEF vars
<1>2. CASE Next
  BY <1>2, StartPassInv, EndPassInv, ControllerStepInv, RouterStepInv, NatsStepInv,
     StartControllerInv, WorldInv, CallFailsInv, CrashInv DEF Next
<1> QED BY <1>1, <1>2

\* The invariant holds in every reachable state, for any specs, edits of them,
\* keys, and number of faults, crashes and late informers.
THEOREM Invariance == Spec => []IInv
<1> QED BY InitInv, NextInv, PTL DEF Spec

\* Every variable has its type.
THEOREM TypeCorrect == Spec => []TypeOK
<1>1. IInv => TypeOK
  BY DEF IInv
<1> QED BY <1>1, Invariance, PTL

\* server.conf has the key that is in the secret, and never an empty one.
THEOREM KeyInUse == Spec => []ConfUsesKey
<1>1. IInv => ConfUsesKey
  BY DEF IInv, KeyInv
<1> QED BY <1>1, Invariance, PTL

\* A key that has been stored is never replaced, whatever the caches show and
\* wherever the operator stops.
THEOREM KeyForGood == Spec => KeyIsKept
<1>1. IInv /\ [Next]_vars => [(jsKey \in Keys) => (jsKey' = jsKey)]_vars
  BY NextAdvances DEF Advances
<1> QED BY <1>1, Invariance, PTL DEF Spec, KeyIsKept

\* What a routine has rolled out of a spec stays for as long as passes are
\* about that spec: starting over, through caches that lag behind and with
\* calls that fail, takes nothing of it back.  The exception is a pass that
\* misread NATS's server certificates and deletes or creates some of them.
THEOREM WorkIsNotUndone == Spec => WorkStays
<1>1. IInv /\ [Next]_vars
        => [\A c \in Routines :
              (cp' = cp /\ Done(c)) =>
                Done(c)' \/ (c = "nats" /\ misread' /\ hosts' # hosts)]_vars
  BY NextAdvances, AdvanceKeepsDone
<1> QED BY <1>1, Invariance, PTL DEF Spec, WorkStays

\* A step that leaves all that counts as it is leaves what is done.
LEMMA SameDone ==
  ASSUME UNCHANGED <<cp, stored, hosts, jsKey, confKey, credentials, template,
                     moved, known>>
  PROVE  \A c \in Routines : Done(c)' <=> Done(c)
<1>1. (ControllerDone' <=> ControllerDone)
  BY DEF ControllerDone, ControllerHas, KnowsRouter, KnowsHub, KnowsCAs, AllStored
<1>2. RouterDone' <=> RouterDone
  BY DEF RouterDone, AllStored, IsStored
<1>3. NatsDone' <=> NatsDone
  BY DEF NatsDone, NatsFiles, AllStored, IsStored
<1> QED BY <1>1, <1>2, <1>3 DEF Done

\* Only edits change the spec, and only they and the end of a pass what is
\* said of it.  No certificate is read while the ControlPlane is ready.
LEMMA SpecKept ==
  ASSUME IInv, [Next]_vars
  PROVE  \/ Edit \/ EndPass
         \/ spec' = spec /\ ready' = ready /\ (misread' = misread \/ ~ready)
<1> DEFINE Kept == UNCHANGED <<spec, ready, misread>>
<1>1. ASSUME NEW c, NEW list, NEW from, NEW to, Ensure(c, list, from, to)
      PROVE  Kept
  BY <1>1 DEF Ensure, EnsureAll, EnsureStops, Go
<1>2. ASSUME NEW c, NEW from, NEW to, Call(c, from, to)
      PROVE  Kept
  BY <1>2 DEF Call, Go
<1>3. ASSUME NEW c, NEW name, NEW from, NEW to, WaitOrTimeout(c, name, from, to)
      PROVE  Kept
  BY <1>2, <1>3 DEF WaitOrTimeout, Wait, Timeout
<1>4. ASSUME RouterStep PROVE Kept
  BY <1>1, <1>2, <1>3, <1>4 DEF RouterStep, RouterObjectsStep, RouterAddress,
     RouterFilesStep, RouterDeploy
<1>5. ASSUME NatsStep PROVE spec' = spec /\ ready' = ready /\ (misread' = misread \/ ~ready)
  <2>1. CASE NatsBootstrap \/ NatsObjectsStep \/ NatsCAsStep \/ NatsDeploy
    BY <1>1, <2>1 DEF NatsBootstrap, NatsObjectsStep, NatsCAsStep, NatsDeploy
  <2>2. CASE NatsClient \/ KeyFound \/ KeyCollides \/ NatsAddress
    BY <1>2, <1>3, <2>2 DEF NatsClient, KeyFound, KeyCollides, NatsAddress
  <2>3. CASE KeyCreated \/ KeyFails \/ NatsConfig \/ NatsConfigStops
    BY <2>3 DEF KeyCreated, KeyFails, NatsConfig, NatsConfigStops, Go
  <2>4. CASE CompareReplicas \/ CompareFails \/ ReplaceStops
                \/ IssueServers \/ IssueStops
    <3>1. spec' = spec /\ ready' = ready /\ at["nats"] \in {"replicas", "servers"}
      BY <2>4 DEF CompareReplicas, CompareFails, ReplaceStops, IssueServers,
         IssueStops, Certify
    <3>2. ~ready
      BY <3>1 DEF IInv, ReadyInv, Routines
    <3> QED BY <3>1, <3>2
  <2> QED BY <1>5, <2>1, <2>2, <2>3, <2>4 DEF NatsStep
<1>6. ASSUME ControllerStep PROVE Kept
  <2>1. CASE ControllerObjectsStep \/ DeployNew \/ DeployUpdate
    BY <1>1, <2>1 DEF ControllerObjectsStep, DeployNew, DeployUpdate, Go
  <2>2. CASE DeployStops \/ Client \/ Register \/ Import \/ Finish
    BY <1>2, <2>2 DEF DeployStops, Client, Register, Import, Finish
  <2>3. CASE Proxy \/ Hub
    BY <1>2, <1>3, <2>3 DEF Proxy, Hub, Timeout
  <2>4. CASE Address
    BY <1>2, <2>4 DEF Address, Timeout
  <2> QED BY <1>6, <2>1, <2>2, <2>3, <2>4 DEF ControllerStep
<1>7. ASSUME CallFails PROVE Kept
  BY <1>2, <1>7 DEF CallFails
<1>8. ASSUME \/ Cloud \/ StartController \/ Deliver \/ DeliverServers
             \/ Outage \/ Crash \/ UNCHANGED vars
      PROVE  Kept
  BY <1>8 DEF Cloud, StartController, Deliver, DeliverServers, Outage, Crash, vars
<1>9. ASSUME StartPass PROVE spec' = spec /\ ready' = ready /\ ~ready
  BY <1>9 DEF StartPass
<1> QED BY <1>4, <1>5, <1>6, <1>7, <1>8, <1>9 DEF Next

\* The three routines keep the promise of ReadyContract: "ready" is announced
\* only when each has rolled out the spec as it is, and nothing moves until it
\* is taken back.  Only a "ready" counts of a pass that was shown NATS's server
\* certificates as they are.
THEOREM Promise == Spec => KeepsContract
<1> DEFINE mixed == [mixed |-> TRUE]
           deployed == [c \in Routines |-> IF Done(c) THEN cp ELSE mixed]
           told == ready /\ ~misread
           Kept == /\ told => deployed = [c \in Routines |-> spec]
                   /\ deployed \in [Routines -> Contract!States]
                   /\ spec \in Specs /\ spec # NoTemplate
<1>1. IInv => Kept
  <2> SUFFICES ASSUME IInv PROVE Kept
    OBVIOUS
  <2>1. ASSUME told PROVE cp = spec /\ \A c \in Routines : Done(c)
    BY <2>1, PartsOfNats DEF IInv, ReadyInv, Done
  <2>2. cp \in Specs /\ spec \in Specs
    BY DEF IInv, TypeOK
  <2>3. deployed \in [Routines -> Contract!States]
    BY <2>2 DEF Contract!States
  <2>4. spec # NoTemplate
    <3>1. DOMAIN NoTemplate = {"none"}
      BY DEF NoTemplate
    <3>2. "nats" \in DOMAIN spec
      BY SpecOfPass DEF IInv, ControlPlaneSpec
    <3> QED BY <3>1, <3>2
  <2> QED BY <2>1, <2>2, <2>3, <2>4
<1>2. Init => Contract!Init
  <2> SUFFICES ASSUME Init PROVE Contract!Init
    OBVIOUS
  <2>1. ready = FALSE /\ IInv
    BY InitInv DEF Init
  <2> QED BY <1>1, <2>1 DEF Contract!Init
<1>3. IInv /\ IInv' /\ [Next]_vars => [Contract!Next]_(Contract!vars)
  <2> SUFFICES ASSUME IInv, IInv', [Next]_vars
               PROVE  [Contract!Next]_(Contract!vars)
    OBVIOUS
  <2>1. /\ told => deployed = [c \in Routines |-> spec]
        /\ spec \in Specs /\ spec # NoTemplate
    BY <1>1
  <2>2. /\ told' => deployed' = [c \in Routines |-> spec']
        /\ deployed' \in [Routines -> Contract!States]
        /\ spec' \in Specs
    <3> HIDE DEF Kept
    <3>1. IInv' => Kept'
      BY <1>1, PTL
    <3> QED BY <3>1 DEF Kept
  <2>3. CASE spec' = spec /\ told' = told
    <3>1. CASE told
      <4>1. deployed' = deployed
        BY <2>1, <2>2, <2>3, <3>1
      <4> QED BY <2>3, <4>1 DEF Contract!vars
    <3>2. CASE ~told
      <4>1. Contract!Roll
        BY <2>2, <2>3, <3>2 DEF Contract!Roll
      <4> QED BY <4>1 DEF Contract!Next
    <3> QED BY <3>1, <3>2
  <2>4. CASE Edit
    <3>1. /\ ready' = FALSE /\ misread' = misread
          /\ UNCHANGED <<cp, stored, hosts, jsKey, confKey, credentials, template,
                         moved, known>>
      BY <2>4 DEF Edit, cluster, certificates, outside
    <3>2. deployed' = deployed
      BY <3>1, SameDone
    <3>3. CASE spec' = spec
      <4>1. Contract!Retract
        BY <3>1, <3>2, <3>3 DEF Contract!Retract
      <4> QED BY <4>1 DEF Contract!Next
    <3>4. CASE spec' # spec
      <4>1. Contract!Ask
        BY <2>1, <2>2, <3>1, <3>2, <3>4 DEF Contract!Ask
      <4> QED BY <4>1 DEF Contract!Next
    <3> QED BY <3>3, <3>4
  <2>5. CASE EndPass
    <3>1. /\ spec' = spec /\ told' \in BOOLEAN
          /\ UNCHANGED <<cp, stored, hosts, jsKey, confKey, credentials, template,
                         moved, known>>
      BY <2>5 DEF EndPass, cluster, certificates, outside
    <3>2. deployed' = deployed
      BY <3>1, SameDone
    <3>3. CASE ~told'
      <4>1. Contract!Retract
        BY <3>1, <3>2, <3>3 DEF Contract!Retract
      <4> QED BY <4>1 DEF Contract!Next
    <3>4. CASE told' /\ ~told
      <4>1. Contract!Announce
        BY <2>1, <2>2, <3>1, <3>2, <3>4 DEF Contract!Announce, Contract!Satisfied
      <4> QED BY <4>1 DEF Contract!Next
    <3>5. CASE told' /\ told
      BY <2>3, <3>1, <3>5
    <3> QED BY <3>3, <3>4, <3>5
  <2>6. CASE spec' = spec /\ ready' = ready /\ (misread' = misread \/ ~ready)
    BY <2>3, <2>6
  <2> QED BY <2>4, <2>5, <2>6, SpecKept
<1> QED BY <1>2, <1>3, Invariance, PTL DEF Spec, KeepsContract, Contract!Spec
-----------------------------------------------------------------------------
(***************************************************************************)
(* What the pods refer to.                                                 *)
(***************************************************************************)

\* A stored object provides itself and its parts.
LEMMA StoredIsProvided ==
  ASSUME NEW kind, NEW name, <<kind, name>> \in DOMAIN stored
  PROVE  /\ <<kind, name, "">> \in Provided
         /\ \A p \in stored[<<kind, name>>] : <<kind, name, p>> \in Provided
<1>1. \A id \in DOMAIN stored : \A p \in stored[id] \cup {""} :
        <<id[1], id[2], p>> \in Provided
  <2> DEFINE Parts(id) == {<<id[1], id[2], p>> : p \in stored[id] \cup {""}}
  <2>1. UNION {Parts(id) : id \in DOMAIN stored} \subseteq Provided
    BY DEF Provided
  <2>2. \A id : \A p \in stored[id] \cup {""} : <<id[1], id[2], p>> \in Parts(id)
    OBVIOUS
  <2> HIDE DEF Parts
  <2>3. \A id \in DOMAIN stored : Parts(id) \subseteq Provided
    BY <2>1
  <2> QED BY <2>2, <2>3
<1> DEFINE id == <<kind, name>>
<1>2. id \in DOMAIN stored /\ id[1] = kind /\ id[2] = name
  OBVIOUS
<1> HIDE DEF id
<1>3. \A p \in stored[id] \cup {""} : <<kind, name, p>> \in Provided
  BY <1>1, <1>2
<1> QED BY <1>3 DEF id

\* So does a server certificate.
LEMMA ServersAreProvided ==
  ASSUME TypeOK, ServersDone
  PROVE  ServerFiles \subseteq Provided
<1>1. \A s \in Servers : hosts[s] # 0
  BY ReplicasOfPass, TwoServers DEF ServersDone
<1>2. {s \in Servers : hosts[s] # 0} = Servers
  BY <1>1
<1> DEFINE there == SecretFiles({s \in Servers : hosts[s] # 0})
<1>3. there \subseteq Provided
  BY DEF Provided
<1>4. there = ServerFiles
  BY <1>2 DEF ServerFiles
<1> QED BY <1>3, <1>4

\* So does an object of a list that is stored.
LEMMA ListIsProvided ==
  ASSUME NEW list, AllStored(list), NEW kind, NEW name,
         Object(kind, name) \in Elements(list)
  PROVE  <<kind, name, "">> \in Provided
<1>1. Id(Object(kind, name)) = <<kind, name>>
  BY DEF Id, Object
<1>2. <<kind, name>> \in DOMAIN stored
  BY <1>1 DEF AllStored, Ids
<1> QED BY <1>2, StoredIsProvided

\* A fixed object provides its parts.
LEMMA FixedIsProvided ==
  ASSUME PartsInv, NEW f \in Fixed, IsStored(f)
  PROVE  \A p \in f.parts : <<f.kind, f.name, p>> \in Provided
<1>1. Id(f) = <<f.kind, f.name>> /\ Id(f) \in DOMAIN stored
  BY DEF Id, IsStored
<1>2. stored[<<f.kind, f.name>>] = f.parts
  BY <1>1 DEF PartsInv
<1> QED BY <1>1, <1>2, StoredIsProvided

\* The router needs no other files.
LEMMA RouterFilesSuffice ==
  ASSUME PartsInv, AllStored(RouterFiles)
  PROVE  RouterNeeds \ {<<"ServiceAccount", "router", "">>} \subseteq Provided
<1> DEFINE config == ObjectWith("ConfigMap", "iofog-router", {"skrouterd.json"})
<1>1. /\ Object("Secret", "router-site-server") \in Elements(RouterFiles)
      /\ Object("Secret", "router-local-server") \in Elements(RouterFiles)
      /\ config \in Elements(RouterFiles)
  BY DEF RouterFiles, Elements
<1>2. <<"Secret", "router-site-server", "">> \in Provided
  BY <1>1, ListIsProvided
<1>3. <<"Secret", "router-local-server", "">> \in Provided
  BY <1>1, ListIsProvided
<1>4. <<"ConfigMap", "iofog-router", "skrouterd.json">> \in Provided
  <2>1. config \in Fixed /\ IsStored(config)
    BY <1>1 DEF Fixed, IsStored, AllStored, Ids
  <2>2. /\ config.kind = "ConfigMap" /\ config.name = "iofog-router"
        /\ config.parts = {"skrouterd.json"}
    BY DEF ObjectWith
  <2> HIDE DEF config
  <2> QED BY <2>1, <2>2, FixedIsProvided
<1> QED BY <1>2, <1>3, <1>4 DEF RouterNeeds

\* Nor does NATS, but for its server certificates.
LEMMA NatsFilesSuffice ==
  ASSUME PartsInv, KeyInv, NatsFiles
  PROVE  NatsNeeds \ ({<<"ServiceAccount", "nats", "">>} \cup ServerFiles)
           \subseteq Provided
<1> DEFINE creds == ObjectWith("Secret", "nats-creds-sys-admin-hub",
                               {"admin-hub.creds"})
<1>1. /\ creds \in Elements(BootstrapSecrets)
      /\ Object("ConfigMap", "iofog-nats-config") \in Elements(NatsConfigMaps)
      /\ Object("ConfigMap", "iofog-nats-jwt-bundle") \in Elements(NatsConfigMaps)
  BY DEF BootstrapSecrets, NatsConfigMaps, Elements
<1>2. AllStored(BootstrapSecrets) /\ AllStored(NatsConfigMaps) /\ jsKey \in Keys
  BY DEF NatsFiles
<1>3. <<"ConfigMap", "iofog-nats-config", "">> \in Provided
  BY <1>1, <1>2, ListIsProvided
<1>4. <<"ConfigMap", "iofog-nats-jwt-bundle", "">> \in Provided
  BY <1>1, <1>2, ListIsProvided
<1>5. <<"Secret", "nats-creds-sys-admin-hub", "admin-hub.creds">> \in Provided
  <2>1. creds \in Fixed /\ IsStored(creds)
    BY <1>1, <1>2 DEF Fixed, IsStored, AllStored, Ids
  <2>2. /\ creds.kind = "Secret" /\ creds.name = "nats-creds-sys-admin-hub"
        /\ creds.parts = {"admin-hub.creds"}
    BY DEF ObjectWith
  <2> HIDE DEF creds
  <2> QED BY <2>1, <2>2, FixedIsProvided
<1>6. <<"Secret", "nats-jetstream-key", "jsk">> \in Provided
  <2>1. JetStreamKey \in Fixed /\ IsStored(JetStreamKey)
    BY <1>2, KeysAssumption DEF Fixed, KeyInv
  <2>2. /\ JetStreamKey.kind = "Secret" /\ JetStreamKey.name = "nats-jetstream-key"
        /\ JetStreamKey.parts = {"jsk"}
    BY DEF JetStreamKey, ObjectWith
  <2> QED BY <2>1, <2>2, FixedIsProvided
<1> QED BY <1>3, <1>4, <1>5, <1>6 DEF NatsNeeds

\* What the Controller needs but for its account.
LEMMA ControllerHasAll ==
  ASSUME TypeOK, PartsInv, IsStored(OwnersCertificate), ControllerHas
  PROVE  ControllerNeeds(cp) \ {<<"ServiceAccount", "controller", "">>}
           \subseteq Provided
<1> DEFINE list == ControllerObjects(cp)
<1>1. cp \in ControlPlaneSpec /\ AllStored(list)
  BY SpecOfPass DEF ControllerHas
<1>2. {DbSecret, AuthSecret} \subseteq Elements(list)
  BY <1>1, ControllerList
<1>3. AuthEnv \subseteq Provided
  <2>1. AuthSecret \in Fixed /\ IsStored(AuthSecret)
    BY <1>1, <1>2 DEF Fixed, IsStored, AllStored, Ids
  <2>2. /\ AuthSecret.kind = "Secret" /\ AuthSecret.name = AuthCredentials
        /\ AuthSecret.parts = AuthKeys
    BY DEF AuthSecret, ObjectWith
  <2>3. \A p \in AuthKeys : <<"Secret", AuthCredentials, p>> \in Provided
    BY <2>1, <2>2, FixedIsProvided
  <2> QED BY <2>3 DEF AuthEnv, AuthKeys
<1>4. DbEnv \subseteq Provided
  <2>1. DbSecret \in Fixed /\ IsStored(DbSecret)
    BY <1>1, <1>2 DEF Fixed, IsStored, AllStored, Ids
  <2>2. /\ DbSecret.kind = "Secret" /\ DbSecret.name = DbCredentials
        /\ DbSecret.parts = DbKeys
    BY DEF DbSecret, ObjectWith
  <2>3. \A p \in DbKeys : <<"Secret", DbCredentials, p>> \in Provided
    BY <2>1, <2>2, FixedIsProvided
  <2> QED BY <2>3 DEF DbEnv, DbKeys
<1>5. VaultEnv(cp.vault) \subseteq Provided
  <2>1. VaultEnv(cp.vault) = {<<"Secret", VaultCredentials, k>> : k \in VaultKeys(cp.vault)}
    BY DEF VaultEnv, VaultKeys
  <2>2. CASE VaultKeys(cp.vault) = {}
    BY <2>1, <2>2
  <2>3. CASE VaultKeys(cp.vault) # {}
    <3> DEFINE v == ObjectWith("Secret", VaultCredentials, VaultKeys(cp.vault))
    <3>1. v \in Elements(list) /\ Id(v) = VaultId
      BY <1>1, <2>3, ControllerList DEF Id, ObjectWith, VaultId
    <3> HIDE DEF v
    <3>2. VaultId \in DOMAIN stored /\ stored[VaultId] = VaultKeys(cp.vault)
      BY <1>1, <2>3, <3>1 DEF AllStored, Ids, ControllerHas
    <3>3. \A p \in VaultKeys(cp.vault) : <<"Secret", VaultCredentials, p>> \in Provided
      BY <3>2, StoredIsProvided DEF VaultId
    <3> QED BY <2>1, <3>3
  <2> QED BY <2>2, <2>3
<1>6. ControllerVolumes(cp) \subseteq Provided
  <2>1. ~cp.externalDb =>
          <<"PersistentVolumeClaim", "controller-sqlite", "">> \in Provided
    BY <1>1, ControllerList, ListIsProvided
  <2>2. <<"Secret", "owners-certificate", "">> \in Provided
    <3>1. <<"Secret", "owners-certificate">> \in DOMAIN stored
      BY DEF IsStored, Id, OwnersCertificate, Object
    <3> QED BY <3>1, StoredIsProvided
  <2>3. References(OwnersCertificate) = {<<"Secret", "owners-certificate", "">>}
    BY DEF References, OwnersCertificate, Object
  <2> QED BY <2>1, <2>2, <2>3 DEF ControllerVolumes
<1> QED BY <1>3, <1>4, <1>5, <1>6 DEF ControllerNeeds

\* The pods of the router and of NATS never wait for files that nobody has
\* written: a workload is stored after the secrets and config maps it mounts,
\* though routines fail and the operator stops between any two writes.  NATS's
\* server certificates are there when a pass writes its StatefulSet, unless it
\* misread them.
THEOREM FilesComeFirst == Spec => []DeployedInOrder
<1>1. IInv => DeployedInOrder
  <2> SUFFICES ASSUME IInv PROVE DeployedInOrder
    OBVIOUS
  <2>1. <<"ServiceAccount", "router", "">> \in Accounts
        /\ <<"ServiceAccount", "nats", "">> \in Accounts
    BY DEF Accounts, Routines
  <2>2. IsStored(Deployment("router")) => RouterNeeds \ Accounts \subseteq Provided
    BY <2>1, RouterFilesSuffice DEF IInv, RouterInv
  <2>3. IsStored(NatsSet) => NatsNeeds \ (Accounts \cup ServerFiles) \subseteq Provided
    BY <2>1, NatsFilesSuffice DEF IInv, NatsInv
  <2>4. (at["nats"] \in {"deploy", "continue"} /\ cp.nats /\ ~misread) =>
          ServerFiles \subseteq Provided
    BY ServersAreProvided DEF IInv, CertInv
  <2> QED BY <2>2, <2>3, <2>4 DEF DeployedInOrder
<1> QED BY <1>1, Invariance, PTL

\* When the ControlPlane is ready, everything its pods refer to exists, but for
\* server certificates of NATS's that the pass misread.
THEOREM ReadyPodsStart == Spec => []ReadyPodsCanStart
<1>1. IInv => ReadyPodsCanStart
  <2> SUFFICES ASSUME IInv, ready, spec.pullSecret # "wrongType"
               PROVE  /\ ControllerNeeds(spec) \cup RouterNeeds \subseteq Provided
                      /\ spec.nats =>
                           NatsNeeds \ (IF misread THEN ServerFiles ELSE {})
                             \subseteq Provided
    BY DEF ReadyPodsCanStart
  <2>1. /\ cp = spec /\ ControllerHas /\ RouterDone /\ (cp.nats => NatsRest)
        /\ ((cp.nats /\ ~misread) => ServersDone)
        /\ TypeOK /\ PartsInv /\ KeyInv /\ IsStored(OwnersCertificate)
        /\ cp \in ControlPlaneSpec
    BY SpecOfPass DEF IInv, ReadyInv, ControllerDone
  <2>2. cp.pullSecret \in {"none", "usable"}
    BY <2>1 DEF ControllerHas, ControlPlaneSpec, PullSecrets
  <2>3. <<"ServiceAccount", "controller", "">> \in Provided
    BY <2>1, <2>2, ControllerList, ListIsProvided DEF ControllerHas
  <2>4. <<"ServiceAccount", "router", "">> \in Provided
    BY <2>1, <2>2, RouterLists, ListIsProvided DEF RouterDone
  <2>5. RouterNeeds \subseteq Provided
    BY <2>1, <2>4, RouterFilesSuffice DEF IInv, RouterInv, RouterDone
  <2>6. ControllerNeeds(spec) \subseteq Provided
    BY <2>1, <2>3, ControllerHasAll
  <2>7. ASSUME spec.nats
        PROVE  NatsNeeds \ (IF misread THEN ServerFiles ELSE {}) \subseteq Provided
    <3>1. <<"ServiceAccount", "nats", "">> \in Provided
      BY <2>1, <2>2, <2>7, NatsLists, ListIsProvided DEF NatsRest
    <3>2. NatsNeeds \ ServerFiles \subseteq Provided
      BY <2>1, <2>7, <3>1, NatsFilesSuffice DEF NatsRest
    <3>3. ~misread => ServerFiles \subseteq Provided
      BY <2>1, <2>7, ServersAreProvided
    <3> QED BY <3>2, <3>3
  <2> QED BY <2>5, <2>6, <2>7
<1> QED BY <1>1, Invariance, PTL

\* When it is ready, the last pass has done all of it for the spec as it is.
THEOREM ReadyMeansComplete == Spec => []ReadyIsComplete
<1>1. IInv => ReadyIsComplete
  <2> SUFFICES ASSUME IInv, ready
               PROVE  /\ template = PodTemplate(spec) /\ credentials = spec.db
                      /\ IsStored(Deployment("router"))
                      /\ spec.nats => IsStored(NatsSet) /\ confKey \in Keys
                      /\ ~moved =>
                           /\ {"router"} \cup Elements(ImportedCAs(spec)) \subseteq known
                           /\ (spec.nats /\ HubHasAddress) => "hub" \in known
    BY DEF ReadyIsComplete
  <2>1. cp = spec /\ ControllerDone /\ RouterDone /\ (cp.nats => NatsRest)
    BY DEF IInv, ReadyInv
  <2>2. template = PodTemplate(spec) /\ credentials = spec.db
    BY <2>1 DEF ControllerDone, ControllerHas
  <2>3. /\ IsStored(Deployment("router"))
        /\ spec.nats => IsStored(NatsSet) /\ confKey \in Keys
    BY <2>1 DEF RouterDone, NatsRest
  <2>4. ~moved => {"router"} \cup Elements(ImportedCAs(spec)) \subseteq known
    BY <2>1 DEF ControllerDone, KnowsRouter, KnowsCAs
  <2>5. ~moved => ((spec.nats /\ HubHasAddress) => "hub" \in known)
    BY <2>1 DEF ControllerDone, KnowsHub, HubHasAddress
  <2> QED BY <2>2, <2>3, <2>4, <2>5
<1> QED BY <1>1, Invariance, PTL
=============================================================================
