# A verification of the ioFog operator

The operator (Go, `controllers/`, `apis/`, `internal/`) turns two custom
resources into running software in a Kubernetes cluster: a `ControlPlane` into a
router, a NATS cluster and an ioFog Controller, an `Application` into a
deployment. This directory models the parts of it that are hard to test, checks
them with TLC and proves the core of them with TLAPS. Paths below are relative
to the repository; `file.go` without a path is in `controllers/controlplanes/`.

## Inventory

| Component | State it keeps | Operations | Talks to | What is hard | What makes it correct |
| --- | --- | --- | --- | --- | --- |
| Status conditions (`apis/controlplanes/v3/controlplane_types.go`) | a list of conditions in the object's status | `setCondition`, `GetCondition`, `Is*` | stored by the API server, checked by the CRD's schema | conditions of older releases, more than one True | a state set is the state read; the schema accepts what is written |
| State machine (`controller.go`, `states.go`) | `r.cp`, one copy of the object | `Reconcile`, `getReconcileFunc`, `reconcileReady/Deploying/Updating`, three writes | informer, work queue, API server, three routines | stale reads, edits during a pass, conflicts, lost answers, crashes, wake-ups | ready is true, nothing is forgotten, the owner's spec stays, work ends |
| Router routine (`reconcile.go:449-547`, `847-949`) | secrets, config map, deployment in the cluster | create what is missing, merge the configuration | API server through a cache, load balancer | two rounds of stale reads, Controller edits the same config map | certificates chain up, nothing handed out is replaced |
| NATS routine (`reconcile.go:549-842`, `nats/`) | secrets, two config maps, StatefulSet | bootstrap, delete/recreate certificates, merge routes, restart on scale-down | Controller API, API server through a cache | delete then stale read, partial deletes, a second writer, restarts | certificates and routes follow the replicas; agents' routes stay |
| Controller routine (`reconcile.go:130-379`) | deployment, service, ingress, claim, credentials | create, wait, log in, register router, NATS hub and CAs | Controller API, load balancers | waits on what the other routines create | comes up from any partial state |
| Objects (`k8s.go`, `resources.go`, `microservices.go`) | none | build objects, create if absent, update | API server | what is never updated, swallowed errors | the spec is what runs |
| Application (`controllers/apps`) | deployment, status | create, scale, list pods | API server | status written through the wrong endpoint | replicas and pod names follow |
| Keycloak update (`internal/util/update_openid_client.go`) | none | three HTTP calls | Keycloak | failure is ignored by design | – |

The three routines of a pass run as goroutines and share `r.cp`, which none of
them writes. All reads of Kubernetes objects go through the manager's cache
(`main.go:74-94`), all writes to the API server; that difference is behind most
of the hazards. One worker runs the passes; only ControlPlane events are watched
(`controller.go:81-83`), so nothing that happens to a child object starts a pass.

`PROJECT.json` lists every hazard at its line with the properties that cover it,
or what is missing.

## Plan

In this order, the behaviour that matters most first:

1. **Core** – `Conditions`, `ControlPlane`, the abstract `ReadyContract`, with
   proofs. *Done.*
2. **NATS and router TLS** – `SecretStore`, `NatsTls`, `RouterTls`, with proofs.
   *Done.*
3. **NATS server.conf and StatefulSet** – `NatsCluster`, with proofs. *Done.*
4. **Router configuration** – `RouterConfig`, with proofs. *Done.*
5. **Bring-up and credentials** – `Microservices`, `Bringup`: the steps of the three
   routines over the cluster's objects, the Controller's API and the load
   balancers, with proofs. *Done.*
6. **Application** – `Application`, with proofs. *Done.*
7. **One contract for both** – `ReadyContract` is implemented by `ControlPlane`, which
   has the versions of the object in detail, and by `Bringup`, which has the routines in
   detail. *Done, with proofs.*
8. **Open** – the two put together, the bring-up as the routine that `ControlPlane`
   assumes (it would need both modules' reads and writes in one state, which is out
   of TLC's reach at instances worth checking); the JWT bundle.

## Modules

| Module | Kind | Code |
| --- | --- | --- |
| `Conditions` | operators | `controlplane_types.go:271-343`, the CRD's reason pattern |
| `ControlPlane` | system | `controller.go`, `states.go` |
| `ReadyContract` | abstract specification of `ControlPlane` and of `Bringup` | – |
| `MCControlPlane` | instance for TLC | – |
| `ControlPlaneProofs` | proofs, also about `Conditions` | – |
| `SecretStore` | shared part | the cached client, `internal/util/certs` |
| `NatsTls`, `MCNatsTls` | system, instance | `reconcile.go:697-730`, `nats/certs.go` |
| `RouterTls`, `MCRouterTls` | system, instance | `reconcile.go:847-949`, `k8s.go:176-241` |
| `NatsTlsProofs`, `RouterTlsProofs` | proofs | – |
| `NatsCluster`, `MCNatsCluster` | system, instance | `reconcile.go:739-842`, `nats/config.go`, `k8s.go:97-117` |
| `VersionLemmas`, `NatsClusterProofs` | proofs | – |
| `RouterConfig`, `MCRouterConfig` | system, instance | `k8s.go:532-701`, `router/config.go` |
| `RouterConfigProofs` | proofs | – |
| `Microservices` | operators | `microservices.go`, `resources.go` |
| `Bringup`, `MCBringup` | system, instances | `reconcile.go:130-842`, `k8s.go`, `nats/bootstrap.go` |
| `BringupProofs` | proofs | – |
| `Application`, `MCApplication` | system, instance | `controllers/apps/controller.go` |
| `ApplicationProofs` | proofs | – |

### ControlPlane

`versions` is the object as a queue of versions: its head is what the informer
shows (`cached`), its last element what the API server stores (`stored`). A
write appends, `Deliver` drops the head and enqueues the key. `cp` is `r.cp`;
`pc` says where the worker is; `results` is what the routines have sent on
`reconChan`; `deployed` is what each component runs.

- `FetchSettled`, `FetchPending`, `FetchInvalid` are the Get of `Reconcile` and
  the four ways out of `getReconcileFunc`. The last one sets the condition in
  `r.cp`; `MigrateStatus` is its `Status().Update`.
- `RollOut`, `RoutineContinues`, `RoutineStops` are a routine at work and its
  outcome. A routine that stops may have done its writes or not.
- `PassIsFinal` and `PassSucceeds` are the folding of the outcomes,
  `WriteReady` and `WriteObject` the two writes after it. `reconcileDeploying`
  and `reconcileUpdating` are the same function but for the condition they
  test, which is `mode`.
- `WriteRefused` is a conflict, a deleted object or a status the CRD's schema
  refuses; `WriteFails` a call that fails with or without its effect.
- `Crash` may happen anywhere; `Restart` lists the object anew.

`Update` at `states.go:118` and `191` sends the whole object. The structs of the
spec that are not pointers are always serialised, so an object its owner wrote
without the empty ones (`form = "brief"`) changes, gets a new generation and goes
through a second pass as "updating". `ComesToRest` says that this ends.

`PassSucceeds` keeps the code's test of the condition before it sets ready; the
invariant shows that its other branch (`states.go:127`, `200`) is never taken.

What a routine does is the contract *a routine that continues has rolled out the
value of `r.cp`, and rolling out what is already there moves nothing*. The
modules below look into parts of the routines; they also show where the code
falls short of it (see Findings).

### SecretStore, NatsTls, RouterTls

A secret is the pass that generated it, the pass that generated the CA that
signed it, and the number of replicas its host names are for. Each `Get` is an
action of its own (`Look`, `CheckReplicas`), so that the informer may catch up
between two of them. `misled` is a history variable: the passes that were shown
something else than what is stored. No action depends on it; properties use it to
say exactly what stale reads can break and what nothing can.

`NatsTls!CheckFails` is a Get before the comparison that fails: its error is not
looked at (`reconcile.go:701-702`), nothing is deleted and the pass goes on with the
certificates there are. It was shown nothing stale, so it is not in `misled`;
`compared`, another history variable, says whether the pass has compared the replicas,
and `SiteIsCurrent` and `MqttIsCurrent` speak of the replicas only then.
`RouterTls!LookFails` is the same pattern in the router's routine.

A pass may begin whenever the last one is over, whatever it asks for: another
routine may have asked for it, or a new version of the ControlPlane.

### NatsCluster

`confs` and `sets` are the config map and the StatefulSet as queues like
`versions`. `base` and `found` are the results of the two Gets of the config map,
`stamp` is `restartedAt` in the annotations the pass sends. A config map is its
pods' routes and its agents' routes; the Controller edits the latter. Updates of
the config map carry the version of `found`; those of the StatefulSet carry none
(`k8s.go:112`), so they cannot conflict.

### RouterConfig

A configuration is a list of entries: a type, a name, and the release of the
operator whose template the content comes from (0 for any other). `ShouldUpdate`,
`ConfigVersion`, `Existing`, `Without`, `Overlay` and `MergeConfigs` are `shouldUpdate`,
`getConfigVersion`, the lookup in `existingMap`, the second loop of `mergeConfigs`, both
loops and the whole of it. The template keeps one entry for each way an entry is treated.
`Find` is the Get of `createConfigMap`, `Put` its Create or Update. `Replace` puts
another process in place of the operator's, of the same release or of another one;
`Customise` is anybody else who edits the configuration.

### Microservices, Bringup

`Microservices` is what the builders make of a spec: the lists of objects that each
routine creates, in the order of the code, and what the pods of each component refer
to. An object is its kind, its name and its parts, which are the keys of a secret
or config map, or the type and the policy of a service. The keys a builder *writes*
(`DbKeys`, `VaultKeys`) and the keys an environment *reads* (`DbEnv`, `VaultEnv`) are
translated from different functions of the code; `ReadyPodsCanStart` compares them.

`Bringup` runs the three routines over these lists. `at` says where each of them is;
the branches of `ControllerStep`, `RouterStep` and `NatsStep` are the calls that
follow each other in `reconcileIofogController`, `reconcileRouter` and `reconcileNats`.
`StartPass` and `EndPass` are what `ControlPlane` shows in detail. Around them:

- `Cloud` gives the load balancers and the ingress an address, `StartController`
  starts a pod of the Controller once all its template refers to exists, replaces it
  when the template has changed, and forgets what the old one was told when the
  database is another one;
- `Deliver`, `Edit`, `CallFails`, `Outage` and `Crash` are the informers, the owner
  and the faults. A wait for a load balancer may also time out (`Timeout`).

`Ensure` stands for `createServiceAccount`, `createSecrets`, `createService`,
`createIngress` and their like: each object is read, and created when the read does
not show it. A list is stored in one step, or up to any element at which a call fails,
with or without the effect of that last call. No other routine looks at these objects
through the operator, but the two that others do look at have their own steps: the
JetStream key (`KeyFound`, `KeyCreated`, `KeyCollides`, `KeyFails`) and the
Controller's Deployment (`DeployNew`, `DeployUpdate`, `DeployStops`).

NATS's server certificates are the only objects the operator takes away. `hosts` is
the number of replicas each of them is made for, 0 without one; `outdated` is what
else its informer may still show. `CompareReplicas` is the check and the two deletes,
`CompareFails` a Get before it that fails, `ReplaceStops` a delete that fails;
`IssueServers` and `IssueStops` are the reads and creates of `EnsureNatsSecrets` for
the two, after its CAs (`NatsCAsStep`). An informer that is late may show any value
the certificate had since it fell behind, in any order, until `DeliverServers`: this
is more than a cache does, whose versions do not go back. `misread` is a history
variable: the pass was shown another certificate than there is, or its Get failed.
After such a pass both may be missing in a ControlPlane that is ready (finding 1, for
which `NatsTls` has the reads one by one). `DeployedInOrder`, `ReadyPodsCanStart`,
`WorkStays` and `KeepsContract` therefore except the certificates of such a pass, and
nothing else of it; without that exception TLC finds each of them violated.

`Done` says what a routine has rolled out of the spec of the pass: its objects, with
what they need to be of use, and for the Controller's routine also what the Controller
has been told. Seen through it, `Bringup` is another implementation of `ReadyContract`:
`wanted` is the spec, a component runs the spec of the pass if its routine has done all
of it, and is mixed otherwise; "ready" counts when the pass did not misread NATS's
server certificates. Of the MQTT certificate `Done` asks only that it is there: that
its host names may be old is finding 2. `ControlPlane` shows that "ready" is about the spec as
it is; `Bringup` shows what stands behind it.

### Application

`apps` and `deps` are the two objects as queues of versions; `app` and `found` are the
results of the two Gets, `pc` the branch of `Reconcile`. `Create`, `Scale` and `Names`
are its three writes, `Refused` what an old copy meets, `CallFails` a call that fails
with or without its effect. `Names` is the Update that is meant to store the names of
the pods: the CRD has a status subresource, so what it stores is the spec, written out
(`Rewritten`). `astray` is a history variable: the last pass was shown another
Deployment than there was, or others have changed it since.

## What the runs show

| Run | Instance | Properties |
| --- | --- | --- |
| `controlplane` | 2 components, 2 values, 3 generations; 431 626 states | `ReadyIsDeployed`, `NotForgotten`, `OwnerDecides`, `KeepsContract`, `Converges`, `ComesToRest` |
| `natstls_safety` | replicas 1 (made 2) and 3, 4 passes; 175 971 states | `CAFirst`, `OnlyStaleReadsBreakChains`, `SiteIsCurrent`, `KeysAreKept` |
| `routertls_safety` | 4 passes; 16 686 states | `AllAreStored`, `CAFirst`, `OnlyMisreadsBreakChains`, `SecretsAreKept` |
| `natscluster_safety` | 2 agents, replicas 2 and 3, 4 passes, 5 versions of the Controller; 2.1 million states | `OwnRoutesMatch`, `OnlyTornReadsLoseRoutes`, `ShrinkingRestarts`, `NoNeedlessRestart` |
| `routerconfig_safety` | 2 releases, 5 versions; 93 306 states | `UpgradeIsComplete`, `CustomsAreKept`, `MergedOnce` |
| `bringup` | 6 specs, 3 edits, one fault or late informer; 216 561 states | `DeployedInOrder`, `ReadyPodsCanStart`, `ReadyIsComplete`, `ConfUsesKey`, `KeyIsKept`, `WorkStays`, `KeepsContract`, `ComesUp`, `EveryPassEnds` |
| `application` | 1 and 2 replicas, 4 edits or faults; 1 090 984 states | `NotForgotten`, `OwnerDecides`, `Converges` |

Five more runs are findings. Every run that passes also checks its module's `TypeOK`.

**Bounds.** `MaxGeneration` ends the owner's edits: three generations allow an
edit during the pass for the one before it, twice. Crashes, failures and stale
reads are not bounded there. Two values suffice to tell "what was asked for" from
"what is asked for now", and two routines to have one that fails beside one that
does not. `MaxPasses` of the TLS modules allows a partial pass, a misled one, and two
to show what they leave behind; a broken chain needs two. In `NatsCluster` four passes
allow to grow, shrink, grow and retry. In `RouterConfig` five versions of the config
map allow an upgrade, a downgrade and another upgrade with a customisation between two
of them; two releases suffice, as versions are only compared.

In `Bringup` the specs are two that differ in everything a component can be given
(types of services, addresses, database, https, vault, pull secret, NATS), two between
them that differ in the number of NATS's replicas, and two that cannot be met. One asks
for no replicas, which makes two. `Left` lets the spec with two replicas start with
certificates for three, as after an earlier edit: so they are deleted and created again
with the one event still to come, which may be the late informer. `Edits` are the changes of one into another that
move something the objects hold. `Breaking` names the objects whose creation
may fail or lose its answer: one in each routine, none of them the first of its list;
a failure at another one leaves another prefix of the same list. `Lagging` are three
objects whose read decides something, the site certificate among them. `MaxEvents = 1` is one
edit, fault or late object in the life of the ControlPlane; passes that fail for other
reasons (time-outs, the Controller not up yet, certificates not there yet) are not
bounded and happen in every behaviour. The cloud catches up with all services at
once. In `Application` four events allow an edit and its opposite with a fault beside
each.

Deadlock is checked where the system never stops: a crash or the next pass is always
possible. `MCBringup.cfg`, `MCBringup_restart.cfg` and `MCApplication.cfg` turn the check
off: with the events used up a ready ControlPlane or an Application whose Deployment is
right rests, as it should.

**Fairness.** `ControlPlane!Fairness` is weak fairness of the informer's
deliveries, of the worker's steps (Reconcile is called while a key is queued and
runs to its end), of a routine's success and of a restart. Nothing is assumed of
the owner, and faults may go on for ever: the liveness properties say *once
faults stop* (`<>[][~Fault]_vars`). Weak fairness of `RoutineContinues` says that
without faults a routine ends and succeeds: its waits are bounded by timeouts
(`loadBalancerTimeout`, the client's 10 s) and what it waits for is assumed to
come up. `Bringup` looks into that assumption. Its `Fairness` is weak fairness of each
goroutine as a whole (not of one branch: where the code may be answered in two ways
either may happen for ever), of the start and the end of a pass (the work queue retries
what failed), of the informers, of the cloud and of the Controller's pod. That the load
balancer's `Timeout` may always win before the cloud gives an address is harmless, as
the cloud gives it in the end. `ComesUp` says that every spec that *can* be met
(`WellFormed`) is ready in the end; its conditions are the ones under which the code
gives up for good, see Observations. `Application!Fairness` is weak fairness of the
worker, of the informers and of the garbage collector.

## Findings

All five are steps the code takes when nothing is attacked or misconfigured, and
each contradicts a comment beside it.

1. `natstls_recreated` – when the replicas change, the certificates are deleted
   and then looked up through the cache, which still shows them. They are not
   recreated; the pass continues, the ControlPlane becomes ready and the pods of
   the StatefulSet lack a secret (`reconcile.go:697-730`). The second certificate
   is looked up right after its delete, so this is likely, not rare.
2. `natstls_mqtt` – when a pass stops between the two deletes, the MQTT
   certificate keeps the host names of the old replicas for good.
3. `natscluster_routes` – a route the Controller adds is lost when it becomes
   visible between the operator's two reads of the config map.
4. `routerconfig_merge` – an entry to keep is looked up by its type alone, so one
   merge may store an old `sslProfile` beside the new one of the same name, and
   entries that were kept are added again (`k8s.go:638-660`). By the same lines an
   address that others added does not survive an upgrade. `MergedOnce` bounds the
   damage to once per release.
5. `bringup_restart` – when the database credentials change, the secret is updated and
   "Restarting pods" is logged, but `restartPodsForDeployment` writes back the
   Deployment it read and nothing restarts (`k8s.go:43-59`): the ControlPlane is ready
   and the Controller runs with the old credentials.

## Observations

What the models show without a comment, document or test that says otherwise:

- `WellFormed` lists what makes a ControlPlane wait for ever: a router that is no load
  balancer and has no address; a pull secret that is missing; a JetStream secret with an
  empty key (each pass tries to create it and meets AlreadyExists); a service that was
  created with another type and is never updated. A pull secret of the wrong
  type lets the pass succeed with pods that have no service account.
- `moved` stands for a race: after an edit to another database the pass may register
  router, hub and CAs with the Controller's old pod while the new one is on its way.
  The ControlPlane is ready and the new Controller knows none of them.
- A service without a type becomes a load balancer, but nobody waits for it
  (`reconcile.go:498`).
- An Application that is scaled and scaled back before the informer shows the first
  change of its Deployment stays at the number in between: the Deployment that was
  read was right and nothing watches Deployments (`astray` in `NotForgotten`).
- The names of an Application's pods are never stored, its list of pods has no selector,
  and changes of its images or configuration are never rolled out.
- The JWT bundle of NATS is created once and never updated.

## What is proved

For every set of components and values and every `MaxGeneration`
(`ControlPlaneProofs`, from `DistinctAssumption` and `BoundAssumption` only):

| Theorem | States |
| --- | --- |
| `Invariance` | `Spec => []IInv` |
| `TypeCorrect` | `Spec => []TypeOK` |
| `ReadyIsTrue` | `Spec => []ReadyIsDeployed` |
| `NothingIsForgotten` | `Spec => []NotForgotten` |
| `OwnerAlone` | `Spec => OwnerDecides` |
| `Promise` | `Spec => KeepsContract` |

`ReadyIsDeployed` is not inductive: a pass that started from an old version may
be about to mark the object ready. `IInv` adds three ideas. *Versions are
ordered*: a later one has a later resource version and no earlier generation, and
a generation stands for one value (`VersionsOrdered`). *The working copy is not
ahead*: it has a generation the informer has delivered, and when it has the
stored resource version it has the stored generation, so a write that is not a
conflict is about the current spec (`CopyOrdered`). *A ready object is known*:
its generation is the one the informer and the running pass have, so nothing
moves a component afterwards (`ReadyIsKnown`). `PassProgress` carries what the
routines have achieved from their outcome to the write, and `NoForesight` that no
condition was observed at a generation yet to come, so an edit always ends ready.

`ControlPlaneProofs` begins with the lemmas about `setCondition` and `GetCondition`
the proof rests on; `SetConditionState` – a state that is set is the state that is
read, from any list of conditions – is proved by taking the first True condition
of the new list, without induction. Then it has a lemma per group of
actions (owner, informer, routines, aggregation, writes), a lemma for the effect
of `Store` on a queue of versions, and puts them together in `NextIInv`.
`Promise` shows that each step maps to a step of `ReadyContract` or to a stutter; a
step of the contract may move several components, as a routine of `Bringup` does when
it works for another spec than the last one.

For every set of agents and numbers of replicas, and every bound of `NatsCluster`
(`NatsClusterProofs`, from `ReplicasAssumption` and `BoundsAssumption`):

| Theorem | States |
| --- | --- |
| `Invariance` | `Spec => []IInv` |
| `TypeCorrect` | `Spec => []TypeOK` |
| `RoutesMatchPods` | `Spec => []OwnRoutesMatch` |
| `ScaleDownRestarts` | `Spec => ShrinkingRestarts` |
| `RestartsAreNeeded` | `Spec => NoNeedlessRestart` |
| `UntornReadsKeepRoutes` | `Spec => OnlyTornReadsLoseRoutes` |

Its `IInv` adds two ideas. `ConfsKnown`: numbers of versions only grow, and an object
that was found under the number of the stored one is the stored one; this is why an
accepted Update starts from what is stored. `StampKnown`: a pass that has not come
to the StatefulSet has not set `restartedAt`, so its own number is a new value, and
one that was not misled still holds the annotation for the StatefulSet as it is, as
nobody else writes it. `VersionLemmas` has the facts about queues of versions both
rest on.

For any number of passes (`RouterTlsProofs`, `NatsTlsProofs`, from `NamesAssumption`,
`PassesAssumption` and, for NATS, any set of numbers of replicas):

| Theorem | `RouterTls` | `NatsTls` |
| --- | --- | --- |
| `Invariance` | `Spec => []IInv` | `Spec => []IInv` |
| `TypeCorrect` | `Spec => []TypeOK` | `Spec => []TypeOK` |
| `NothingIsLeftOut` | `Spec => []AllAreStored` | – |
| `CAsComeFirst` | `Spec => []CAFirst` | `Spec => []CAFirst` |
| `ChainsHold` | `Spec => []OnlyMisreadsBreakChains` | `Spec => []OnlyStaleReadsBreakChains` |
| `SiteStaysCurrent` | – | `Spec => []SiteIsCurrent` |
| `SecretsStay`, `KeysStay` | `Spec => SecretsAreKept` | `Spec => KeysAreKept` |

Both invariants tie the list of secrets a pass has yet to store to the store. `ItemOK`
says of each server certificate in it that its CA is stored or comes earlier in the
list, and that, unless the pass was misled, the CA that will be stored is the one that
signed it; it holds of the list when it is put together because of `SeenKept` (what was
seen is stored) and keeps holding as the list shrinks. `CopiesKept` says that a copy
of a secret that is never deleted is the stored one, which is why a skip is safe.
`Covered` (router) says that every name is stored or on the list. `SiteOK` (NATS)
follows the site certificate from the check, or from a check that could not read it,
through the deletes to the list.
Each module begins with the effect of the operations of `SecretStore`, from
`VersionLemmas`; the lists of up to four secrets are treated with
`ChosenShape` and `LackingShape`.

For any releases of the operator, any number of versions of the config map and
customisations of any length (`RouterConfigProofs`, from `ReleasesAssumption` and
`VersionsAssumption`):

| Theorem | States |
| --- | --- |
| `MergeEntries` | what one merge makes of any configuration |
| `Invariance` | `Spec => []IInv` |
| `TypeCorrect` | `Spec => []TypeOK` |
| `UpgradesAreComplete` | `Spec => []UpgradeIsComplete` |
| `CustomsStay` | `Spec => CustomsAreKept` |
| `OneMergePerRelease` | `Spec => MergedOnce` |

The merge is a function of two lists, so most of the proof is about lists of any
length: which entries `Without` leaves, which ones a flattened list has, which entry
`ConfigVersion` reads. The library's induction takes an operator as a parameter, which
the provers cannot be given; `Induction` and `Recursion` say the same of a *set* of
numbers and of a *function*, from the well-foundedness of `<`, and can be cited. Two
ideas make the invariant. *A configuration is sound*: all its router entries
have the same version, and it contains the template of that version if there is one; a merge
makes any sound list sound for the new version (`MergeEntries`), and what others add
or remove does not matter to it (`CustomsDoNotMatter`). *What was found under the
number that is stored is what is stored*: an accepted write merges into the
configuration as it is, so nothing that came between the read and the write is lost.

For any numbers of replicas and any number of edits and faults (`ApplicationProofs`, from
`CountsAssumption` and `BoundAssumption`):

| Theorem | States |
| --- | --- |
| `Invariance` | `Spec => []IInv` |
| `TypeCorrect` | `Spec => []TypeOK` |
| `NothingIsForgotten` | `Spec => []NotForgotten` |
| `OwnerAlone` | `Spec => OwnerDecides` |

Its invariant orders the versions of both objects, so that an Update that is no conflict
starts from what is stored, and says of a pass that is about to end what it has seen.

For any set of specs, any edits between them, any keys, any objects whose creation may
fail or whose read may lag, and any number of faults (`BringupProofs`, from
`SpecsAssumption`, `KeysAssumption` and `BoundsAssumption`):

| Theorem | States |
| --- | --- |
| `Invariance` | `Spec => []IInv` |
| `TypeCorrect` | `Spec => []TypeOK` |
| `KeyInUse` | `Spec => []ConfUsesKey` |
| `KeyForGood` | `Spec => KeyIsKept` |
| `FilesComeFirst` | `Spec => []DeployedInOrder` |
| `ReadyPodsStart` | `Spec => []ReadyPodsCanStart` |
| `ReadyMeansComplete` | `Spec => []ReadyIsComplete` |
| `WorkIsNotUndone` | `Spec => WorkStays` |
| `Promise` | `Spec => KeepsContract` |

`ReadyIsComplete` says nothing of a pass that is under way, so its invariant says of
each routine what it has done when it has come to a step (`ControllerInv`, `RouterInv`,
`NatsInv`). *Nothing but NATS's server certificates is ever taken away*, and an object
whose keys do not depend on the spec keeps them (`PartsInv`), so what one routine has stored the two others leave alone; the
lemmas about steps of a routine (`StepKeeps`) carry the rest over. What a list of objects
stores is proved from the list of the builder (`ControllerList`, `RouterLists`,
`NatsLists`), and that the keys it writes are those the environment reads from
`Microservices` alone. `KeyInv` ties the JetStream key to `server.conf`. `CertInv` says of a pass that did not
misread the server certificates that what it leaves of the site certificate is made
for its spec, and that both are there once it has come to `server.conf`. `ReadyInv`
says that while the ControlPlane is ready no routine is at work and what the last pass
did is still there: an edit ends ready before anything else happens, and only a pod
that starts on another database forgets (`moved`).

`KeyForGood`, `WorkIsNotUndone` and `Promise` rest on one lemma, `NextAdvances`: no step
takes anything back. Objects stay, the server certificates too when the site certificate
is made for the spec of the pass and was not misread; the credentials, the template and
the keys of the vault's secret stay or become those of the spec of the pass; a key in
use stays; what the Controller was told is forgotten only with a move. `Promise` needs
`IInv` in both states of a step: while the ControlPlane is ready, and the last pass did
not misread the server certificates, the mapped `deployed` is the spec in every
component, before and after, so that a step that leaves it ready moves nothing the
contract sees.

## Only model-checked

- `Converges` (of `ControlPlane` and of `Application`), `ComesToRest`, `ComesUp` and
  `EveryPassEnds`: liveness under fairness is out of the prover's reach.
- The five findings, each a behaviour that TLC shows.

All other properties that a run checks are theorems. The inductive invariants are not
checked by runs any more, as they are proved.

## Assumptions and what is not modelled

- One operator is active: `--enable-leader-election` is set, or there is one
  replica. One ControlPlane per namespace is modelled.
- A new process lists objects that are not older than what the last one saw.
- A ControlPlane that is deleted is not created again under the same name, and
  the garbage collection of its children is left to Kubernetes.
- Delays and back-off are abstracted: a requeued key may be taken at any time.
- Reasons of conditions are abstracted to classes, specs to values, host names to
  the number of replicas. Times are left out; `restartedAt` is the number of the
  pass that set it, that is, passes that set it are a second apart.
- In `NatsCluster` and the TLS modules the routine's other steps are left out;
  a pass that fails in one of them is a crash of the model at that point, seen
  from these objects. NATS is enabled.
- In `Bringup` the CAs, the router's certificates, `server.conf` and the router's
  configuration are objects that exist or not, and NATS's server certificates have a
  number of replicas but no signer: `NatsTls`, `RouterTls`, `NatsCluster` and
  `RouterConfig` look into them. The operator takes no other object away; that somebody
  else does is left out.
- The owner's certificate for https is in the namespace from the start (`Bringup!Init`):
  the operator neither creates nor looks for it, so that a ready Controller's pod finds
  it is the owner's doing.
- In `Bringup` the StatefulSet is created and not updated. NATS's pods, the router's
  pods and the agents do not act.
- In `Application` the Deployment is collected only after the informer has shown that
  the Application is gone, and the resync of the informers every ten hours is left
  out: it would end what `astray` stands for.
- Not modelled, with the reasons in `PROJECT.json`: images, ports, probes, rules and
  security contexts of the objects, the second router (HA is switched off in
  `reconcile.go:451-454`), the Keycloak update (its failure is ignored), the entry
  point, generated code and manifests.
- In `RouterConfig` others add and remove entries of their own; they leave those of
  the template alone. Text that does not parse, or has entries of another shape,
  is left out.
