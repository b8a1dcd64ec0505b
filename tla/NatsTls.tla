------------------------------ MODULE NatsTls ------------------------------
(***************************************************************************)
(* The TLS secrets of the NATS component: the part of reconcileNats that   *)
(* deletes the server certificates when the number of replicas has changed *)
(* and the one that creates whatever is missing                            *)
(* (controllers/controlplanes/reconcile.go:697-730, nats/certs.go).        *)
(*                                                                         *)
(* One worker runs the passes one after the other; a pass that continues   *)
(* may still be followed by another one, for a new version of the          *)
(* ControlPlane or because another component asked for it.                 *)
(***************************************************************************)
EXTENDS SecretStore

CONSTANT ReplicaCounts    \* the numbers of replicas a spec can ask for

ASSUME ReplicasAssumption == ReplicaCounts \subseteq Nat

VARIABLES
  pc,         \* where reconcileNats is
  replicas,   \* the number of NATS replicas of the pass
  compared,   \* history: the pass could compare replicas
  seen,       \* what EnsureNatsSecrets has read so far
  todo        \* what it returned and reconcileNats has yet to create

vars == <<versions, pass, misled, pc, replicas, compared, seen, todo>>

\* The order in which EnsureNatsSecrets reads and returns them.
Order == <<"siteCA", "localCA", "siteServer", "mqttServer">>

NatsSecrets == {"siteCA", "localCA", "siteServer", "mqttServer"}
ServerSecrets == {"siteServer", "mqttServer"}
CAOf == [siteServer |-> "siteCA", mqttServer |-> "localCA"]

ASSUME NamesAssumption == Names = NatsSecrets

Item == [name : Names, secret : Secret]

TypeOK ==
  /\ StoreTypeOK
  /\ pc \in {"idle", "check", "deleteSite", "deleteMqtt", "look", "create",
             "continued"}
  /\ replicas \in Nat /\ replicas >= 2
  /\ compared \in BOOLEAN
  /\ seen \in Seq(Secret) /\ Len(seen) <= 4
  /\ todo \in Seq(Item) /\ Len(todo) <= 4

Init ==
  /\ StoreInit
  /\ pc = "idle"
  /\ replicas = 2
  /\ compared = FALSE
  /\ seen = << >>
  /\ todo = << >>
-----------------------------------------------------------------------------
\* Mutant: the number is taken as it is.
MutReplicas(n) == n

\* NATS runs as a cluster of at least two.
Replicas(n) == IF n < 2 THEN 2 ELSE n

Begin ==
  /\ pc \in {"idle", "continued"}
  /\ BeginPass
  /\ pc' = "check"
  /\ \E n \in ReplicaCounts : replicas' = Replicas(n)
  /\ compared' = FALSE
  /\ UNCHANGED <<seen, todo>>

\* Mutant: the annotation is not compared, the certificates are kept.
MutStale(site) == FALSE

\* The annotation datasance.com/nats-replicas of the site certificate.
Stale(site) == site # Missing /\ site.hosts # replicas

CheckReplicas ==
  /\ pc = "check"
  /\ Noticing("siteServer")
  /\ pc' = IF Stale(Read("siteServer")) THEN "deleteSite" ELSE "look"
  /\ compared' = TRUE
  /\ UNCHANGED <<versions, pass, replicas, seen, todo>>

\* The Get fails: nothing is compared, nothing is deleted, the pass goes on.
CheckFails ==
  /\ pc = "check"
  /\ pc' = "look"
  /\ UNCHANGED <<versions, pass, misled, replicas, compared, seen, todo>>

\* A Delete that finds nothing (NotFound) is as good as one that does.
Remove(name, from, to) ==
  /\ pc = from
  /\ Put(name, Missing)
  /\ pc' = to
  /\ UNCHANGED <<pass, misled, replicas, compared, seen, todo>>

DeleteSite == Remove("siteServer", "deleteSite", "deleteMqtt")
DeleteMqtt == Remove("mqttServer", "deleteMqtt", "look")

\* One of the four Gets of EnsureNatsSecrets.
Look ==
  /\ pc = "look"
  /\ Len(seen) < Len(Order)
  /\ seen' = Append(seen, Read(Order[Len(seen) + 1]))
  /\ Noticing(Order[Len(seen) + 1])
  /\ UNCHANGED <<versions, pass, pc, replicas, compared, todo>>

\* Mutant: the CA that was found is not used.
MutCA(i) == SelfSigned

\* A CA as EnsureNatsSecrets goes on to use it: the one read or a new one.
CA(i) == IF seen[i] = Missing THEN SelfSigned ELSE seen[i]

Generated == <<CA(1), CA(2), SignedBy(CA(1), replicas), SignedBy(CA(2), replicas)>>

\* Mutant: certificates come before the CAs that sign them.
MutLacking ==
  LET add(i) == IF seen[i] = Missing
                  THEN <<[name |-> Order[i], secret |-> Generated[i]]>>
                  ELSE << >>
  IN  add(3) \o add(4) \o add(1) \o add(2)

\* What EnsureNatsSecrets returns: the secrets it did not find, CAs first.
Lacking ==
  LET add(i) == IF seen[i] = Missing
                  THEN <<[name |-> Order[i], secret |-> Generated[i]]>>
                  ELSE << >>
  IN  add(1) \o add(2) \o add(3) \o add(4)

Generate ==
  /\ pc = "look"
  /\ Len(seen) = Len(Order)
  /\ todo' = Lacking
  /\ seen' = << >>
  /\ pc' = "create"
  /\ UNCHANGED <<versions, pass, misled, replicas, compared>>

\* Mutant: a secret that is already there is overwritten.
MutCreateSecret ==
  /\ pc = "create"
  /\ todo # << >>
  /\ Put(Head(todo).name, Head(todo).secret)
  /\ todo' = Tail(todo)
  /\ UNCHANGED <<pass, misled, pc, replicas, compared, seen>>

\* AlreadyExists is ignored.
CreateSecret ==
  /\ pc = "create"
  /\ todo # << >>
  /\ StoreNew(Head(todo).name, Head(todo).secret)
  /\ todo' = Tail(todo)
  /\ UNCHANGED <<pass, misled, pc, replicas, compared, seen>>

\* All secrets are created and the pass goes on to "continue".
Continue ==
  /\ pc = "create"
  /\ todo = << >>
  /\ pc' = "continued"
  /\ UNCHANGED <<versions, pass, misled, replicas, compared, seen, todo>>
-----------------------------------------------------------------------------
Abort ==
  /\ pc' = "idle"
  /\ seen' = << >>
  /\ todo' = << >>

\* A Delete or a Create fails, on its way there or on its way back, or a Get of
\* EnsureNatsSecrets with another error than NotFound.
CallFails ==
  /\ \/ pc = "look" /\ Len(seen) < Len(Order) /\ UNCHANGED versions
     \/ pc = "deleteSite" /\ (Put("siteServer", Missing) \/ UNCHANGED versions)
     \/ pc = "deleteMqtt" /\ (Put("mqttServer", Missing) \/ UNCHANGED versions)
     \/ /\ pc = "create" /\ todo # << >>
        /\ StoreNew(Head(todo).name, Head(todo).secret) \/ UNCHANGED versions
  /\ Abort
  /\ UNCHANGED <<pass, misled, replicas, compared>>

\* The operator's process stops and another one takes over.
Crash ==
  /\ Abort
  /\ Relist
  /\ UNCHANGED <<replicas, compared>>

Deliver == Follow /\ UNCHANGED <<pc, replicas, compared, seen, todo>>

Step == \/ Begin \/ CheckReplicas \/ DeleteSite \/ DeleteMqtt
        \/ Look \/ Generate \/ CreateSecret \/ Continue

Next == Step \/ Deliver \/ CheckFails \/ CallFails \/ Crash

Spec == Init /\ [][Next]_vars

\* Nothing fails: no call, and no process.
CalmSpec == Init /\ [][Step \/ Deliver]_vars
-----------------------------------------------------------------------------
(***************************************************************************)
(* Properties.                                                             *)
(***************************************************************************)

\* Whatever stale reads, failed calls and crashes there are, no server
\* certificate is ever stored in a namespace without the CA it belongs to
\* (certs.go:93-133 returns the CAs first, reconcile.go:722-730 stops at the
\* first error).
CAFirst ==
  \A s \in ServerSecrets :
    stored[s] # Missing => stored[CAOf[s]] # Missing

\* A server certificate that the stored CA did not sign was generated in a
\* pass that read stale secrets (reconcile.go:727 takes AlreadyExists of a CA
\* for success and goes on with certificates signed by the CA it threw away).
ChainBroken(s) == stored[s] # Missing /\ stored[s].signer # stored[CAOf[s]].key

OnlyStaleReadsBreakChains ==
  \A s \in ServerSecrets : ChainBroken(s) => stored[s].key \in misled

\* A pass that continues and read nothing stale leaves a site certificate,
\* however the passes before it ended, and one for exactly the replicas asked
\* for unless the Get before the comparison failed: its error is not looked at
\* (reconcile.go:701-702), the pass goes on with the certificate there is.
SiteIsCurrent ==
  (pc = "continued" /\ pass \notin misled) =>
    /\ stored["siteServer"] # Missing
    /\ compared => stored["siteServer"].hosts = replicas

\* A CA, once stored, stays: the agents that were handed its certificate go on
\* trusting the cluster; and a site certificate is given up only by a pass
\* that wants other replicas than it names, or was misled.
KeysAreKept ==
  [][/\ \A ca \in Names \ ServerSecrets :
          stored[ca] # Missing => stored'[ca] = stored[ca]
     /\ LET site == stored["siteServer"]
        IN  (site # Missing /\ stored'["siteServer"] # site) =>
              site.hosts # replicas \/ pass \in misled]_vars

\* What the comment at reconcile.go:697-698 says of a change of replicas:
\* EnsureNatsSecrets recreates both certificates with hosts for all current
\* replicas, so both are there when the pass continues.
BothAreRecreated ==
  pc = "continued" => \A s \in ServerSecrets : stored[s] # Missing

\* The same comment of a pass that read nothing stale and could compare the
\* replicas: the MQTT certificate names the current ones.
MqttIsCurrent ==
  (pc = "continued" /\ pass \notin misled /\ compared) =>
    stored["mqttServer"].hosts = replicas
=============================================================================
