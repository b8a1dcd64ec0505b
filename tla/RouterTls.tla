----------------------------- MODULE RouterTls -----------------------------
(***************************************************************************)
(* The TLS secrets of the router: createRouterSecrets decides what to      *)
(* store from one round of Gets, createSecrets stores it after a second    *)
(* Get of each secret (controllers/controlplanes/reconcile.go:847-949,     *)
(* k8s.go:176-241).  Between the two rounds the informer's copy moves.     *)
(***************************************************************************)
EXTENDS SecretStore

VARIABLES
  pc,       \* where reconcileRouter is
  seen,     \* what createRouterSecrets has read so far
  secrets   \* ms.secrets: what createSecrets has yet to go through

vars == <<versions, pass, misled, pc, seen, secrets>>

Order == <<"siteCA", "localCA", "siteServer", "localServer">>

RouterSecrets == {"siteCA", "localCA", "siteServer", "localServer"}
ServerSecrets == {"siteServer", "localServer"}
CAOf == [siteServer |-> "siteCA", localServer |-> "localCA"]

ASSUME NamesAssumption == Names = RouterSecrets

Item == [name : Names, secret : Secret]

TypeOK ==
  /\ StoreTypeOK
  /\ pc \in {"idle", "look", "create", "continued"}
  /\ seen \in Seq(Secret) /\ Len(seen) <= 4
  /\ secrets \in Seq(Item) /\ Len(secrets) <= 4

Init ==
  /\ StoreInit
  /\ pc = "idle"
  /\ seen = << >>
  /\ secrets = << >>
-----------------------------------------------------------------------------
\* The pass gets an address and turns to the secrets.
Begin ==
  /\ pc \in {"idle", "continued"}
  /\ BeginPass
  /\ pc' = "look"
  /\ UNCHANGED <<seen, secrets>>

Looking == pc = "look" /\ Len(seen) < Len(Order)

\* One of the four Gets of createRouterSecrets.
Look ==
  /\ Looking
  /\ seen' = Append(seen, Read(Order[Len(seen) + 1]))
  /\ Noticing(Order[Len(seen) + 1])
  /\ UNCHANGED <<versions, pass, pc, secrets>>

\* Any error of the Get counts as "does not exist".
LookFails ==
  /\ Looking
  /\ seen' = Append(seen, Missing)
  /\ misled' = IF stored[Order[Len(seen) + 1]] = Missing
                 THEN misled ELSE misled \cup {pass}
  /\ UNCHANGED <<versions, pass, pc, secrets>>

\* Mutant: a server certificate is signed by itself.
MutSecretAt(i) == IF seen[i] = Missing THEN SelfSigned ELSE seen[i]

\* The secret to use under the i-th name: the one that was read, or a new one.
SecretAt(i) ==
  LET ca == IF seen[i - 2] = Missing THEN SelfSigned ELSE seen[i - 2]
  IN  IF seen[i] # Missing THEN seen[i]
      ELSE IF i <= 2 THEN SelfSigned
      ELSE SignedBy(ca, 0)

Entry(i) == <<[name |-> Order[i], secret |-> SecretAt(i)]>>

\* Mutant: the servers come before the CAs.
MutChosen ==
  LET lacking(i) == IF seen[i] = Missing THEN Entry(i) ELSE << >>
  IN  Entry(3) \o Entry(4) \o lacking(1) \o lacking(2)

\* ms.secrets: the CAs that were not found, then both servers in any case.
Chosen ==
  LET lacking(i) == IF seen[i] = Missing THEN Entry(i) ELSE << >>
  IN  lacking(1) \o lacking(2) \o Entry(3) \o Entry(4)

Generate ==
  /\ pc = "look"
  /\ Len(seen) = Len(Order)
  /\ secrets' = secrets \o Chosen
  /\ seen' = << >>
  /\ pc' = "create"
  /\ UNCHANGED <<versions, pass, misled>>

Creating == pc = "create" /\ secrets # << >>

\* Mutant: a secret that is found is updated (createOrUpdateSecrets with
\* update set).
MutSkipSecret ==
  /\ Creating
  /\ Read(Head(secrets).name) # Missing
  /\ Put(Head(secrets).name, Head(secrets).secret)
  /\ secrets' = Tail(secrets)
  /\ UNCHANGED <<pass, misled, pc, seen>>

\* The Get of createSecrets finds the secret: "Skip reconciliation".
SkipSecret ==
  /\ Creating
  /\ Read(Head(secrets).name) # Missing
  /\ secrets' = Tail(secrets)
  /\ UNCHANGED <<versions, pass, misled, pc, seen>>

CreateSecret ==
  /\ Creating
  /\ Read(Head(secrets).name) = Missing
  /\ stored[Head(secrets).name] = Missing
  /\ Put(Head(secrets).name, Head(secrets).secret)
  /\ secrets' = Tail(secrets)
  /\ UNCHANGED <<pass, misled, pc, seen>>

\* Mutant: the microservice, with its secrets, outlives the pass.
MutAbort ==
  /\ pc' = "idle"
  /\ seen' = << >>
  /\ UNCHANGED secrets

Abort ==
  /\ pc' = "idle"
  /\ seen' = << >>
  /\ secrets' = << >>

\* The Create of a secret the Get did not show yet is an error.
AlreadyExists ==
  /\ Creating
  /\ Read(Head(secrets).name) = Missing
  /\ stored[Head(secrets).name] # Missing
  /\ Abort
  /\ UNCHANGED <<versions, pass, misled>>

Continue ==
  /\ pc = "create"
  /\ secrets = << >>
  /\ pc' = "continued"
  /\ UNCHANGED <<versions, pass, misled, seen, secrets>>
-----------------------------------------------------------------------------
\* Mutant: the error does not end the loop.
MutCallFails ==
  /\ Creating
  /\ secrets' = Tail(secrets)
  /\ UNCHANGED <<versions, pass, misled, pc, seen>>

\* The Get or the Create of createSecrets fails, the latter with its effect
\* or without it.
CallFails ==
  /\ Creating
  /\ \/ UNCHANGED versions
     \/ /\ Read(Head(secrets).name) = Missing
        /\ StoreNew(Head(secrets).name, Head(secrets).secret)
  /\ Abort
  /\ UNCHANGED <<pass, misled>>

Crash == Abort /\ Relist

Deliver == Follow /\ UNCHANGED <<pc, seen, secrets>>

Next ==
  \/ Begin \/ Look \/ Generate \/ SkipSecret \/ CreateSecret \/ AlreadyExists
  \/ Continue \/ Deliver
  \/ LookFails \/ CallFails \/ Crash

Spec == Init /\ [][Next]_vars
-----------------------------------------------------------------------------
(***************************************************************************)
(* Properties.                                                             *)
(***************************************************************************)

\* Whatever fails or is read too early, a pass that continues leaves the four
\* secrets the router mounts or the Controller imports: what createSecrets
\* skipped because its Get found it is really there.
AllAreStored ==
  pc = "continued" => \A n \in Names : stored[n] # Missing

\* No server certificate is ever stored without the CA it belongs to.
CAFirst ==
  \A s \in ServerSecrets :
    stored[s] # Missing => stored[CAOf[s]] # Missing

\* A server certificate that the stored CA did not sign was generated in a
\* pass that read stale secrets, or failed to read one: the first Get missed
\* a CA that the second Get then found and skipped (k8s.go:222-234).
ChainBroken(s) == stored[s] # Missing /\ stored[s].signer # stored[CAOf[s]].key

OnlyMisreadsBreakChains ==
  \A s \in ServerSecrets : ChainBroken(s) => stored[s].key \in misled

\* A secret, once stored, is never replaced: neither the CA that agents were
\* handed nor the certificates that routers run with (k8s.go:236-243).
SecretsAreKept ==
  [][\A n \in Names : stored[n] # Missing => stored'[n] = stored[n]]_vars
=============================================================================
