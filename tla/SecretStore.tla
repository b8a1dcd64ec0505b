---------------------------- MODULE SecretStore ----------------------------
(***************************************************************************)
(* The TLS secrets of a ControlPlane's namespace, as the operator reads    *)
(* and writes them: writes go to the API server, reads (r.Client.Get) are  *)
(* answered from an informer's copy, which follows some time later         *)
(* (main.go builds the manager with the default, caching client).          *)
(*                                                                         *)
(* A certificate is abstracted to what tells two of them apart: "key", the *)
(* pass that generated it, "signer", the pass that generated the CA it is  *)
(* signed with, and "hosts", the number of NATS replicas its host names    *)
(* were made for (0 when it does not depend on them).                      *)
(***************************************************************************)
EXTENDS Naturals, Sequences

CONSTANTS Names,       \* the names of the secrets
          MaxPasses    \* bound: how many passes there are

ASSUME PassesAssumption == MaxPasses \in Nat

VARIABLES
  versions,   \* the secrets, from the informer's copy to the stored ones
  pass,       \* how many passes have begun
  misled      \* the passes that read something else than what is stored

store == <<versions, pass, misled>>

Missing == [key |-> 0, signer |-> 0, hosts |-> 0]

Secret == [key : 0..MaxPasses, signer : 0..MaxPasses, hosts : Nat]

cached == Head(versions)
stored == versions[Len(versions)]

StoreTypeOK ==
  /\ versions \in Seq([Names -> Secret])
  /\ versions # << >>
  /\ pass \in 0..MaxPasses
  /\ misled \subseteq 1..MaxPasses

StoreInit ==
  /\ versions = <<[n \in Names |-> Missing]>>
  /\ pass = 0
  /\ misled = {}

\* GenerateSecret: self-signed without a CA, signed with its key otherwise.
SelfSigned == [key |-> pass, signer |-> pass, hosts |-> 0]
SignedBy(ca, hosts) == [key |-> pass, signer |-> ca.key, hosts |-> hosts]

\* A Get of a secret: what it returns and whether that misleads the pass.
Read(name) == cached[name]
Noticing(name) ==
  misled' = IF Read(name) = stored[name] THEN misled ELSE misled \cup {pass}

Put(name, secret) ==
  versions' = IF stored[name] = secret THEN versions
              ELSE Append(versions, [stored EXCEPT ![name] = secret])

\* A Create that finds the secret there (AlreadyExists) changes nothing.
StoreNew(name, secret) ==
  Put(name, IF stored[name] = Missing THEN secret ELSE stored[name])

\* The informer's copy follows by one version.
Follow ==
  /\ Len(versions) > 1
  /\ versions' = Tail(versions)
  /\ UNCHANGED <<pass, misled>>

\* A new process of the operator lists the secrets before it reads them.
Relist ==
  /\ versions' = <<stored>>
  /\ UNCHANGED <<pass, misled>>

BeginPass ==
  /\ pass < MaxPasses
  /\ pass' = pass + 1
  /\ UNCHANGED <<versions, misled>>
=============================================================================
