---------------------------- MODULE NatsCluster ----------------------------
(***************************************************************************)
(* server.conf and the StatefulSet of the NATS component, the last part of *)
(* reconcileNats (controllers/controlplanes/reconcile.go:739-842) and the  *)
(* merge of cluster routes (nats/config.go).                               *)
(*                                                                         *)
(* The Controller writes server.conf too: it adds the routes of agents and *)
(* takes them away.  The operator reads the config map twice, once for the *)
(* routes to preserve and once for the object to update, both times from   *)
(* the informer's copy.                                                    *)
(***************************************************************************)
EXTENDS Naturals, Sequences

CONSTANTS Agents,          \* the agents that can have a cluster route
          ReplicaCounts,   \* the numbers of replicas a pass can ask for
          MaxPasses,       \* bound: how many passes there are
          MaxVersions      \* bound: the Controller writes up to this version

ASSUME ReplicasAssumption == ReplicaCounts \subseteq Nat \ {0, 1}
ASSUME BoundsAssumption == MaxPasses \in Nat /\ MaxVersions \in Nat

VARIABLES
  confs,      \* the config map, from the informer's copy to the stored one
  sets,       \* the StatefulSet, from the informer's copy to the stored one
  pc,         \* where reconcileNats is
  pass,       \* how many passes have begun
  replicas,   \* the number of replicas of the pass
  base,       \* the config map whose routes are merged (existingNatsCM)
  found,      \* the config map to update (existingCM)
  stamp,      \* the restartedAt of natsMs.podTemplateAnnotations
  misled      \* whether the pass read another StatefulSet than the one stored

vars == <<confs, sets, pc, pass, replicas, base, found, stamp, misled>>

\* The routes of server.conf: the ordinals of the StatefulSet's pods and the
\* agents the Controller added.
PodRoutes == {0..(n - 1) : n \in ReplicaCounts \cup {0}}
Conf == [there : BOOLEAN, rv : Nat, own : PodRoutes, agents : SUBSET Agents]
NoConf == [there |-> FALSE, rv |-> 0, own |-> {}, agents |-> {}]

\* restartedAt is the number of the pass that set it, 0 without the annotation:
\* passes that set it are taken to be a second apart, its resolution.
Set == [there : BOOLEAN, replicas : ReplicaCounts \cup {0},
        restartedAt : 0..MaxPasses]
NoSet == [there |-> FALSE, replicas |-> 0, restartedAt |-> 0]

conf == confs[Len(confs)]
set == sets[Len(sets)]

TypeOK ==
  /\ confs \in Seq(Conf) /\ confs # << >>
  /\ sets \in Seq(Set) /\ sets # << >>
  /\ pc \in {"idle", "readConf", "findConf", "writeConf", "readSet",
             "writeSet", "continued"}
  /\ pass \in 0..MaxPasses
  /\ replicas \in ReplicaCounts
  /\ base \in Conf /\ found \in Conf
  /\ stamp \in 0..pass
  /\ misled \in BOOLEAN

Init ==
  /\ confs = <<NoConf>>
  /\ sets = <<NoSet>>
  /\ pc = "idle"
  /\ pass = 0
  /\ replicas \in ReplicaCounts
  /\ base = NoConf /\ found = NoConf
  /\ stamp = 0
  /\ misled = FALSE
-----------------------------------------------------------------------------
\* Mutant: the ordinals run up to the number of replicas.
MutRoutesBound(n, existing) ==
  [own |-> 0..n, agents |-> existing.agents]

\* Mutant: the pods' routes are appended to the existing ones.
MutRoutes(n, existing) ==
  [own |-> 0..(n - 1) \cup existing.own, agents |-> existing.agents]

\* ClusterRoutesMerge: the pods' routes replace the existing ones, all others
\* are kept.  Without an existing server.conf there are none.
Routes(n, existing) ==
  [own |-> 0..(n - 1), agents |-> existing.agents]

PutConf(c) ==
  confs' = IF c = conf THEN confs ELSE Append(confs, [c EXCEPT !.rv = @ + 1])

PutSet(s) == sets' = IF s = set THEN sets ELSE Append(sets, s)

Begin ==
  /\ pc \in {"idle", "continued"}
  /\ pass < MaxPasses
  /\ pass' = pass + 1
  /\ replicas' \in ReplicaCounts
  /\ pc' = "readConf"
  /\ misled' = FALSE
  /\ UNCHANGED <<confs, sets, base, found, stamp>>

\* The Get of existingNatsCM.
ReadConfAs(c) ==
  /\ pc = "readConf"
  /\ base' = c
  /\ pc' = "findConf"
  /\ UNCHANGED <<confs, sets, pass, replicas, found, stamp, misled>>

ReadConf == ReadConfAs(Head(confs))

\* The Get of existingCM.
FindConf ==
  /\ pc = "findConf"
  /\ found' = Head(confs)
  /\ pc' = "writeConf"
  /\ UNCHANGED <<confs, sets, pass, replicas, base, stamp, misled>>

\* Mutant: the Update does not carry the version that was found.
MutConfAccepted == TRUE

\* The Create finds no config map; the Update finds the version it was made
\* from.
ConfAccepted == IF found.there THEN found.rv = conf.rv ELSE ~conf.there

Merged ==
  [there |-> TRUE, rv |-> conf.rv, own |-> Routes(replicas, base).own,
   agents |-> Routes(replicas, base).agents]

StoreConf == pc = "writeConf" /\ ConfAccepted /\ PutConf(Merged)

WriteConf ==
  /\ StoreConf
  /\ pc' = "readSet"
  /\ UNCHANGED <<sets, pass, replicas, base, found, stamp, misled>>

\* Mutant: a restart is asked for when the StatefulSet is to grow.
MutScaleDown(s) == s.replicas < replicas

ScaleDown(s) == s.replicas > replicas

\* Mutant: the annotations of the StatefulSet are not carried over.
MutStampFor(s) == IF s.there /\ ScaleDown(s) THEN pass ELSE 0

\* The annotations for the StatefulSet that was read.
StampFor(s) == IF s.there /\ ScaleDown(s) THEN pass ELSE s.restartedAt

\* The Get of existingSt.
ReadSetAs(s) ==
  /\ pc = "readSet"
  /\ stamp' = StampFor(s)
  /\ misled' = (s # set)
  /\ pc' = "writeSet"
  /\ UNCHANGED <<confs, sets, pass, replicas, base, found>>

ReadSet == ReadSetAs(Head(sets))

\* createStatefulSet: a Create of what is there fails, an Update does not
\* carry a version.
SetAccepted == Head(sets).there \/ ~set.there

StoreSet ==
  /\ pc = "writeSet"
  /\ SetAccepted
  /\ PutSet([there |-> TRUE, replicas |-> replicas, restartedAt |-> stamp])

WriteSet ==
  /\ StoreSet
  /\ pc' = "continued"
  /\ UNCHANGED <<confs, pass, replicas, base, found, stamp, misled>>

\* A conflict, or an object that already exists: the error requeues.
Refused ==
  /\ \/ pc = "writeConf" /\ ~ConfAccepted
     \/ pc = "writeSet" /\ ~SetAccepted
  /\ pc' = "idle"
  /\ UNCHANGED <<confs, sets, pass, replicas, base, found, stamp, misled>>
-----------------------------------------------------------------------------
(***************************************************************************)
(* The Controller, the informers, and what can go wrong.                   *)
(***************************************************************************)
ControllerEdits ==
  /\ conf.there
  /\ conf.rv < MaxVersions
  /\ \E S \in SUBSET Agents :
        S # conf.agents /\ PutConf([conf EXCEPT !.agents = S])
  /\ UNCHANGED <<sets, pc, pass, replicas, base, found, stamp, misled>>

DeliverConf ==
  /\ Len(confs) > 1
  /\ confs' = Tail(confs)
  /\ UNCHANGED <<sets, pc, pass, replicas, base, found, stamp, misled>>

DeliverSet ==
  /\ Len(sets) > 1
  /\ sets' = Tail(sets)
  /\ UNCHANGED <<confs, pc, pass, replicas, base, found, stamp, misled>>

\* Either Get counts as one that finds nothing when it fails.
ReadFails == ReadConfAs(NoConf) \/ ReadSetAs(NoSet)

\* A call fails, on its way there or with its effect done.
CallFails ==
  /\ \/ StoreConf /\ UNCHANGED sets
     \/ StoreSet /\ UNCHANGED confs
     \/ pc \in {"findConf", "writeConf", "writeSet"} /\ UNCHANGED <<confs, sets>>
  /\ pc' = "idle"
  /\ UNCHANGED <<pass, replicas, base, found, stamp, misled>>

Crash ==
  /\ pc' = "idle"
  /\ confs' = <<conf>>
  /\ sets' = <<set>>
  /\ UNCHANGED <<pass, replicas, base, found, stamp, misled>>

Calm ==
  \/ Begin \/ ReadConf \/ FindConf \/ WriteConf \/ ReadSet \/ WriteSet
  \/ Refused \/ ControllerEdits \/ DeliverConf \/ DeliverSet

Next == Calm \/ ReadFails \/ CallFails \/ Crash

Spec == Init /\ [][Next]_vars

\* No call fails and no process stops.
CalmSpec == Init /\ [][Calm]_vars
-----------------------------------------------------------------------------
(***************************************************************************)
(* Properties.                                                             *)
(***************************************************************************)

\* From the write of server.conf to the end of the pass, whatever the
\* Controller does meanwhile and however stale the reads were, server.conf
\* routes to exactly the pods of the pass (config.go:264-308).
OwnRoutesMatch ==
  pc \in {"readSet", "writeSet", "continued"} =>
    conf.there /\ conf.own = 0..(replicas - 1)

\* The operator overwrites the Controller's routes only when its two reads of
\* the config map differ: a write of the Controller after both of them makes
\* the Update a conflict (reconcile.go:743 and 788).
OnlyTornReadsLoseRoutes ==
  [][(pc = "writeConf" /\ pc' # pc /\ base = found) =>
       conf'.agents = conf.agents]_vars

\* When the StatefulSet shrinks, its pods are restarted, and only after
\* server.conf has dropped the routes to the pods that go
\* (reconcile.go:813-834), unless the pass read a stale StatefulSet.
ShrinkingRestarts ==
  [][set'.replicas < set.replicas =>
       /\ \A i \in conf.own : i < set'.replicas
       /\ set'.restartedAt # set.restartedAt \/ misled]_vars

\* Nothing else restarts them: a retry, a scale-up and a pass that changes
\* nothing keep the annotation as it is (reconcile.go:830-833), unless the
\* pass read a stale StatefulSet.
NoNeedlessRestart ==
  [][set'.restartedAt # set.restartedAt =>
       set'.replicas < set.replicas \/ misled]_vars

\* A config map that is not there is empty.
Real(c) == ~c.there => c = NoConf

\* Versions of the config map are ordered, and the one that was found to be
\* updated is the stored one when their numbers agree.
ConfsKnown ==
  /\ \A i, j \in 1..Len(confs) : i < j => confs[i].rv < confs[j].rv
  /\ \A i \in 1..Len(confs) : Real(confs[i])
  /\ Real(base) /\ Real(found)
  /\ found.rv <= conf.rv
  /\ found.rv = conf.rv => found = conf

\* No pass has set restartedAt yet that has not come to the StatefulSet, and one
\* that has read it as it is stored holds the annotation for it.
StampKnown ==
  /\ \A i \in 1..Len(sets) : sets[i].restartedAt <= pass
  /\ pc \notin {"idle", "continued"} => set.restartedAt < pass
  /\ ~set.there => set.replicas = 0
  /\ pc = "writeSet" /\ ~misled => stamp = StampFor(set)

\* The inductive invariant behind the properties above.
IInv == TypeOK /\ OwnRoutesMatch /\ ConfsKnown /\ StampKnown

\* What the comment at reconcile.go:740 says of the merge: the routes the
\* Controller added are preserved.
ControllerRoutesPreserved ==
  [][(pc = "writeConf" /\ pc' # pc) => conf.agents \subseteq conf'.agents]_vars
=============================================================================
