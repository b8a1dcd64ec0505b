---------------------------- MODULE ControlPlane ----------------------------
(***************************************************************************)
(* The life of one ControlPlane: its owner edits and deletes it, the API   *)
(* server stores it, an informer delivers it to the operator some time     *)
(* later, and the operator's reconciler runs passes over it                *)
(* (controllers/controlplanes/controller.go and states.go).                *)
(*                                                                         *)
(* A pass copies the informer's version into r.cp, decides by its          *)
(* condition, runs one routine per component concurrently and, when all of *)
(* them continue, marks the object ready.  What a routine does inside is   *)
(* the subject of other modules; here it moves the component it deploys    *)
(* towards the value of r.cp, in more than one step, and may fail.         *)
(*                                                                         *)
(* External: the API server's optimistic locking, generations and schema,  *)
(* the informer, the work queue, all as the code uses them.                *)
(***************************************************************************)
EXTENDS Conditions

CONSTANTS Components,     \* the routines of a pass: router, nats, controller
          Values,         \* what a ControlPlane's spec can ask for
          Nothing,        \* what a component runs before its first deployment
          Mixed,          \* a component that is only half rolled out
          MaxGeneration   \* bound: the owner stops editing at this generation

ASSUME DistinctAssumption == Nothing \notin Values /\ Mixed \notin Values
ASSUME BoundAssumption == MaxGeneration \in Nat

VARIABLES
  versions,   \* the object, from the informer's version to the stored one
  cp,         \* r.cp, the reconciler's working copy
  pc,         \* where the reconciler is
  mode,       \* which of reconcileDeploying / reconcileUpdating runs
  results,    \* what each component's routine has sent on reconChan
  queued,     \* the work queue holds the object's key
  deployed    \* what each component runs in the cluster

vars == <<versions, cp, pc, mode, results, queued, deployed>>
-----------------------------------------------------------------------------
(***************************************************************************)
(* A version of the object.  "value" is what the spec asks for and "form"  *)
(* how it is spelled: the spec's struct fields are never omitted when this *)
(* operator serialises it, so an object it has written is "full", while    *)
(* its owner may leave the empty ones out.                                 *)
(***************************************************************************)
Forms == {"brief", "full"}

Version == [live : BOOLEAN, rv : Nat, gen : Nat, value : Values,
            form : Forms, conds : Seq(Condition)]

cached == Head(versions)
stored == versions[Len(versions)]

IsIn(o, state) == GetCondition(o.conds, o.gen) = state

Ready(o) == o.live /\ IsIn(o, "ready")

\* The conditions an object may carry when this operator first sees it: none,
\* or those of an older release, whose reasons may be malformed and of which
\* more than one may be True.
InitialConditions ==
  LET old(t, s, r) == [type |-> t, status |-> s, gen |-> 0, reason |-> r]
      now(t) == [type |-> t, status |-> TRUE, gen |-> 1,
                 reason |-> "initial_status"]
  IN  {<< >>,
       <<now("legacy")>>,
       <<old("deploying", FALSE, "malformed"), now("legacy"), now("ready")>>,
       <<old("ready", TRUE, "malformed"), old("deploying", TRUE, "transition")>>}

Outcomes == {"continue", "requeue", "error"}

TypeOK ==
  /\ versions \in Seq(Version)
  /\ versions # << >>
  /\ cp \in Version
  /\ pc \in {"idle", "migrate", "reconcile", "status", "update", "down"}
  /\ mode \in {"deploying", "updating"}
  /\ results \in [Components -> Outcomes \cup {"none", "running"}]
  /\ queued \in BOOLEAN
  /\ deployed \in [Components -> Values \cup {Nothing, Mixed}]

Init ==
  /\ \E v \in Values, f \in Forms, cs \in InitialConditions :
        versions = <<[live |-> TRUE, rv |-> 0, gen |-> 1, value |-> v,
                      form |-> f, conds |-> cs]>>
  /\ cp = cached
  /\ pc = "idle"
  /\ mode = "deploying"
  /\ results = [c \in Components |-> "none"]
  /\ queued = TRUE
  /\ deployed = [c \in Components |-> Nothing]
-----------------------------------------------------------------------------
(***************************************************************************)
(* The API server.                                                         *)
(***************************************************************************)

\* Writing o adds a version, unless nothing would change.
Store(o) ==
  versions' = IF o = stored THEN versions
                            ELSE Append(versions, [o EXCEPT !.rv = @ + 1])

\* Mutant: a write does not carry the resource version it was made from.
MutInTime == stored.live

\* Whether a write that carries cp's resource version goes through.
InTime == stored.live /\ cp.rv = stored.rv

\* A write of the status subresource takes the conditions and nothing else.
WithStatus(o) == [stored EXCEPT !.conds = o.conds]

\* A write of the object takes the spec, as the operator serialises it, and
\* starts a new generation when that changes the stored one.
WithSpec(o) ==
  LET new == [stored EXCEPT !.value = o.value, !.form = "full"]
  IN  IF new = stored THEN stored ELSE [new EXCEPT !.gen = @ + 1]

(***************************************************************************)
(* The owner and the informer.                                             *)
(***************************************************************************)
Edit ==
  /\ stored.live
  /\ stored.gen < MaxGeneration
  /\ \E v \in Values, f \in Forms :
        /\ <<v, f>> # <<stored.value, stored.form>>
        /\ Store([stored EXCEPT !.value = v, !.form = f, !.gen = @ + 1])
  /\ UNCHANGED <<cp, pc, mode, results, queued, deployed>>

Delete ==
  /\ stored.live
  /\ Store([stored EXCEPT !.live = FALSE])
  /\ UNCHANGED <<cp, pc, mode, results, queued, deployed>>

\* The informer replaces its version by the next one and enqueues the key.
Deliver ==
  /\ pc # "down"
  /\ Len(versions) > 1
  /\ versions' = Tail(versions)
  /\ queued' = TRUE
  /\ UNCHANGED <<cp, pc, mode, results, deployed>>
-----------------------------------------------------------------------------
(***************************************************************************)
(* Reconcile: the Get and the choice of the reconcile function.  A Get     *)
(* that fails puts the key back, which is a stuttering step.               *)
(***************************************************************************)
Fetch ==
  /\ pc = "idle"
  /\ queued
  /\ queued' = FALSE
  /\ UNCHANGED <<versions, deployed>>

\* Mutant: reconcileReady asks to be called again.
MutFetchSettled ==
  /\ pc = "idle"
  /\ queued
  /\ cp' = IF cached.live THEN cached ELSE cp
  /\ cached.live => Ready(cached)
  /\ UNCHANGED <<versions, pc, mode, results, queued, deployed>>

\* The object is gone, or it is ready and reconcileReady does nothing.
FetchSettled ==
  /\ Fetch
  /\ cp' = IF cached.live THEN cached ELSE cp
  /\ cached.live => Ready(cached)
  /\ UNCHANGED <<pc, mode, results>>

\* Start the routines of reconcileDeploying or reconcileUpdating.
StartRoutines(m) ==
  /\ mode' = m
  /\ pc' = "reconcile"
  /\ results' = [c \in Components |-> "running"]

FetchPending ==
  /\ Fetch
  /\ cached.live
  /\ cp' = cached
  /\ \E m \in {"deploying", "updating"} : IsIn(cached, m) /\ StartRoutines(m)

\* Mutant: an unknown state is handed on instead of migrated.
MutFetchInvalid ==
  /\ Fetch
  /\ cached.live
  /\ \A s \in {"ready", "deploying", "updating"} : ~IsIn(cached, s)
  /\ cp' = cached
  /\ StartRoutines(GetCondition(cached.conds, cached.gen))

\* A state that is none of the three: go back to deploying.
FetchInvalid ==
  /\ Fetch
  /\ cached.live
  /\ \A s \in {"ready", "deploying", "updating"} : ~IsIn(cached, s)
  /\ cp' = [cached EXCEPT !.conds = SetCondition(@, "deploying", cached.gen)]
  /\ pc' = "migrate"
  /\ UNCHANGED <<mode, results>>

-----------------------------------------------------------------------------
(***************************************************************************)
(* The routines.  They read r.cp and write the cluster concurrently.       *)
(***************************************************************************)

\* A first write of a component that does not run what r.cp asks for.
RollOut(c) ==
  /\ pc = "reconcile"
  /\ results[c] = "running"
  /\ deployed[c] \notin {cp.value, Mixed}
  /\ deployed' = [deployed EXCEPT ![c] = Mixed]
  /\ UNCHANGED <<versions, cp, pc, mode, results, queued>>

Finish(c, outcome) ==
  /\ pc = "reconcile"
  /\ results[c] = "running"
  /\ results' = [results EXCEPT ![c] = outcome]
  /\ UNCHANGED <<versions, cp, pc, mode, queued>>

RoutineContinues(c) ==
  /\ Finish(c, "continue")
  /\ deployed' = [deployed EXCEPT ![c] = cp.value]

\* A routine that requeues or fails may have done all of its writes or not.
RoutineStops(c) ==
  /\ \E outcome \in {"requeue", "error"} : Finish(c, outcome)
  /\ \/ UNCHANGED deployed
     \/ deployed' = [deployed EXCEPT ![c] = cp.value]
-----------------------------------------------------------------------------
(***************************************************************************)
(* The end of reconcileDeploying and reconcileUpdating.                    *)
(***************************************************************************)
AllSent == \A c \in Components : results[c] \in Outcomes

EndPass(requeue) ==
  /\ pc' = "idle"
  /\ results' = [c \in Components |-> "none"]
  /\ queued' = (queued \/ requeue)
  /\ UNCHANGED mode

\* Mutant: the pass ends without its requeue.
MutPassIsFinal ==
  /\ pc = "reconcile"
  /\ AllSent
  /\ \E c \in Components : results[c] # "continue"
  /\ EndPass(FALSE)
  /\ UNCHANGED <<versions, cp, deployed>>

\* finRecon.IsFinal(): some routine failed or asked to be called again.
PassIsFinal ==
  /\ pc = "reconcile"
  /\ AllSent
  /\ \E c \in Components : results[c] # "continue"
  /\ EndPass(TRUE)
  /\ UNCHANGED <<versions, cp, deployed>>

\* Mutant: only errors are final, a requeue does not hold back "ready".
MutPassSucceeds ==
  /\ pc = "reconcile"
  /\ \A c \in Components : results[c] \in {"continue", "requeue"}
  /\ cp' = [cp EXCEPT !.conds = SetCondition(@, "ready", cp.gen)]
  /\ pc' = "status"
  /\ UNCHANGED <<versions, mode, results, queued, deployed>>

PassSucceeds ==
  /\ pc = "reconcile"
  /\ \A c \in Components : results[c] = "continue"
  /\ IF IsIn(cp, mode)
       THEN /\ cp' = [cp EXCEPT !.conds = SetCondition(@, "ready", cp.gen)]
            /\ pc' = "status"
            /\ UNCHANGED <<mode, results, queued>>
       ELSE EndPass(FALSE) /\ UNCHANGED cp
  /\ UNCHANGED <<versions, deployed>>
-----------------------------------------------------------------------------
(***************************************************************************)
(* The three writes of the object itself.                                  *)
(***************************************************************************)
Written == IF pc = "update" THEN WithSpec(cp) ELSE WithStatus(cp)

WriteAccepted == InTime /\ (pc # "update" => Acceptable(cp.conds))

\* Status().Update before reconcileDeploying, for an invalid state.
MigrateStatus ==
  /\ pc = "migrate"
  /\ WriteAccepted
  /\ Store(Written)
  /\ cp' = stored'
  /\ StartRoutines("deploying")
  /\ UNCHANGED <<queued, deployed>>

\* Mutant: after a conflict the write is retried on the object as it is now.
MutWriteReady ==
  /\ pc = "status"
  /\ stored.live
  /\ Store([stored EXCEPT !.conds = SetCondition(@, "ready", stored.gen)])
  /\ cp' = stored'
  /\ pc' = "update"
  /\ UNCHANGED <<mode, results, queued, deployed>>

\* Status().Update once ready.
WriteReady ==
  /\ pc = "status"
  /\ WriteAccepted
  /\ Store(Written)
  /\ cp' = stored'
  /\ pc' = "update"
  /\ UNCHANGED <<mode, results, queued, deployed>>

\* Update of the whole object, the last step of a successful pass.
WriteObject ==
  /\ pc = "update"
  /\ WriteAccepted
  /\ Store(Written)
  /\ cp' = stored'
  /\ EndPass(FALSE)
  /\ UNCHANGED deployed

Writing == pc \in {"migrate", "status", "update"}

\* A conflict, a deleted object or one the schema rejects: the error requeues.
WriteRefused ==
  /\ Writing
  /\ ~WriteAccepted
  /\ EndPass(TRUE)
  /\ UNCHANGED <<versions, cp, deployed>>

\* The call fails on its way there, or on its way back with the write done.
WriteFails ==
  /\ Writing
  /\ WriteAccepted
  /\ UNCHANGED versions \/ Store(Written)
  /\ EndPass(TRUE)
  /\ UNCHANGED <<cp, deployed>>
-----------------------------------------------------------------------------
(***************************************************************************)
(* The operator's process stops at any point.  The next one lists the      *)
(* object, which enqueues it, and has no memory of the last.               *)
(***************************************************************************)
Crash ==
  /\ pc # "down"
  /\ pc' = "down"
  /\ queued' = FALSE
  /\ results' = [c \in Components |-> "none"]
  /\ UNCHANGED <<versions, cp, mode, deployed>>

Restart ==
  /\ pc = "down"
  /\ pc' = "idle"
  /\ versions' = <<stored>>
  /\ queued' = TRUE
  /\ UNCHANGED <<cp, mode, results, deployed>>

Fault ==
  \/ \E c \in Components : RoutineStops(c)
  \/ WriteFails
  \/ Crash

Step ==
  \/ FetchSettled \/ FetchPending \/ FetchInvalid
  \/ \E c \in Components : RollOut(c) \/ RoutineContinues(c)
  \/ PassIsFinal \/ PassSucceeds
  \/ MigrateStatus \/ WriteReady \/ WriteObject \/ WriteRefused
  \/ Restart

Next == Edit \/ Delete \/ Deliver \/ Step \/ Fault

Spec == Init /\ [][Next]_vars

(***************************************************************************)
(* The informer keeps delivering and the one worker keeps going; nothing   *)
(* obliges the owner to edit or the environment to fail.                   *)
(***************************************************************************)
Fairness ==
  /\ WF_vars(Deliver)
  /\ WF_vars(FetchSettled \/ FetchPending \/ FetchInvalid)
  /\ \A c \in Components : WF_vars(RoutineContinues(c))
  /\ WF_vars(PassIsFinal \/ PassSucceeds)
  /\ WF_vars(MigrateStatus \/ WriteReady \/ WriteObject \/ WriteRefused)
  /\ WF_vars(Restart)

FairSpec == Spec /\ Fairness
-----------------------------------------------------------------------------
(***************************************************************************)
(* Properties.                                                             *)
(***************************************************************************)
Working == pc \in {"migrate", "reconcile", "status", "update"}

\* Later versions have later resource versions and no earlier generation, and
\* a generation stands for one value.
VersionsOrdered ==
  \A i, j \in 1..Len(versions) :
    /\ i < j => versions[i].rv < versions[j].rv
    /\ i <= j => versions[i].gen <= versions[j].gen
    /\ versions[i].gen = versions[j].gen => versions[i].value = versions[j].value

\* No condition was observed at a generation yet to come.
NoForesight(o) == \A k \in DOMAIN o.conds : o.conds[k].gen <= o.gen

\* How the working copy of a pass relates to the informer's version and to
\* the stored one.
CopyOrdered ==
  Working =>
    /\ cp.gen <= cached.gen
    /\ cp.rv <= stored.rv
    /\ cp.gen = stored.gen => cp.value = stored.value
    /\ cp.rv = stored.rv => cp.gen = stored.gen
    /\ cp.rv = stored.rv /\ pc = "update" => Ready(stored)

\* What a pass has established so far.
PassProgress ==
  /\ pc = "migrate" => IsIn(cp, "deploying")
  /\ pc = "reconcile" =>
       /\ IsIn(cp, mode)
       /\ \A c \in Components :
            results[c] = "continue" => deployed[c] = cp.value
  /\ pc = "status" =>
       /\ IsIn(cp, "ready")
       /\ \A c \in Components : deployed[c] = cp.value

\* While the object is ready, the informer and the running pass have its
\* generation, so nothing they do can move a component.
ReadyIsKnown ==
  Ready(stored) => /\ cached.gen = stored.gen
                   /\ Working => cp.gen = stored.gen

\* A ControlPlane whose condition reads "ready" for its current generation
\* runs, in every component, exactly what its spec asks for: no stale read,
\* concurrent edit, failed routine, lost answer or crash makes the operator
\* mark (states.go:109-112, 182-185) or leave marked what is not deployed.
ReadyIsDeployed ==
  Ready(stored) => \A c \in Components : deployed[c] = stored.value

\* A ControlPlane that is not ready has not been forgotten: the operator is
\* down, or working on it, or has its key queued, or is yet to be told of a
\* version.  reconcileReady and the passes that end without a requeue
\* (controller.go:46-70, states.go:124, 127) must not strand it.
NotForgotten ==
  (stored.live /\ ~Ready(stored)) =>
    (pc # "idle" \/ queued \/ Len(versions) > 1)

\* The inductive invariant behind the two properties above: versions are
\* ordered, working copies are never ahead of what the informer delivered, and
\* a ready object's generation is the one everybody holds.
IInv ==
  /\ TypeOK
  /\ VersionsOrdered
  /\ \A i \in 1..Len(versions) : NoForesight(versions[i])
  /\ NoForesight(cp)
  /\ CopyOrdered
  /\ PassProgress
  /\ ReadyIsKnown
  /\ ReadyIsDeployed
  /\ NotForgotten

\* What the owner asked for is changed by nobody but the owner: the operator's
\* whole-object Update (states.go:118, 191) never brings back the spec of an
\* older version.
OwnerDecides ==
  [][stored'.value # stored.value => Edit]_vars

\* Once edits and faults stop, the object is ready for good, or deleted
\* (controller.go:46-70 with states.go: every error and requeue is retried,
\* and the normalising Update of states.go:118 does not go on for ever).
Converges ==
  <>[][~Fault]_vars => <>[](stored.live => Ready(stored))

\* Once edits and faults stop, so does the operator: no pass triggers the next
\* one for ever through the versions it writes itself.
ComesToRest ==
  <>[][~Fault]_vars => <>[](pc = "idle" /\ ~queued /\ Len(versions) = 1)

\* The operator keeps the promise of ReadyContract.
Contract == INSTANCE ReadyContract WITH
              wanted <- IF stored.live THEN stored.value ELSE Nothing,
              ready <- Ready(stored)
KeepsContract == Contract!Spec
=============================================================================
