---------------------------- MODULE Application ----------------------------
(***************************************************************************)
(* The reconciler of Applications: it keeps a Deployment for an            *)
(* Application and scales it (controllers/apps/controller.go).             *)
(*                                                                         *)
(* Everything is read from the informers' copies.  Only what happens to    *)
(* the Application calls the reconciler (SetupWithManager): nothing that   *)
(* happens to the Deployment does.                                         *)
(***************************************************************************)
EXTENDS Naturals, Sequences

CONSTANTS Counts,     \* the numbers of replicas that are asked for
          MaxEvents   \* bound: edits, what others do, failed calls and crashes

ASSUME CountsAssumption == Counts \subseteq Nat
ASSUME BoundAssumption == MaxEvents \in Nat

VARIABLES
  apps,     \* the Application, from the informer's copy to the stored one
  deps,     \* the Deployment, from the informer's copy to the stored one
  queued,   \* the key is in the work queue
  pc,       \* where Reconcile is
  app,      \* instance
  found,    \* found
  astray,   \* history: the last pass was shown another Deployment than there
            \* was, or others have changed it since
  events    \* how many edits, acts of others, failed calls and crashes there
            \* have been

vars == <<apps, deps, queued, pc, app, found, astray, events>>

\* An Application whose owner left out what the Go structs always write out
\* is "brief".  Its status is never stored, see Rewritten; its microservices
\* and configuration are left out: they are only looked at when a Deployment
\* is created, and nobody compares them afterwards.
App == [there : BOOLEAN, rv : Nat, replicas : Counts, brief : BOOLEAN]

Dep == [there : BOOLEAN, rv : Nat, replicas : Counts]

storedApp == apps[Len(apps)]
storedDep == deps[Len(deps)]

TypeOK ==
  /\ apps \in Seq(App) /\ apps # << >>
  /\ deps \in Seq(Dep) /\ deps # << >>
  /\ queued \in BOOLEAN /\ astray \in BOOLEAN
  /\ pc \in {"idle", "find", "create", "scale", "names"}
  /\ app \in App /\ found \in Dep
  /\ events \in 0..MaxEvents

\* The owner has created the Application and the informer has shown it.
Init ==
  /\ \E n \in Counts, b \in BOOLEAN :
       /\ app = [there |-> TRUE, rv |-> 0, replicas |-> n, brief |-> b]
       /\ found = [there |-> FALSE, rv |-> 0, replicas |-> n]
  /\ apps = <<app>>
  /\ deps = <<found>>
  /\ queued = TRUE
  /\ pc = "idle"
  /\ astray = FALSE
  /\ events = 0

Event == events < MaxEvents /\ events' = events + 1
-----------------------------------------------------------------------------
(***************************************************************************)
(* The API server.                                                         *)
(***************************************************************************)

\* A write that changes nothing makes no version.
PutApp(a) ==
  apps' = IF a = storedApp THEN apps
          ELSE Append(apps, [a EXCEPT !.rv = storedApp.rv + 1])

PutDep(d) ==
  deps' = IF d = storedDep THEN deps
          ELSE Append(deps, [d EXCEPT !.rv = storedDep.rv + 1])

\* Mutant: an Update is accepted whatever version it was made from.
MutInTime(read, now) == read.there /\ now.there

\* An Update of an object made from an older version is a conflict.
InTime(read, now) == now.there /\ read.rv = now.rv
-----------------------------------------------------------------------------
(***************************************************************************)
(* Reconcile.                                                              *)
(***************************************************************************)

\* The Get of the Application, which may be gone.
Take ==
  /\ pc = "idle" /\ queued
  /\ app' = Head(apps)
  /\ pc' = IF app'.there THEN "find" ELSE "idle"
  /\ queued' = FALSE
  /\ UNCHANGED <<apps, deps, found, astray, events>>

SameDep(d, e) == d.there = e.there /\ d.replicas = e.replicas

\* The Get of the Deployment.
Find ==
  /\ pc = "find"
  /\ found' = Head(deps)
  /\ astray' = ~SameDep(found', storedDep)
  /\ pc' = IF ~found'.there THEN "create"
           ELSE IF found'.replicas # app.replicas THEN "scale" ELSE "names"
  /\ UNCHANGED <<apps, deps, queued, app, events>>

\* deploymentForApp, and the Create that finds no Deployment.
Deployed == [storedDep EXCEPT !.there = TRUE, !.replicas = app.replicas]

StoreNew == pc = "create" /\ ~storedDep.there /\ PutDep(Deployed)

\* Mutant: the number of replicas is counted from one.
MutScaled == [found EXCEPT !.replicas = app.replicas + 1]

\* Only the number of replicas is compared, and changed.
Scaled == [found EXCEPT !.replicas = app.replicas]

StoreScaled == pc = "scale" /\ InTime(found, storedDep) /\ PutDep(Scaled)

\* The names of the pods are sent with an Update, and the CRD has a status
\* subresource: what is stored is the spec, written out, and no status.
Rewritten == [app EXCEPT !.brief = FALSE]

StoreNames == pc = "names" /\ InTime(app, storedApp) /\ PutApp(Rewritten)

\* Another pass is due after a Create or an Update.
Create ==
  /\ StoreNew
  /\ pc' = "idle" /\ queued' = TRUE
  /\ UNCHANGED <<apps, app, found, astray, events>>

Scale ==
  /\ StoreScaled
  /\ pc' = "idle" /\ queued' = TRUE
  /\ UNCHANGED <<apps, app, found, astray, events>>

\* Mutant: another pass is due after every pass.
MutNames ==
  /\ StoreNames
  /\ pc' = "idle" /\ queued' = TRUE
  /\ UNCHANGED <<deps, app, found, astray, events>>

Names ==
  /\ StoreNames
  /\ pc' = "idle"
  /\ UNCHANGED <<deps, queued, app, found, astray, events>>

\* Mutant: an error does not bring the key back.
MutReturnError == pc' = "idle" /\ UNCHANGED <<queued, app, found, astray>>

\* An error brings the key back.
ReturnError == pc' = "idle" /\ queued' = TRUE /\ UNCHANGED <<app, found, astray>>

\* AlreadyExists, NotFound or a conflict.
Refused ==
  /\ \/ pc = "create" /\ storedDep.there
     \/ pc = "scale" /\ ~InTime(found, storedDep)
     \/ pc = "names" /\ ~InTime(app, storedApp)
  /\ ReturnError
  /\ UNCHANGED <<apps, deps, events>>

Reconcile == Take \/ Find \/ Create \/ Scale \/ Names \/ Refused

\* A call fails, on its way there or on its way back.
CallFails ==
  /\ pc # "idle"
  /\ ReturnError
  /\ Event
  /\ \/ UNCHANGED <<apps, deps>>
     \/ (StoreNew \/ StoreScaled) /\ UNCHANGED apps
     \/ StoreNames /\ UNCHANGED deps

\* The operator's process stops; another one lists everything and puts what
\* there is in the work queue.
Crash ==
  /\ apps' = <<storedApp>> /\ deps' = <<storedDep>>
  /\ pc' = "idle"
  /\ queued' = storedApp.there
  /\ Event
  /\ UNCHANGED <<app, found, astray>>
-----------------------------------------------------------------------------
(***************************************************************************)
(* The informers, the owner and the others.                                *)
(***************************************************************************)
DeliverApp ==
  /\ Len(apps) > 1
  /\ apps' = Tail(apps)
  /\ queued' = TRUE
  /\ UNCHANGED <<deps, pc, app, found, astray, events>>

DeliverDep ==
  /\ Len(deps) > 1
  /\ deps' = Tail(deps)
  /\ UNCHANGED <<apps, queued, pc, app, found, astray, events>>

Edit ==
  /\ storedApp.there /\ Event
  /\ \E n \in Counts, b \in BOOLEAN :
       PutApp([storedApp EXCEPT !.replicas = n, !.brief = b])
  /\ UNCHANGED <<deps, queued, pc, app, found, astray>>

Delete ==
  /\ storedApp.there /\ Event
  /\ PutApp([storedApp EXCEPT !.there = FALSE])
  /\ UNCHANGED <<deps, queued, pc, app, found, astray>>

\* Others scale the Deployment or delete it.
Interfere ==
  /\ storedDep.there /\ Event
  /\ \/ \E n \in Counts : PutDep([storedDep EXCEPT !.replicas = n])
     \/ PutDep([storedDep EXCEPT !.there = FALSE])
  /\ astray' = TRUE
  /\ UNCHANGED <<apps, queued, pc, app, found>>

\* The status of the Deployment changes.
Touch ==
  /\ storedDep.there /\ Event
  /\ deps' = Append(deps, [storedDep EXCEPT !.rv = @ + 1])
  /\ UNCHANGED <<apps, queued, pc, app, found, astray>>

\* The Deployment of an Application that is gone is collected; as a bound, not
\* before the informer has shown that it is gone.
Collect ==
  /\ storedDep.there /\ ~Head(apps).there
  /\ PutDep([storedDep EXCEPT !.there = FALSE])
  /\ UNCHANGED <<apps, queued, pc, app, found, astray, events>>

Next ==
  \/ Reconcile \/ CallFails \/ Crash
  \/ DeliverApp \/ DeliverDep
  \/ Edit \/ Delete \/ Interfere \/ Touch \/ Collect

Spec == Init /\ [][Next]_vars

\* The worker works while the key is queued, the informers follow, and the
\* cluster collects.
Fairness ==
  /\ WF_vars(Reconcile)
  /\ WF_vars(DeliverApp) /\ WF_vars(DeliverDep) /\ WF_vars(Collect)

FairSpec == Spec /\ Fairness
-----------------------------------------------------------------------------
(***************************************************************************)
(* Properties.                                                             *)
(***************************************************************************)
AtRest == pc = "idle" /\ ~queued /\ Len(apps) = 1

\* The Deployment is what the Application asks for, as far as that is compared.
Follows == storedApp.there =>
             storedDep.there /\ storedDep.replicas = storedApp.replicas

\* A number of replicas that the owner asks for is not forgotten, whatever
\* calls fail and however old the copies are: as long as the Deployment has
\* another one, a pass is going on or due.  With one exception: as a pass ends
\* without another one being due when the Deployment it read was right, one
\* that read an old Deployment (perhaps as it was before the operator's own
\* Update) leaves it as it is, and so does a change others make.
NotForgotten == AtRest => Follows \/ astray

\* Names writes the whole object from a copy that is as old as the pass: what
\* the owner wrote meanwhile is never reverted, nor does a deleted Application
\* come back.
OwnerDecides ==
  [][Reconcile \/ CallFails =>
       /\ storedApp'.there = storedApp.there
       /\ storedApp'.replicas = storedApp.replicas]_vars

\* Once edits and faults are over, the reconciler comes to rest, although every
\* pass writes the Application it is called for, and the Deployment follows or
\* is gone with it.
Converges ==
  <>[](AtRest /\ (Follows \/ astray) /\ (storedDep.there => storedApp.there))
=============================================================================
