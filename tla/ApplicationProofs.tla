------------------------- MODULE ApplicationProofs -------------------------
(***************************************************************************)
(* The inductive invariant of Application and what follows from it, for    *)
(* any numbers of replicas and any number of edits and faults.             *)
(***************************************************************************)
EXTENDS Application, VersionLemmas

\* A copy of the Application is not ahead of the stored one, it is the stored
\* one when it has its version, and a deletion is for good.
Known(a) ==
  /\ a.rv <= storedApp.rv
  /\ a.rv = storedApp.rv => a = storedApp
  /\ ~a.there => ~storedApp.there

AppsKnown == Known(app) /\ \A i \in 1..Len(apps) : Known(apps[i])

\* A pass that comes to the pods' names has found the Deployment as it is, or
\* has gone astray.
FoundRight ==
  (pc = "names" /\ ~astray /\ storedApp.there) =>
    storedDep.there /\ storedDep.replicas = app.replicas

IInv == TypeOK /\ AppsKnown /\ FoundRight /\ NotForgotten
-----------------------------------------------------------------------------
\* The ends of the two queues are objects.
LEMMA Ends ==
  ASSUME TypeOK
  PROVE  /\ Head(apps) = apps[1] /\ storedApp = apps[Len(apps)]
         /\ Head(apps) \in App /\ storedApp \in App
         /\ Len(apps) \in Nat /\ Len(apps) >= 1
         /\ 1 \in 1..Len(apps) /\ Len(apps) \in 1..Len(apps)
         /\ \A i \in 1..Len(apps) : apps[i] \in App
         /\ Head(deps) = deps[1] /\ storedDep = deps[Len(deps)]
         /\ Head(deps) \in Dep /\ storedDep \in Dep
         /\ Len(deps) \in Nat
BY QueueEnds DEF TypeOK, storedApp, storedDep

\* A write of the Application: it comes last, under the next number.
LEMMA PutAppEffect ==
  ASSUME TypeOK, AppsKnown, NEW a \in App, PutApp(a), app' = app,
         a.rv = storedApp.rv, ~storedApp.there => ~a.there
  PROVE  /\ apps' \in Seq(App) /\ apps' # << >>
         /\ AppsKnown'
         /\ storedApp'.there = a.there /\ storedApp'.replicas = a.replicas
         /\ (a # storedApp) => Len(apps') > 1
         /\ (a = storedApp) => apps' = apps /\ storedApp' = storedApp
<1>1. apps \in Seq(App) /\ apps # << >>
  BY DEF TypeOK
<1>2. CASE a = storedApp
  <2>1. apps' = apps
    BY <1>2 DEF PutApp
  <2>2. storedApp' = storedApp
    BY <2>1 DEF storedApp
  <2>3. AppsKnown'
    BY <2>1, <2>2 DEF AppsKnown, Known
  <2> QED BY <1>1, <1>2, <2>1, <2>2, <2>3
<1>3. CASE a # storedApp
  <2> DEFINE new == [a EXCEPT !.rv = storedApp.rv + 1]
  <2>1. /\ new \in App /\ new.rv = storedApp.rv + 1
        /\ new.there = a.there /\ new.replicas = a.replicas
    BY Ends DEF App
  <2>2. apps' = Append(apps, new)
    BY <1>3 DEF PutApp
  <2> HIDE DEF new
  <2>3. /\ apps' \in Seq(App) /\ apps' # << >>
        /\ Len(apps') = Len(apps) + 1
        /\ apps'[Len(apps')] = new
        /\ \A i \in 1..Len(apps) : apps'[i] = apps[i]
        /\ \A i \in 1..Len(apps') : i \in 1..Len(apps) \/ i = Len(apps')
    BY <1>1, <2>1, <2>2, QueueAppend
  <2>4. storedApp' = new
    BY <2>3 DEF storedApp
  <2>5. Len(apps') > 1
    BY <2>3, Ends
  <2>6. ASSUME NEW b \in App, Known(b)
        PROVE  Known(b)'
    <3>1. b.rv \in Nat /\ storedApp.rv \in Nat
      BY Ends DEF App
    <3>2. b.rv < new.rv
      BY <2>1, <2>6, <3>1 DEF Known
    <3>3. ~b.there => ~new.there
      BY <2>1, <2>6 DEF Known
    <3>4. new.rv \in Nat
      BY <2>1, <3>1
    <3> QED BY <2>4, <3>1, <3>2, <3>3, <3>4 DEF Known
  <2>7. Known(app)'
    BY <2>6 DEF AppsKnown, TypeOK, Known
  <2>8. ASSUME NEW i \in 1..Len(apps')
        PROVE  Known(apps[i])'
    <3>1. CASE i \in 1..Len(apps)
      <4>1. apps[i] \in App /\ Known(apps[i])
        BY <3>1, Ends DEF AppsKnown
      <4>2. apps'[i] = apps[i]
        BY <2>3, <3>1
      <4> QED BY <2>6, <4>1, <4>2 DEF Known
    <3>2. CASE i = Len(apps')
      <4>1. apps'[i] = storedApp'
        BY <2>3, <2>4, <3>2
      <4>2. storedApp'.rv \in Nat
        BY <2>1, <2>4 DEF App
      <4> QED BY <4>1, <4>2 DEF Known
    <3> QED BY <2>3, <3>1, <3>2
  <2>9. AppsKnown'
    BY <2>7, <2>8 DEF AppsKnown
  <2> QED BY <1>3, <2>1, <2>3, <2>4, <2>5, <2>9
<1> QED BY <1>2, <1>3

\* The copy of the Application follows, or a new process lists it.
LEMMA AppFollows ==
  ASSUME TypeOK, AppsKnown, app' = app,
         \/ Len(apps) > 1 /\ apps' = Tail(apps)
         \/ apps' = <<storedApp>>
         \/ apps' = apps
  PROVE  /\ apps' \in Seq(App) /\ apps' # << >>
         /\ storedApp' = storedApp
         /\ AppsKnown'
<1>1. /\ apps' \in Seq(App) /\ apps' # << >>
      /\ apps'[Len(apps')] = storedApp
      /\ \A i \in 1..Len(apps') : Known(apps'[i])
  <2>1. CASE Len(apps) > 1 /\ apps' = Tail(apps)
    <3>1. /\ apps' \in Seq(App) /\ apps' # << >>
          /\ apps'[Len(apps')] = apps[Len(apps)]
          /\ \A i \in 1..Len(apps') : /\ apps'[i] = apps[i + 1]
                                      /\ i + 1 \in 1..Len(apps)
      <4>1. apps \in Seq(App)
        BY DEF TypeOK
      <4> QED BY <2>1, <4>1, QueueTail
    <3> QED BY <3>1, Ends DEF AppsKnown
  <2>2. CASE apps' = <<storedApp>>
    <3>1. /\ apps' \in Seq(App) /\ apps' # << >>
          /\ apps'[Len(apps')] = storedApp
          /\ \A i \in 1..Len(apps') : apps'[i] = storedApp
      BY <2>2, QueueRestart, Ends
    <3>2. Known(storedApp)
      BY Ends DEF AppsKnown
    <3> QED BY <3>1, <3>2
  <2>3. CASE apps' = apps
    BY <2>3, Ends DEF TypeOK, AppsKnown
  <2> QED BY <2>1, <2>2, <2>3
<1>2. storedApp' = storedApp
  BY <1>1 DEF storedApp
<1>3. AppsKnown'
  BY <1>1, <1>2 DEF AppsKnown, Known
<1> QED BY <1>1, <1>2, <1>3

\* A write of the Deployment.
LEMMA PutDepEffect ==
  ASSUME TypeOK, NEW d \in Dep, PutDep(d)
  PROVE  /\ deps' \in Seq(Dep) /\ deps' # << >>
         /\ storedDep'.there = d.there /\ storedDep'.replicas = d.replicas
<1>1. deps \in Seq(Dep) /\ deps # << >>
  BY DEF TypeOK
<1>2. CASE d = storedDep
  BY <1>1, <1>2 DEF PutDep, storedDep
<1>3. CASE d # storedDep
  <2> DEFINE new == [d EXCEPT !.rv = storedDep.rv + 1]
  <2>1. new \in Dep /\ new.there = d.there /\ new.replicas = d.replicas
    BY Ends DEF Dep
  <2>2. deps' = Append(deps, new)
    BY <1>3 DEF PutDep
  <2> HIDE DEF new
  <2>3. deps' \in Seq(Dep) /\ deps' # << >> /\ deps'[Len(deps')] = new
    BY <1>1, <2>1, <2>2, QueueAppend
  <2> QED BY <2>1, <2>3 DEF storedDep
<1> QED BY <1>2, <1>3

\* The copy of the Deployment follows, or a new process lists it.
LEMMA DepFollows ==
  ASSUME TypeOK,
         \/ Len(deps) > 1 /\ deps' = Tail(deps)
         \/ deps' = <<storedDep>>
         \/ deps' = deps
  PROVE  deps' \in Seq(Dep) /\ deps' # << >> /\ storedDep' = storedDep
<1>1. CASE Len(deps) > 1 /\ deps' = Tail(deps)
  BY <1>1, QueueTail DEF TypeOK, storedDep
<1>2. CASE deps' = <<storedDep>>
  <2>1. storedDep \in Dep
    BY Ends
  <2>2. /\ deps' \in Seq(Dep) /\ deps' # << >>
        /\ Len(deps') = 1 /\ deps'[Len(deps')] = storedDep
    BY <1>2, <2>1, QueueRestart
  <2> QED BY <2>2 DEF storedDep
<1>3. CASE deps' = deps
  BY <1>3 DEF TypeOK, storedDep
<1> QED BY <1>1, <1>2, <1>3

\* What events there are stays within the bound.
LEMMA EventsBounded ==
  ASSUME TypeOK, Event \/ events' = events
  PROVE  events' \in 0..MaxEvents
BY BoundAssumption DEF TypeOK, Event
-----------------------------------------------------------------------------
\* The invariant holds at first.
LEMMA InitIInv == Init => IInv
<1> SUFFICES ASSUME Init
             PROVE  IInv
  OBVIOUS
<1>1. PICK n \in Counts, b \in BOOLEAN :
        /\ app = [there |-> TRUE, rv |-> 0, replicas |-> n, brief |-> b]
        /\ found = [there |-> FALSE, rv |-> 0, replicas |-> n]
  BY DEF Init
<1>2. app \in App /\ found \in Dep
  BY <1>1 DEF App, Dep
<1>3. /\ apps \in Seq(App) /\ apps # << >> /\ Len(apps) = 1
      /\ \A i \in 1..Len(apps) : apps[i] = app
  <2>1. apps = <<app>>
    BY DEF Init
  <2> QED BY <1>2, <2>1, QueueRestart
<1>4. deps \in Seq(Dep) /\ deps # << >>
  <2>1. deps = <<found>>
    BY DEF Init
  <2> QED BY <1>2, <2>1, QueueRestart
<1>5. TypeOK
  <2>1. events \in 0..MaxEvents
    BY BoundAssumption DEF Init
  <2>2. /\ queued \in BOOLEAN /\ astray \in BOOLEAN
        /\ pc \in {"idle", "find", "create", "scale", "names"}
    BY DEF Init
  <2> QED BY <1>2, <1>3, <1>4, <2>1, <2>2 DEF TypeOK
<1>6. storedApp = app
  BY <1>3, Ends, <1>5
<1>7. AppsKnown
  <2>1. app.rv = 0
    BY <1>1
  <2>2. Known(app)
    BY <1>6, <2>1 DEF Known
  <2> QED BY <1>3, <2>2 DEF AppsKnown
<1>8. FoundRight /\ NotForgotten
  BY DEF Init, FoundRight, NotForgotten, AtRest
<1> QED BY <1>5, <1>7, <1>8 DEF IInv
-----------------------------------------------------------------------------
\* What a step keeps that writes neither object: what a pass has found stays
\* right.
LEMMA Reading ==
  ASSUME IInv, Take \/ Find \/ Refused
  PROVE  IInv'
<1> USE DEF IInv
<1>1. /\ apps' = apps /\ deps' = deps /\ events' = events
      /\ storedApp' = storedApp /\ storedDep' = storedDep
  BY DEF Take, Find, Refused, storedApp, storedDep
<1>2. app' \in App /\ found' \in Dep
  BY Ends DEF Take, Find, Refused, ReturnError, TypeOK
<1>3. TypeOK'
  BY <1>1, <1>2 DEF TypeOK, Take, Find, Refused, ReturnError
<1>4. AppsKnown'
  <2>1. app' = app \/ app' = apps[1]
    BY Ends DEF Take, Find, Refused, ReturnError
  <2>2. Known(app) /\ Known(apps[1])
    BY Ends DEF AppsKnown
  <2> QED BY <1>1, <2>1, <2>2 DEF AppsKnown, Known
<1>5. CASE Take
  <2>1. pc' # "names" /\ ~(app'.there /\ AtRest')
    BY <1>5 DEF Take, AtRest
  <2>2. ~app'.there => ~storedApp'.there
    BY <1>4 DEF AppsKnown, Known
  <2> QED BY <1>3, <1>4, <2>1, <2>2 DEF FoundRight, NotForgotten, Follows
<1>6. CASE Find
  <2>1. ~AtRest'
    BY <1>6 DEF Find, AtRest
  <2>2. FoundRight'
    BY <1>1, <1>6 DEF FoundRight, Find, SameDep
  <2> QED BY <1>3, <1>4, <2>1, <2>2 DEF NotForgotten
<1>7. CASE Refused
  BY <1>3, <1>4, <1>7 DEF Refused, ReturnError, FoundRight, NotForgotten, AtRest
<1> QED BY <1>5, <1>6, <1>7

\* The writes of the Deployment, answered or not.
LEMMA WritingDep ==
  ASSUME IInv, Create \/ Scale \/ (CallFails /\ ~StoreNames)
  PROVE  IInv'
<1> USE DEF IInv
<1>1. /\ pc' = "idle" /\ queued' = TRUE
      /\ apps' = apps /\ app' = app /\ found' = found /\ astray' = astray
      /\ storedApp' = storedApp
      /\ events' = events \/ Event
  BY DEF Create, Scale, CallFails, ReturnError, storedApp
<1>2. Deployed \in Dep /\ Scaled \in Dep
  BY Ends DEF TypeOK, App, Dep, Deployed, Scaled
<1>3. \/ deps' = deps
      \/ PutDep(Deployed) \/ PutDep(Scaled)
  BY DEF Create, Scale, CallFails, StoreNew, StoreScaled
<1>4. deps' \in Seq(Dep) /\ deps' # << >>
  BY <1>2, <1>3, PutDepEffect DEF TypeOK
<1>5. events' \in 0..MaxEvents
  BY <1>1, EventsBounded
<1>6. TypeOK'
  BY <1>1, <1>4, <1>5 DEF TypeOK
<1>7. AppsKnown'
  BY <1>1 DEF AppsKnown, Known
<1>8. FoundRight' /\ NotForgotten'
  BY <1>1 DEF FoundRight, NotForgotten, AtRest
<1> QED BY <1>6, <1>7, <1>8

\* The write of the names, answered or not: it is accepted only when the copy
\* is the stored Application, and then changes nothing the owner wrote.
LEMMA StoringNames ==
  ASSUME TypeOK, AppsKnown, StoreNames, app' = app
  PROVE  /\ app = storedApp
         /\ apps' \in Seq(App) /\ apps' # << >> /\ AppsKnown'
         /\ storedApp'.there = storedApp.there
         /\ storedApp'.replicas = storedApp.replicas
<1>1. app = storedApp
  BY DEF StoreNames, InTime, AppsKnown, Known
<1>2. /\ Rewritten \in App /\ Rewritten.rv = app.rv
      /\ Rewritten.there = app.there /\ Rewritten.replicas = app.replicas
  BY DEF Rewritten, App, TypeOK
<1>3. PutApp(Rewritten)
  BY DEF StoreNames
<1>4. /\ apps' \in Seq(App) /\ apps' # << >> /\ AppsKnown'
      /\ storedApp'.there = Rewritten.there
      /\ storedApp'.replicas = Rewritten.replicas
  BY <1>1, <1>2, <1>3, PutAppEffect
<1> QED BY <1>1, <1>2, <1>4

\* The write of the names keeps the invariant, whether its answer arrives or not.
LEMMA WritingNames ==
  ASSUME IInv, Names \/ (CallFails /\ StoreNames)
  PROVE  IInv'
<1> USE DEF IInv
<1>1. /\ StoreNames /\ pc = "names" /\ pc' = "idle"
      /\ deps' = deps /\ app' = app /\ found' = found /\ astray' = astray
      /\ storedDep' = storedDep
      /\ queued' \in BOOLEAN
      /\ events' = events \/ Event
  <2>1. ~(StoreNew \/ StoreScaled) \/ ~StoreNames
    BY DEF StoreNew, StoreScaled, StoreNames
  <2>2. CASE Names
    BY <2>2 DEF Names, StoreNames, storedDep, TypeOK
  <2>3. CASE CallFails /\ StoreNames
    BY <2>1, <2>3 DEF CallFails, ReturnError, StoreNames, storedDep
  <2> QED BY <2>2, <2>3
<1>2. /\ app = storedApp
      /\ apps' \in Seq(App) /\ apps' # << >> /\ AppsKnown'
      /\ storedApp'.there = storedApp.there
      /\ storedApp'.replicas = storedApp.replicas
  BY <1>1, StoringNames
<1>3. events' \in 0..MaxEvents
  BY <1>1, EventsBounded
<1>4. TypeOK'
  BY <1>1, <1>2, <1>3 DEF TypeOK
<1>5. FoundRight'
  BY <1>1 DEF FoundRight
<1>6. NotForgotten'
  BY <1>1, <1>2 DEF FoundRight, NotForgotten, Follows
<1> QED BY <1>2, <1>4, <1>5, <1>6
-----------------------------------------------------------------------------
\* The informers, and a new process.
LEMMA Following ==
  ASSUME IInv, Crash \/ DeliverApp \/ DeliverDep
  PROVE  IInv'
<1> USE DEF IInv
<1>1. /\ app' = app /\ found' = found /\ astray' = astray
      /\ events' = events \/ Event
      /\ pc' = pc \/ pc' = "idle"
      /\ queued' \in BOOLEAN
  BY Ends DEF Crash, DeliverApp, DeliverDep, TypeOK, App
<1>2. /\ \/ Len(apps) > 1 /\ apps' = Tail(apps)
         \/ apps' = <<storedApp>>
         \/ apps' = apps
      /\ \/ Len(deps) > 1 /\ deps' = Tail(deps)
         \/ deps' = <<storedDep>>
         \/ deps' = deps
  BY DEF Crash, DeliverApp, DeliverDep
<1>3. /\ apps' \in Seq(App) /\ apps' # << >> /\ storedApp' = storedApp
      /\ AppsKnown'
  BY <1>1, <1>2, AppFollows
<1>4. deps' \in Seq(Dep) /\ deps' # << >> /\ storedDep' = storedDep
  BY <1>2, DepFollows
<1>5. events' \in 0..MaxEvents
  BY <1>1, EventsBounded
<1>6. TypeOK'
  BY <1>1, <1>3, <1>4, <1>5 DEF TypeOK
<1>7. FoundRight'
  BY <1>1, <1>3, <1>4 DEF FoundRight
<1>8. NotForgotten'
  <2>1. CASE Crash
    <3>1. AtRest' => ~storedApp'.there
      BY <1>3, <2>1 DEF Crash, AtRest
    <3> QED BY <3>1 DEF NotForgotten, Follows
  <2>2. CASE DeliverApp
    BY <2>2 DEF DeliverApp, NotForgotten, AtRest
  <2>3. CASE DeliverDep
    BY <1>3, <1>4, <2>3 DEF DeliverDep, NotForgotten, AtRest, Follows
  <2> QED BY <2>1, <2>2, <2>3
<1> QED BY <1>3, <1>6, <1>7, <1>8

\* The owner: a new version is yet to be delivered.
LEMMA Owning ==
  ASSUME IInv, Edit \/ Delete
  PROVE  IInv'
<1> USE DEF IInv
<1>1. /\ deps' = deps /\ queued' = queued /\ pc' = pc /\ app' = app
      /\ found' = found /\ astray' = astray /\ storedDep' = storedDep
      /\ Event /\ storedApp.there
  BY DEF Edit, Delete, storedDep
<1>2. PICK a \in App : a.rv = storedApp.rv /\ PutApp(a)
  <2>1. CASE Edit
    <3>1. PICK n \in Counts, b \in BOOLEAN :
            PutApp([storedApp EXCEPT !.replicas = n, !.brief = b])
      BY <2>1 DEF Edit
    <3>2. [storedApp EXCEPT !.replicas = n] \in App
      BY Ends DEF App
    <3>3. /\ [storedApp EXCEPT !.replicas = n, !.brief = b] \in App
          /\ [storedApp EXCEPT !.replicas = n, !.brief = b].rv = storedApp.rv
      BY <3>2, Ends DEF App
    <3> QED BY <3>1, <3>3
  <2>2. CASE Delete
    <3>1. /\ [storedApp EXCEPT !.there = FALSE] \in App
          /\ [storedApp EXCEPT !.there = FALSE].rv = storedApp.rv
      BY Ends DEF App
    <3> QED BY <2>2, <3>1 DEF Delete
  <2> QED BY <2>1, <2>2
<1>3. /\ apps' \in Seq(App) /\ apps' # << >> /\ AppsKnown'
      /\ (a # storedApp) => Len(apps') > 1
      /\ (a = storedApp) => apps' = apps /\ storedApp' = storedApp
  BY <1>1, <1>2, PutAppEffect
<1>4. events' \in 0..MaxEvents
  BY <1>1, EventsBounded
<1>5. TypeOK'
  BY <1>1, <1>3, <1>4 DEF TypeOK
<1>6. FoundRight'
  BY <1>1 DEF FoundRight
<1>7. NotForgotten'
  BY <1>1, <1>3 DEF NotForgotten, AtRest, Follows
<1> QED BY <1>3, <1>5, <1>6, <1>7

\* Others, the Deployment's own controller and the garbage collector.
LEMMA Others ==
  ASSUME IInv, Interfere \/ Touch \/ Collect
  PROVE  IInv'
<1> USE DEF IInv
<1>1. /\ apps' = apps /\ queued' = queued /\ pc' = pc /\ app' = app
      /\ found' = found /\ storedApp' = storedApp
      /\ events' = events \/ Event
      /\ astray' \in BOOLEAN
  BY DEF Interfere, Touch, Collect, storedApp, TypeOK
<1>2. deps' \in Seq(Dep) /\ deps' # << >>
  <2>1. CASE Touch
    <3>1. [storedDep EXCEPT !.rv = @ + 1] \in Dep
      BY Ends DEF Dep
    <3> QED BY <2>1, <3>1, QueueAppend DEF Touch, TypeOK
  <2>2. CASE Interfere \/ Collect
    <3>1. \E d \in Dep : PutDep(d)
      <4>1. /\ \A n \in Counts : [storedDep EXCEPT !.replicas = n] \in Dep
            /\ [storedDep EXCEPT !.there = FALSE] \in Dep
        BY Ends DEF Dep
      <4> QED BY <2>2, <4>1 DEF Interfere, Collect
    <3> QED BY <3>1, PutDepEffect
  <2> QED BY <2>1, <2>2
<1>3. events' \in 0..MaxEvents
  BY <1>1, EventsBounded
<1>4. TypeOK'
  BY <1>1, <1>2, <1>3 DEF TypeOK
<1>5. AppsKnown'
  BY <1>1 DEF AppsKnown, Known
<1>6. \/ astray' = TRUE
      \/ ~storedApp.there
      \/ /\ astray' = astray
         /\ storedDep'.there = storedDep.there
         /\ storedDep'.replicas = storedDep.replicas
  <2>1. CASE Touch
    <3>1. [storedDep EXCEPT !.rv = @ + 1] \in Dep
      BY Ends DEF Dep
    <3>2. storedDep' = [storedDep EXCEPT !.rv = @ + 1]
      BY <2>1, <3>1, QueueAppend DEF Touch, TypeOK, storedDep
    <3> QED BY <2>1, <3>2, Ends DEF Touch, Dep
  <2>2. CASE Interfere
    BY <2>2 DEF Interfere
  <2>3. CASE Collect
    BY <2>3, Ends DEF Collect, AppsKnown, Known
  <2> QED BY <2>1, <2>2, <2>3
<1>7. FoundRight'
  BY <1>1, <1>6 DEF FoundRight
<1>8. NotForgotten'
  BY <1>1, <1>6 DEF NotForgotten, AtRest, Follows
<1> QED BY <1>4, <1>5, <1>7, <1>8
-----------------------------------------------------------------------------
\* Every step keeps the invariant.
LEMMA NextIInv == IInv /\ [Next]_vars => IInv'
<1> SUFFICES ASSUME IInv, [Next]_vars
             PROVE  IInv'
  OBVIOUS
<1>1. CASE Reconcile
  BY <1>1, Reading, WritingDep, WritingNames DEF Reconcile
<1>2. CASE CallFails
  BY <1>2, WritingDep, WritingNames
<1>3. CASE Crash \/ DeliverApp \/ DeliverDep
  BY <1>3, Following
<1>4. CASE Edit \/ Delete
  BY <1>4, Owning
<1>5. CASE Interfere \/ Touch \/ Collect
  BY <1>5, Others
<1>6. CASE UNCHANGED vars
  BY <1>6 DEF vars, IInv, TypeOK, AppsKnown, Known, FoundRight, NotForgotten,
     AtRest, Follows, storedApp, storedDep
<1> QED BY <1>1, <1>2, <1>3, <1>4, <1>5, <1>6 DEF Next

\* The inductive invariant holds, whatever the copies show and calls do.
THEOREM Invariance == Spec => []IInv
<1>1. Init => IInv
  BY InitIInv
<1>2. IInv /\ [Next]_vars => IInv'
  BY NextIInv
<1> QED BY <1>1, <1>2, PTL DEF Spec

\* Type correctness.
THEOREM TypeCorrect == Spec => []TypeOK
<1>1. IInv => TypeOK
  BY DEF IInv
<1> QED BY <1>1, Invariance, PTL

\* A number of replicas that was asked for is only forgotten by a pass that
\* was shown another Deployment than there is.
THEOREM NothingIsForgotten == Spec => []NotForgotten
<1>1. IInv => NotForgotten
  BY DEF IInv
<1> QED BY <1>1, Invariance, PTL

\* Reconcile, which writes the whole Application, never changes what the owner
\* asks for.
THEOREM OwnerAlone == Spec => OwnerDecides
<1> DEFINE Kept == /\ storedApp'.there = storedApp.there
                   /\ storedApp'.replicas = storedApp.replicas
<1>1. IInv /\ (Reconcile \/ CallFails) => Kept
  <2> SUFFICES ASSUME IInv, Reconcile \/ CallFails
               PROVE  Kept
    OBVIOUS
  <2>1. CASE StoreNames /\ app' = app
    BY <2>1, StoringNames DEF IInv
  <2>2. CASE apps' = apps
    BY <2>2 DEF storedApp
  <2>3. (StoreNames /\ app' = app) \/ apps' = apps
    BY DEF Reconcile, Take, Find, Create, Scale, Names, Refused, CallFails,
       ReturnError
  <2> QED BY <2>1, <2>2, <2>3
<1>2. IInv /\ [Next]_vars => [Reconcile \/ CallFails => Kept]_vars
  BY <1>1
<1>3. Spec => [][Reconcile \/ CallFails => Kept]_vars
  BY <1>2, Invariance, PTL DEF Spec
<1> QED BY <1>3 DEF OwnerDecides
=============================================================================
