------------------------- MODULE NatsClusterProofs -------------------------
(***************************************************************************)
(* The inductive invariant of NatsCluster and what follows from it, for    *)
(* any agents, numbers of replicas, passes and versions.                   *)
(***************************************************************************)
EXTENDS NatsCluster, VersionLemmas

\* The ends of the two queues are objects.
LEMMA Ends ==
  ASSUME TypeOK
  PROVE  /\ Head(confs) = confs[1] /\ conf = confs[Len(confs)]
         /\ Head(confs) \in Conf /\ conf \in Conf
         /\ Len(confs) \in Nat /\ 1 \in 1..Len(confs)
         /\ Len(confs) \in 1..Len(confs)
         /\ \A i \in 1..Len(confs) : confs[i] \in Conf
         /\ Head(sets) = sets[1] /\ set = sets[Len(sets)]
         /\ Head(sets) \in Set /\ set \in Set
         /\ Len(sets) \in Nat /\ 1 \in 1..Len(sets)
         /\ Len(sets) \in 1..Len(sets)
         /\ \A i \in 1..Len(sets) : sets[i] \in Set
BY QueueEnds DEF TypeOK, conf, set

\* Empty objects are objects, and an object that is not there is empty.
LEMMA Empties == NoConf \in Conf /\ NoSet \in Set /\ Real(NoConf)
<1>1. {} \in PodRoutes
  <2>1. 0 \in ReplicaCounts \cup {0} /\ {} = 0..(0 - 1)
    OBVIOUS
  <2> QED BY <2>1 DEF PodRoutes
<1>2. 0 \in 0..MaxPasses
  BY BoundsAssumption
<1> QED BY <1>1, <1>2 DEF NoConf, Conf, NoSet, Set, Real

\* The routes of a number of replicas are routes of pods.
LEMMA RoutesOfReplicas ==
  ASSUME NEW n \in ReplicaCounts
  PROVE  0..(n - 1) \in PodRoutes
BY DEF PodRoutes

\* A write of the config map: it comes last, under the next number.
LEMMA PutConfEffect ==
  ASSUME TypeOK, ConfsKnown, NEW c \in Conf, c.there, c.rv = conf.rv, PutConf(c),
         base' = base, found' = found
  PROVE  /\ confs' \in Seq(Conf) /\ confs' # << >>
         /\ conf'.there /\ conf'.own = c.own /\ conf'.agents = c.agents
         /\ ConfsKnown'
<1>1. confs \in Seq(Conf) /\ confs # << >>
  BY DEF TypeOK
<1>2. CASE c = conf
  <2>1. confs' = confs
    BY <1>2 DEF PutConf
  <2>2. conf' = conf
    BY <2>1 DEF conf
  <2>3. ConfsKnown'
    BY <2>1, <2>2 DEF ConfsKnown, Real
  <2> QED BY <1>1, <1>2, <2>1, <2>2, <2>3
<1>3. CASE c # conf
  <2> DEFINE new == [c EXCEPT !.rv = @ + 1]
  <2>1. /\ new \in Conf /\ new.rv = conf.rv + 1 /\ new.there
        /\ new.own = c.own /\ new.agents = c.agents
    BY DEF Conf
  <2>2. confs' = Append(confs, new)
    BY <1>3 DEF PutConf
  <2> HIDE DEF new
  <2>3. /\ confs' \in Seq(Conf) /\ confs' # << >>
        /\ Len(confs') = Len(confs) + 1
        /\ confs'[Len(confs')] = new
        /\ \A i \in 1..Len(confs) : confs'[i] = confs[i]
        /\ \A i \in 1..Len(confs') : i \in 1..Len(confs) \/ i = Len(confs')
    BY <1>1, <2>1, <2>2, QueueAppend
  <2>4. conf' = new
    BY <2>3 DEF conf
  <2>5. conf.rv \in Nat /\ found.rv \in Nat /\ Len(confs) \in Nat
    BY Ends DEF Conf, TypeOK
  <2>6. \A i \in 1..Len(confs) : confs[i].rv \in Nat /\ confs[i].rv <= conf.rv
    <3>1. ASSUME NEW i \in 1..Len(confs)
          PROVE  confs[i].rv \in Nat /\ confs[i].rv <= conf.rv
      <4>1. confs[i].rv \in Nat
        BY Ends DEF Conf
      <4>2. i = Len(confs) \/ i < Len(confs)
        BY <2>5
      <4>3. i < Len(confs) => confs[i].rv < conf.rv
        BY Ends DEF ConfsKnown
      <4> QED BY <4>1, <4>2, <4>3, <2>5, Ends
    <3> QED BY <3>1
  <2>7. ASSUME NEW i \in 1..Len(confs'), NEW j \in 1..Len(confs'), i < j
        PROVE  confs'[i].rv < confs'[j].rv
    <3>1. i \in 1..Len(confs)
      BY <2>3, <2>5, <2>7
    <3>2. CASE j \in 1..Len(confs)
      BY <2>3, <2>7, <3>1, <3>2 DEF ConfsKnown
    <3>3. CASE j = Len(confs')
      BY <2>1, <2>3, <2>5, <2>6, <3>1, <3>3
    <3> QED BY <2>3, <3>2, <3>3
  <2>8. ASSUME NEW i \in 1..Len(confs')
        PROVE  Real(confs'[i])
    <3>1. CASE i \in 1..Len(confs)
      BY <2>3, <3>1 DEF ConfsKnown
    <3>2. CASE i = Len(confs')
      BY <2>1, <2>3, <3>2 DEF Real
    <3> QED BY <2>3, <3>1, <3>2
  <2>9. found.rv < conf'.rv
    BY <2>1, <2>4, <2>5 DEF ConfsKnown
  <2>10. conf'.rv \in Nat
    BY <2>1, <2>4, <2>5
  <2>11. ConfsKnown'
    <3>1. (Real(base) /\ Real(found))'
      BY DEF ConfsKnown, Real
    <3>2. (found.rv <= conf.rv /\ (found.rv = conf.rv => found = conf))'
      BY <2>5, <2>9, <2>10
    <3>3. (\A i \in 1..Len(confs) : Real(confs[i]))'
      BY <2>8 DEF Real
    <3> QED BY <2>7, <3>1, <3>2, <3>3 DEF ConfsKnown
  <2> QED BY <2>1, <2>3, <2>4, <2>11
<1> QED BY <1>2, <1>3

\* The copy of the config map follows, or a new process starts from the stored
\* one.
LEMMA ConfFollows ==
  ASSUME TypeOK, ConfsKnown,
         \/ Len(confs) > 1 /\ confs' = Tail(confs)
         \/ confs' = <<conf>>
         \/ confs' = confs,
         base' = base, found' = found
  PROVE  /\ confs' \in Seq(Conf) /\ confs' # << >>
         /\ conf' = conf
         /\ ConfsKnown'
<1>0. (Real(base) /\ Real(found))'
  BY DEF ConfsKnown, Real
<1>1. CASE Len(confs) > 1 /\ confs' = Tail(confs)
  <2>1. /\ confs' \in Seq(Conf) /\ confs' # << >>
        /\ Len(confs') = Len(confs) - 1
        /\ confs'[Len(confs')] = confs[Len(confs)]
        /\ \A i \in 1..Len(confs') : /\ confs'[i] = confs[i + 1]
                                     /\ i + 1 \in 1..Len(confs)
    BY <1>1, QueueTail DEF TypeOK
  <2>2. conf' = conf
    BY <2>1 DEF conf
  <2>3. ASSUME NEW i \in 1..Len(confs'), NEW j \in 1..Len(confs'), i < j
        PROVE  confs'[i].rv < confs'[j].rv
    <3>1. i + 1 < j + 1
      BY <2>3
    <3> QED BY <2>1, <3>1 DEF ConfsKnown
  <2>4. (\A i \in 1..Len(confs) : Real(confs[i]))'
    BY <2>1 DEF ConfsKnown, Real
  <2> QED BY <1>0, <2>1, <2>2, <2>3, <2>4 DEF ConfsKnown
<1>2. CASE confs' = <<conf>>
  <2>1. /\ confs' \in Seq(Conf) /\ confs' # << >>
        /\ Len(confs') = 1 /\ confs'[Len(confs')] = conf
        /\ \A i \in 1..Len(confs') : confs'[i] = conf
    BY <1>2, Ends, QueueRestart
  <2>2. conf' = conf
    BY <2>1 DEF conf
  <2>3. ASSUME NEW i \in 1..Len(confs'), NEW j \in 1..Len(confs'), i < j
        PROVE  confs'[i].rv < confs'[j].rv
    BY <2>1, <2>3
  <2>4. Real(conf)
    BY Ends DEF ConfsKnown
  <2>5. (\A i \in 1..Len(confs) : Real(confs[i]))'
    BY <2>1, <2>4 DEF Real
  <2> QED BY <1>0, <2>1, <2>2, <2>3, <2>5 DEF ConfsKnown
<1>3. CASE confs' = confs
  <2>1. conf' = conf
    BY <1>3 DEF conf
  <2> QED BY <1>0, <1>3, <2>1 DEF ConfsKnown, TypeOK, Real
<1> QED BY <1>1, <1>2, <1>3

\* A write of the StatefulSet comes last.
LEMMA PutSetEffect ==
  ASSUME TypeOK, NEW s \in Set, PutSet(s)
  PROVE  /\ sets' \in Seq(Set) /\ sets' # << >>
         /\ set' = s
         /\ \A i \in 1..Len(sets') :
              sets'[i] = s \/ \E j \in 1..Len(sets) : sets'[i] = sets[j]
<1>1. sets \in Seq(Set) /\ sets # << >>
  BY DEF TypeOK
<1>2. CASE s = set
  BY <1>1, <1>2 DEF PutSet, set
<1>3. CASE s # set
  <2>1. sets' = Append(sets, s)
    BY <1>3 DEF PutSet
  <2>2. /\ sets' \in Seq(Set) /\ sets' # << >>
        /\ sets'[Len(sets')] = s
        /\ \A i \in 1..Len(sets) : sets'[i] = sets[i]
        /\ \A i \in 1..Len(sets') : i \in 1..Len(sets) \/ i = Len(sets')
    BY <1>1, <2>1, QueueAppend
  <2> QED BY <2>2 DEF set
<1> QED BY <1>2, <1>3

\* The copy of the StatefulSet follows, or a new process starts from the stored
\* one.
LEMMA SetFollows ==
  ASSUME TypeOK,
         \/ Len(sets) > 1 /\ sets' = Tail(sets)
         \/ sets' = <<set>>
         \/ sets' = sets
  PROVE  /\ sets' \in Seq(Set) /\ sets' # << >>
         /\ set' = set
         /\ \A i \in 1..Len(sets') : \E j \in 1..Len(sets) : sets'[i] = sets[j]
<1>1. CASE Len(sets) > 1 /\ sets' = Tail(sets)
  <2>1. /\ sets' \in Seq(Set) /\ sets' # << >>
        /\ sets'[Len(sets')] = sets[Len(sets)]
        /\ \A i \in 1..Len(sets') : /\ sets'[i] = sets[i + 1]
                                    /\ i + 1 \in 1..Len(sets)
    BY <1>1, QueueTail DEF TypeOK
  <2> QED BY <2>1 DEF set
<1>2. CASE sets' = <<set>>
  <2>1. /\ sets' \in Seq(Set) /\ sets' # << >>
        /\ sets'[Len(sets')] = set
        /\ \A i \in 1..Len(sets') : sets'[i] = set
    BY <1>2, Ends, QueueRestart
  <2>2. set' = set
    BY <2>1 DEF set
  <2> QED BY <2>1, <2>2, Ends
<1>3. CASE sets' = sets
  BY <1>3 DEF set, TypeOK
<1> QED BY <1>1, <1>2, <1>3

\* The annotation for a StatefulSet is that of a pass that has begun.
LEMMA StampType ==
  ASSUME TypeOK, NEW s \in Set, s.restartedAt <= pass
  PROVE  StampFor(s) \in 0..pass
<1>1. pass \in Nat /\ s.restartedAt \in Nat
  BY BoundsAssumption DEF TypeOK, Set
<1>2. CASE s.there /\ ScaleDown(s)
  <2>1. StampFor(s) = pass
    BY <1>2 DEF StampFor
  <2> QED BY <1>1, <2>1
<1>3. CASE ~(s.there /\ ScaleDown(s))
  <2>1. StampFor(s) = s.restartedAt
    BY <1>3 DEF StampFor
  <2> QED BY <1>1, <2>1
<1> QED BY <1>2, <1>3

\* Numbers of replicas are positive.
LEMMA Positive == \A n \in ReplicaCounts : n \in Nat /\ n > 0
<1>1. \A n \in ReplicaCounts : n \in Nat /\ n # 0
  BY ReplicasAssumption
<1> QED BY <1>1

\* Without a write of the StatefulSet what is known of it stays known.
LEMMA SetsStay ==
  ASSUME TypeOK, StampKnown, sets' = sets, pass' = pass,
         UNCHANGED <<replicas, stamp, misled>>,
         pc' \notin {"idle", "continued"} => pc \notin {"idle", "continued"},
         pc' # "writeSet"
  PROVE  StampKnown'
<1>1. set' = set
  BY DEF set
<1>2. (\A i \in 1..Len(sets) : sets[i].restartedAt <= pass)'
  BY DEF StampKnown
<1>3. (pc \notin {"idle", "continued"} => set.restartedAt < pass)'
  BY <1>1 DEF StampKnown
<1>4. (~set.there => set.replicas = 0)'
  BY <1>1 DEF StampKnown
<1> QED BY <1>2, <1>3, <1>4 DEF StampKnown

\* A write of server.conf, whether the pass learns of it or not.
LEMMA ConfWritten ==
  ASSUME IInv, StoreConf, pc' \in {"readSet", "idle"},
         UNCHANGED <<sets, pass, replicas, base, found, stamp, misled>>
  PROVE  IInv'
<1>1. TypeOK /\ ConfsKnown /\ StampKnown
  BY DEF IInv
<1>2. /\ Merged.there /\ Merged.rv = conf.rv
      /\ Merged.own = 0..(replicas - 1) /\ Merged.agents = base.agents
  BY DEF Merged, Routes
<1>3. Merged \in Conf
  <2>1. 0..(replicas - 1) \in PodRoutes
    BY <1>1, RoutesOfReplicas DEF TypeOK
  <2>2. base.agents \in SUBSET Agents
    BY <1>1 DEF TypeOK, Conf
  <2>3. conf.rv \in Nat
    BY <1>1, Ends DEF Conf
  <2> QED BY <2>1, <2>2, <2>3 DEF Merged, Routes, Conf
<1>4. PutConf(Merged)
  BY DEF StoreConf
<1>5. /\ confs' \in Seq(Conf) /\ confs' # << >>
      /\ conf'.there /\ conf'.own = 0..(replicas - 1)
      /\ ConfsKnown'
  BY <1>1, <1>2, <1>3, <1>4, PutConfEffect
<1>6. TypeOK'
  BY <1>1, <1>5 DEF TypeOK
<1>7. OwnRoutesMatch'
  BY <1>5 DEF OwnRoutesMatch
<1>8. pc \notin {"idle", "continued"}
  BY DEF StoreConf
<1>9. StampKnown'
  BY <1>1, <1>8, SetsStay
<1> QED BY <1>5, <1>6, <1>7, <1>9 DEF IInv

\* A write of the StatefulSet, whether the pass learns of it or not.
LEMMA SetWritten ==
  ASSUME IInv, StoreSet, pc' \in {"continued", "idle"},
         UNCHANGED <<confs, pass, replicas, base, found, stamp, misled>>
  PROVE  IInv'
<1> DEFINE s == [there |-> TRUE, replicas |-> replicas, restartedAt |-> stamp]
<1>1. TypeOK /\ ConfsKnown /\ StampKnown /\ OwnRoutesMatch
  BY DEF IInv
<1>2. pass \in Nat /\ stamp \in Nat /\ stamp <= pass /\ pass <= MaxPasses
  BY <1>1, BoundsAssumption DEF TypeOK
<1>3. s \in Set
  <2>1. stamp \in 0..MaxPasses
    BY <1>2, BoundsAssumption
  <2> QED BY <1>1, <2>1 DEF Set, TypeOK
<1>4. PutSet(s)
  BY DEF StoreSet
<1>5. s.restartedAt = stamp /\ s.there
  OBVIOUS
<1> HIDE DEF s
<1>6. /\ sets' \in Seq(Set) /\ sets' # << >>
      /\ set' = s
      /\ \A i \in 1..Len(sets') :
           sets'[i] = s \/ \E j \in 1..Len(sets) : sets'[i] = sets[j]
  BY <1>1, <1>3, <1>4, PutSetEffect
<1>7. (\A i \in 1..Len(sets) : sets[i].restartedAt <= pass)'
  BY <1>1, <1>2, <1>5, <1>6 DEF StampKnown
<1>8. StampKnown'
  BY <1>5, <1>6, <1>7 DEF StampKnown
<1>9. conf' = conf
  BY DEF conf
<1>10. ConfsKnown'
  BY <1>1, ConfFollows
<1>11. TypeOK'
  BY <1>1, <1>6 DEF TypeOK
<1>12. OwnRoutesMatch'
  BY <1>1, <1>9 DEF OwnRoutesMatch, StoreSet
<1> QED BY <1>8, <1>10, <1>11, <1>12 DEF IInv

\* The Get of the StatefulSet, which may fail or be late.
LEMMA SetRead ==
  ASSUME IInv, NEW s \in Set, s.restartedAt <= pass, ReadSetAs(s)
  PROVE  IInv'
<1>1. TypeOK /\ ConfsKnown /\ StampKnown /\ OwnRoutesMatch
  BY DEF IInv
<1>2. /\ pc = "readSet" /\ pc' = "writeSet" /\ stamp' = StampFor(s)
      /\ misled' = (s # set)
      /\ UNCHANGED <<confs, sets, pass, replicas, base, found>>
  BY DEF ReadSetAs
<1>3. conf' = conf /\ set' = set
  BY <1>2 DEF conf, set
<1>4. StampFor(s) \in 0..pass
  BY <1>1, StampType
<1>5. misled' \in BOOLEAN
  BY <1>2
<1>6. TypeOK'
  BY <1>1, <1>2, <1>4, <1>5 DEF TypeOK
<1>7. OwnRoutesMatch'
  BY <1>1, <1>2, <1>3 DEF OwnRoutesMatch
<1>8. ConfsKnown'
  BY <1>1, <1>2, ConfFollows
<1>9. ~misled' => StampFor(s) = StampFor(set)'
  <2>1. ~misled' => s = set
    BY <1>2
  <2>2. StampFor(set)' = StampFor(set)
    BY <1>2, <1>3 DEF StampFor, ScaleDown
  <2> QED BY <2>1, <2>2
<1>10. set.restartedAt < pass /\ (~set.there => set.replicas = 0)
  BY <1>1, <1>2 DEF StampKnown
<1>11. (\A i \in 1..Len(sets) : sets[i].restartedAt <= pass)'
  BY <1>1, <1>2 DEF StampKnown
<1>12. StampKnown'
  BY <1>2, <1>3, <1>9, <1>10, <1>11 DEF StampKnown
<1> QED BY <1>6, <1>7, <1>8, <1>12 DEF IInv

\* The first Get of the config map, which may fail or be late.
LEMMA ConfRead ==
  ASSUME IInv, NEW c \in Conf, Real(c), ReadConfAs(c)
  PROVE  IInv'
<1>1. TypeOK /\ ConfsKnown /\ StampKnown
  BY DEF IInv
<1>2. /\ pc = "readConf" /\ pc' = "findConf" /\ base' = c
      /\ UNCHANGED <<confs, sets, pass, replicas, found, stamp, misled>>
  BY DEF ReadConfAs
<1>3. conf' = conf
  BY <1>2 DEF conf
<1>4. TypeOK'
  BY <1>1, <1>2 DEF TypeOK
<1>5. OwnRoutesMatch'
  BY <1>2 DEF OwnRoutesMatch
<1>6. ConfsKnown'
  BY <1>1, <1>2, <1>3 DEF ConfsKnown, Real
<1>7. StampKnown'
  BY <1>1, <1>2, SetsStay
<1> QED BY <1>4, <1>5, <1>6, <1>7 DEF IInv

\* The second Get of the config map: what it finds is the stored one, or has an
\* earlier number.
LEMMA ConfFound ==
  ASSUME IInv, FindConf
  PROVE  IInv'
<1>1. TypeOK /\ ConfsKnown /\ StampKnown
  BY DEF IInv
<1>2. /\ pc = "findConf" /\ pc' = "writeConf" /\ found' = Head(confs)
      /\ UNCHANGED <<confs, sets, pass, replicas, base, stamp, misled>>
  BY DEF FindConf
<1>3. conf' = conf
  BY <1>2 DEF conf
<1>4. /\ Head(confs) = confs[1] /\ conf = confs[Len(confs)]
      /\ 1 \in 1..Len(confs) /\ Len(confs) \in 1..Len(confs)
      /\ Len(confs) \in Nat
      /\ Head(confs) \in Conf /\ conf \in Conf
  BY <1>1, Ends
<1>5. Head(confs).rv \in Nat /\ conf.rv \in Nat
  BY <1>4 DEF Conf
<1>6. Head(confs).rv < conf.rv \/ Head(confs) = conf
  <2>1. CASE Len(confs) = 1
    BY <1>4, <2>1
  <2>2. CASE Len(confs) # 1
    <3>1. 1 < Len(confs)
      BY <1>4, <2>2
    <3>2. confs[1].rv < confs[Len(confs)].rv
      BY <1>1, <1>4, <3>1 DEF ConfsKnown
    <3> QED BY <1>4, <3>2
  <2> QED BY <2>1, <2>2
<1>7. Head(confs).rv <= conf.rv /\ (Head(confs).rv = conf.rv => Head(confs) = conf)
  BY <1>5, <1>6
<1>8. Real(Head(confs))
  BY <1>1, <1>4 DEF ConfsKnown
<1>9. ConfsKnown'
  BY <1>1, <1>2, <1>3, <1>7, <1>8 DEF ConfsKnown, Real
<1>10. TypeOK'
  BY <1>1, <1>2, <1>4 DEF TypeOK
<1>11. OwnRoutesMatch'
  BY <1>2 DEF OwnRoutesMatch
<1>12. StampKnown'
  BY <1>1, <1>2, SetsStay
<1> QED BY <1>9, <1>10, <1>11, <1>12 DEF IInv

\* A new pass.
LEMMA Begun ==
  ASSUME IInv, Begin
  PROVE  IInv'
<1>1. TypeOK /\ ConfsKnown /\ StampKnown
  BY DEF IInv
<1>2. /\ pass < MaxPasses /\ pass' = pass + 1
      /\ replicas' \in ReplicaCounts /\ pc' = "readConf" /\ misled' = FALSE
      /\ UNCHANGED <<confs, sets, base, found, stamp>>
  BY DEF Begin
<1>3. conf' = conf /\ set' = set
  BY <1>2 DEF conf, set
<1>4. pass \in Nat /\ pass' \in 0..MaxPasses
  BY <1>1, <1>2, BoundsAssumption DEF TypeOK
<1>5. stamp \in 0..pass'
  BY <1>1, <1>2, <1>4 DEF TypeOK
<1>6. misled' \in BOOLEAN
  BY <1>2
<1>7. TypeOK'
  BY <1>1, <1>2, <1>4, <1>5, <1>6 DEF TypeOK
<1>8. OwnRoutesMatch'
  BY <1>2 DEF OwnRoutesMatch
<1>9. ConfsKnown'
  BY <1>1, <1>2, ConfFollows
<1>10. \A i \in 1..Len(sets) : sets[i].restartedAt \in Nat
  BY <1>1, Ends, BoundsAssumption DEF Set
<1>11. \A i \in 1..Len(sets) : sets[i].restartedAt < pass'
  BY <1>1, <1>2, <1>4, <1>10 DEF StampKnown
<1>12. (\A i \in 1..Len(sets) : sets[i].restartedAt <= pass)'
  BY <1>2, <1>4, <1>10, <1>11
<1>13. set.restartedAt < pass'
  BY <1>1, <1>11, Ends
<1>14. StampKnown'
  BY <1>1, <1>2, <1>3, <1>12, <1>13 DEF StampKnown
<1> QED BY <1>7, <1>8, <1>9, <1>14 DEF IInv

\* A pass that ends early, and informers that follow.
LEMMA Followed ==
  ASSUME IInv,
         \/ Len(confs) > 1 /\ confs' = Tail(confs)
         \/ confs' = <<conf>>
         \/ confs' = confs,
         \/ Len(sets) > 1 /\ sets' = Tail(sets)
         \/ sets' = <<set>>
         \/ sets' = sets,
         pc' = pc \/ pc' = "idle",
         UNCHANGED <<pass, replicas, base, found, stamp, misled>>
  PROVE  IInv'
<1>1. TypeOK /\ ConfsKnown /\ StampKnown /\ OwnRoutesMatch
  BY DEF IInv
<1>2. confs' \in Seq(Conf) /\ confs' # << >> /\ conf' = conf /\ ConfsKnown'
  BY <1>1, ConfFollows
<1>3. /\ sets' \in Seq(Set) /\ sets' # << >> /\ set' = set
      /\ \A i \in 1..Len(sets') : \E j \in 1..Len(sets) : sets'[i] = sets[j]
  BY <1>1, SetFollows
<1>4. TypeOK'
  BY <1>1, <1>2, <1>3 DEF TypeOK
<1>5. OwnRoutesMatch'
  BY <1>1, <1>2 DEF OwnRoutesMatch
<1>6. (\A i \in 1..Len(sets) : sets[i].restartedAt <= pass)'
  BY <1>1, <1>3 DEF StampKnown
<1>7. StampFor(set)' = StampFor(set)
  BY <1>3 DEF StampFor, ScaleDown
<1>8. StampKnown'
  BY <1>1, <1>3, <1>6, <1>7 DEF StampKnown
<1> QED BY <1>2, <1>4, <1>5, <1>8 DEF IInv

\* The Controller's routes do not touch those of the pods.
LEMMA Edited ==
  ASSUME IInv, ControllerEdits
  PROVE  IInv'
<1>1. TypeOK /\ ConfsKnown /\ StampKnown /\ OwnRoutesMatch
  BY DEF IInv
<1>2. PICK S \in SUBSET Agents : PutConf([conf EXCEPT !.agents = S])
  BY DEF ControllerEdits
<1> DEFINE c == [conf EXCEPT !.agents = S]
<1>3. conf \in Conf /\ conf.there
  BY <1>1, Ends DEF ControllerEdits
<1>4. c \in Conf /\ c.there /\ c.rv = conf.rv /\ c.own = conf.own
  BY <1>3 DEF Conf
<1>5. UNCHANGED <<sets, pc, pass, replicas, base, found, stamp, misled>>
  BY DEF ControllerEdits
<1> HIDE DEF c
<1>6. /\ confs' \in Seq(Conf) /\ confs' # << >>
      /\ conf'.there /\ conf'.own = conf.own
      /\ ConfsKnown'
  <2>1. PutConf(c)
    BY <1>2 DEF c
  <2> QED BY <1>1, <1>4, <1>5, <2>1, PutConfEffect
<1>7. TypeOK'
  BY <1>1, <1>5, <1>6 DEF TypeOK
<1>8. OwnRoutesMatch'
  BY <1>1, <1>5, <1>6 DEF OwnRoutesMatch
<1>9. set' = set
  BY <1>5 DEF set
<1>10. StampFor(set)' = StampFor(set)
  BY <1>5, <1>9 DEF StampFor, ScaleDown
<1>11. StampKnown'
  BY <1>1, <1>5, <1>9, <1>10 DEF StampKnown
<1> QED BY <1>6, <1>7, <1>8, <1>11 DEF IInv

\* At first there is nothing.
LEMMA InitIInv == Init => IInv
<1> SUFFICES ASSUME Init PROVE IInv
  OBVIOUS
<1>1. confs = <<NoConf>> /\ sets = <<NoSet>> /\ pc = "idle" /\ pass = 0
      /\ replicas \in ReplicaCounts /\ base = NoConf /\ found = NoConf
      /\ stamp = 0 /\ misled = FALSE
  BY DEF Init
<1>2. NoConf \in Conf /\ NoSet \in Set /\ Real(NoConf)
  BY Empties
<1>3. conf = NoConf /\ set = NoSet
  BY <1>1 DEF conf, set
<1>4. TypeOK
  <2>1. confs \in Seq(Conf) /\ confs # << >> /\ sets \in Seq(Set) /\ sets # << >>
    BY <1>1, <1>2, QueueRestart
  <2>2. 0 \in 0..MaxPasses /\ 0 \in 0..0
    BY BoundsAssumption
  <2>3. misled \in BOOLEAN
    BY <1>1
  <2> QED BY <1>1, <1>2, <2>1, <2>2, <2>3 DEF TypeOK
<1>5. ConfsKnown
  <2>1. \A i \in 1..Len(confs) : confs[i] = NoConf /\ i = 1
    BY <1>1
  <2>2. NoConf.rv = 0
    BY DEF NoConf
  <2> QED BY <1>1, <1>2, <1>3, <2>1, <2>2 DEF ConfsKnown
<1>6. StampKnown
  <2>1. \A i \in 1..Len(sets) : sets[i] = NoSet
    BY <1>1
  <2>2. NoSet.restartedAt = 0 /\ NoSet.replicas = 0
    BY DEF NoSet
  <2> QED BY <1>1, <1>3, <2>1, <2>2 DEF StampKnown
<1>7. OwnRoutesMatch
  BY <1>1 DEF OwnRoutesMatch
<1> QED BY <1>4, <1>5, <1>6, <1>7 DEF IInv

\* Every step keeps the invariant.
LEMMA NextIInv == IInv /\ [Next]_vars => IInv'
<1> SUFFICES ASSUME IInv, [Next]_vars PROVE IInv'
  OBVIOUS
<1>0. TypeOK /\ ConfsKnown /\ StampKnown
  BY DEF IInv
<1>1. CASE Begin
  BY <1>1, Begun
<1>2. CASE ReadConf
  <2>1. Head(confs) \in Conf /\ Real(Head(confs))
    BY <1>0, Ends DEF ConfsKnown
  <2> QED BY <1>2, <2>1, ConfRead DEF ReadConf
<1>3. CASE FindConf
  BY <1>3, ConfFound
<1>4. CASE WriteConf
  BY <1>4, ConfWritten DEF WriteConf
<1>5. CASE ReadSet
  <2>1. Head(sets) \in Set /\ Head(sets).restartedAt <= pass
    BY <1>0, Ends DEF StampKnown
  <2> QED BY <1>5, <2>1, SetRead DEF ReadSet
<1>6. CASE WriteSet
  BY <1>6, SetWritten DEF WriteSet
<1>7. CASE Refused
  BY <1>7, Followed DEF Refused
<1>8. CASE ControllerEdits
  BY <1>8, Edited
<1>9. CASE DeliverConf
  BY <1>9, Followed DEF DeliverConf
<1>10. CASE DeliverSet
  BY <1>10, Followed DEF DeliverSet
<1>11. CASE ReadFails
  <2>1. CASE ReadConfAs(NoConf)
    BY <2>1, Empties, ConfRead
  <2>2. CASE ReadSetAs(NoSet)
    <3>1. NoSet.restartedAt <= pass
      BY <1>0, BoundsAssumption DEF NoSet, TypeOK
    <3> QED BY <2>2, <3>1, Empties, SetRead
  <2> QED BY <1>11, <2>1, <2>2 DEF ReadFails
<1>12. CASE CallFails
  <2>1. pc' = "idle" /\ UNCHANGED <<pass, replicas, base, found, stamp, misled>>
    BY <1>12 DEF CallFails
  <2>2. CASE StoreConf /\ UNCHANGED sets
    BY <2>1, <2>2, ConfWritten
  <2>3. CASE StoreSet /\ UNCHANGED confs
    BY <2>1, <2>3, SetWritten
  <2>4. CASE UNCHANGED <<confs, sets>>
    BY <2>1, <2>4, Followed
  <2> QED BY <1>12, <2>2, <2>3, <2>4 DEF CallFails
<1>13. CASE Crash
  BY <1>13, Followed DEF Crash
<1>14. CASE UNCHANGED vars
  BY <1>14, Followed DEF vars
<1> QED BY <1>1, <1>2, <1>3, <1>4, <1>5, <1>6, <1>7, <1>8, <1>9, <1>10, <1>11,
           <1>12, <1>13, <1>14 DEF Next, Calm

\* The inductive invariant holds in every reachable state.
THEOREM Invariance == Spec => []IInv
BY InitIInv, NextIInv, PTL DEF Spec

\* Type correctness.
THEOREM TypeCorrect == Spec => []TypeOK
<1>1. IInv => TypeOK
  BY DEF IInv
<1> QED BY <1>1, Invariance, PTL

\* From the write of server.conf to the end of the pass its routes are those of
\* the pods of the pass (nats/config.go:264-308).
THEOREM RoutesMatchPods == Spec => []OwnRoutesMatch
<1>1. IInv => OwnRoutesMatch
  BY DEF IInv
<1> QED BY <1>1, Invariance, PTL

\* Only the pass changes the StatefulSet, and nothing else in that step.
LEMMA SetSteps ==
  ASSUME IInv, [Next]_vars
  PROVE  set' = set \/ (StoreSet /\ UNCHANGED <<confs, misled>>)
<1>1. CASE sets' = sets
  BY <1>1 DEF set
<1>2. CASE sets' # sets
  <2>1. DeliverSet \/ Crash \/ WriteSet \/ CallFails
    BY <1>2 DEF Next, Calm, Begin, ReadConf, ReadConfAs, FindConf, WriteConf,
                ReadSet, ReadSetAs, Refused, ControllerEdits, DeliverConf,
                ReadFails, vars
  <2>2. CASE DeliverSet \/ Crash
    BY <2>2, SetFollows DEF DeliverSet, Crash, IInv
  <2>3. CASE WriteSet \/ CallFails
    BY <1>2, <2>3 DEF WriteSet, CallFails
  <2> QED BY <2>1, <2>2, <2>3
<1> QED BY <1>1, <1>2

\* What a write of the StatefulSet makes of it.
LEMMA StoreSetMakes ==
  ASSUME IInv, StoreSet
  PROVE  /\ pc = "writeSet" /\ conf.own = 0..(replicas - 1)
         /\ replicas \in Nat
         /\ set'.replicas = replicas /\ set'.restartedAt = stamp
         /\ \/ misled
            \/ replicas < set.replicas /\ stamp # set.restartedAt
            \/ ~(replicas < set.replicas) /\ stamp = set.restartedAt
<1> DEFINE s == [there |-> TRUE, replicas |-> replicas, restartedAt |-> stamp]
<1>1. TypeOK /\ StampKnown /\ OwnRoutesMatch
  BY DEF IInv
<1>2. pc = "writeSet" /\ PutSet(s)
  BY DEF StoreSet
<1>3. conf.own = 0..(replicas - 1)
  BY <1>1, <1>2 DEF OwnRoutesMatch
<1>4. s \in Set
  <2>1. stamp \in 0..MaxPasses
    BY <1>1, BoundsAssumption DEF TypeOK
  <2> QED BY <1>1, <2>1 DEF Set, TypeOK
<1>5. set' = s
  BY <1>1, <1>2, <1>4, PutSetEffect
<1>6. replicas \in Nat /\ replicas > 0 /\ set.replicas \in Nat
  <2>1. replicas \in ReplicaCounts /\ set.replicas \in ReplicaCounts \cup {0}
    BY <1>1, Ends DEF TypeOK, Set
  <2> QED BY <2>1, Positive
<1>7. ASSUME ~misled
      PROVE  \/ replicas < set.replicas /\ stamp # set.restartedAt
             \/ ~(replicas < set.replicas) /\ stamp = set.restartedAt
  <2>1. stamp = StampFor(set)
    BY <1>1, <1>2, <1>7 DEF StampKnown
  <2>2. set.restartedAt < pass
    BY <1>1, <1>2 DEF StampKnown
  <2>3. CASE replicas < set.replicas
    <3>1. set.there
      BY <1>1, <1>6, <2>3 DEF StampKnown
    <3>2. ScaleDown(set)
      BY <1>6, <2>3 DEF ScaleDown
    <3>3. stamp = pass
      BY <2>1, <3>1, <3>2 DEF StampFor
    <3>4. pass \in Nat /\ set.restartedAt \in Nat
      BY <1>1, Ends, BoundsAssumption DEF TypeOK, Set
    <3> QED BY <2>2, <2>3, <3>3, <3>4
  <2>4. CASE ~(replicas < set.replicas)
    <3>1. ~ScaleDown(set)
      BY <1>6, <2>4 DEF ScaleDown
    <3> QED BY <2>1, <2>4, <3>1 DEF StampFor
  <2> QED BY <2>3, <2>4
<1> QED BY <1>2, <1>3, <1>5, <1>6, <1>7

\* When the StatefulSet shrinks its pods restart, and server.conf has dropped the
\* routes to the pods that go (reconcile.go:813-834).
THEOREM ScaleDownRestarts == Spec => ShrinkingRestarts
<1> DEFINE Shrinks == set'.replicas < set.replicas
           Restarts == /\ \A i \in conf.own : i < set'.replicas
                       /\ set'.restartedAt # set.restartedAt \/ misled
<1>1. IInv /\ [Next]_vars => (Shrinks => Restarts)
  <2> SUFFICES ASSUME IInv, [Next]_vars, Shrinks
               PROVE  Restarts
    OBVIOUS
  <2>1. set.replicas \in Nat
    <3>1. set.replicas \in ReplicaCounts \cup {0}
      BY Ends DEF IInv, Set
    <3> QED BY <3>1, Positive
  <2>2. set' # set
    BY <2>1
  <2>3. StoreSet
    BY <2>2, SetSteps
  <2>4. /\ conf.own = 0..(replicas - 1) /\ replicas \in Nat
        /\ set'.replicas = replicas /\ set'.restartedAt = stamp
        /\ misled \/ stamp # set.restartedAt
    BY <2>3, StoreSetMakes
  <2>5. \A i \in conf.own : i < set'.replicas
    BY <2>4
  <2> QED BY <2>4, <2>5
<1>2. IInv /\ [Next]_vars => [Shrinks => Restarts]_vars
  BY <1>1
<1> QED BY <1>2, Invariance, PTL DEF Spec, ShrinkingRestarts

\* Nothing else restarts them (reconcile.go:830-833).
THEOREM RestartsAreNeeded == Spec => NoNeedlessRestart
<1> DEFINE Restarts == set'.restartedAt # set.restartedAt
           Needed == set'.replicas < set.replicas \/ misled
<1>1. IInv /\ [Next]_vars => (Restarts => Needed)
  <2> SUFFICES ASSUME IInv, [Next]_vars, Restarts
               PROVE  Needed
    OBVIOUS
  <2>1. StoreSet
    BY SetSteps
  <2> QED BY <2>1, StoreSetMakes
<1>2. IInv /\ [Next]_vars => [Restarts => Needed]_vars
  BY <1>1
<1> QED BY <1>2, Invariance, PTL DEF Spec, NoNeedlessRestart

\* A pass that reads the same config map twice overwrites no route of the
\* Controller: what it read is what is stored, or the Update is refused
\* (reconcile.go:743 and 788).
THEOREM UntornReadsKeepRoutes == Spec => OnlyTornReadsLoseRoutes
<1> DEFINE Untorn == pc = "writeConf" /\ pc' # pc /\ base = found
           Kept == conf'.agents = conf.agents
<1>1. IInv /\ [Next]_vars => (Untorn => Kept)
  <2> SUFFICES ASSUME IInv, [Next]_vars, Untorn
               PROVE  Kept
    OBVIOUS
  <2>1. TypeOK /\ ConfsKnown
    BY DEF IInv
  <2>2. StoreConf \/ confs' = confs \/ Crash
    BY DEF Next, Calm, Begin, ReadConf, ReadConfAs, FindConf, WriteConf, WriteSet,
           ReadSet, ReadSetAs, Refused, ControllerEdits, DeliverConf, DeliverSet,
           ReadFails, CallFails, vars
  <2>3. CASE confs' = confs
    BY <2>3 DEF conf
  <2>4. CASE Crash
    BY <2>1, <2>4, ConfFollows DEF Crash
  <2>5. CASE StoreConf
    <3>1. ConfAccepted /\ PutConf(Merged) /\ Merged.agents = base.agents
      BY <2>5 DEF StoreConf, Merged, Routes
    <3>2. base.agents = conf.agents
      <4>1. CASE found.there
        BY <2>1, <3>1, <4>1 DEF ConfAccepted, ConfsKnown
      <4>2. CASE ~found.there
        <5>1. ~conf.there
          BY <3>1, <4>2 DEF ConfAccepted
        <5>2. Real(conf)
          BY <2>1, Ends DEF ConfsKnown
        <5>3. found = NoConf /\ conf = NoConf
          BY <2>1, <4>2, <5>1, <5>2 DEF ConfsKnown, Real
        <5> QED BY <5>3
      <4> QED BY <4>1, <4>2
    <3>3. CASE Merged = conf
      BY <3>1, <3>3 DEF PutConf, conf
    <3>4. CASE Merged # conf
      <4>1. confs' = Append(confs, [Merged EXCEPT !.rv = @ + 1])
        BY <3>1, <3>4 DEF PutConf
      <4>2. conf' = [Merged EXCEPT !.rv = @ + 1]
        BY <2>1, <4>1 DEF conf, TypeOK
      <4>3. conf'.agents = Merged.agents
        BY <4>2 DEF Merged
      <4> QED BY <3>1, <3>2, <4>3
    <3> QED BY <3>3, <3>4
  <2> QED BY <2>2, <2>3, <2>4, <2>5
<1>2. IInv /\ [Next]_vars => [Untorn => Kept]_vars
  BY <1>1
<1> QED BY <1>2, Invariance, PTL DEF Spec, OnlyTornReadsLoseRoutes
=============================================================================
