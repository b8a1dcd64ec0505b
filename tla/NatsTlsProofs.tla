--------------------------- MODULE NatsTlsProofs ---------------------------
(***************************************************************************)
(* The inductive invariant of NatsTls and what follows from it, for any    *)
(* number of passes and any numbers of replicas.                           *)
(***************************************************************************)
EXTENDS NatsTls, VersionLemmas

CAs == Names \ ServerSecrets

\* A CA that some copy shows is the one that is stored: CAs are never deleted.
CopiesKept ==
  \A i \in 1..Len(versions) : \A n \in CAs :
    versions[i][n] # Missing => stored[n] = versions[i][n]

\* What is kept of a pass while it is not there.
Shape ==
  /\ pc # "create" => todo = << >>
  /\ pc # "look" => seen = << >>
  /\ pc # "idle" => pass >= 1
  /\ pc = "check" => ~compared

\* A CA that was seen is stored; a pass that was not misled has seen what is
\* stored and what is not.
SeenKept ==
  \A i \in 1..Len(seen) :
    /\ (seen[i] # Missing /\ i <= 2) => stored[Order[i]] = seen[i]
    /\ pass \notin misled => stored[Order[i]] = seen[i]

\* A server certificate that is yet to be created was generated by this pass,
\* for its replicas, and comes after the CA it needs; unless the pass is misled
\* it is signed by that CA, be it stored or to come.
ItemOK(i) ==
  LET name == todo[i].name
      secret == todo[i].secret
      before == 1..(i - 1)
  IN  /\ secret # Missing
      /\ name \in ServerSecrets =>
           /\ secret.key = pass /\ secret.hosts = replicas
           /\ \/ stored[CAOf[name]] # Missing
              \/ \E j \in before : todo[j].name = CAOf[name]
           /\ pass \notin misled =>
                IF stored[CAOf[name]] # Missing
                  THEN secret.signer = stored[CAOf[name]].key
                  ELSE \A j \in before : todo[j].name = CAOf[name] =>
                                           todo[j].secret.key = secret.signer

ItemsOK == \A i \in 1..Len(todo) : ItemOK(i)

\* Where a pass that was not misled stands with the site certificate.
SiteOK ==
  pass \notin misled =>
    LET site == stored["siteServer"]
    IN  /\ pc = "deleteSite" => site.hosts # replicas
        /\ pc = "deleteMqtt" => site = Missing
        /\ pc = "look" /\ compared => site = Missing \/ site.hosts = replicas
        /\ pc = "create" =>
             IF site # Missing
               THEN compared => site.hosts = replicas
               ELSE \E i \in 1..Len(todo) : todo[i].name = "siteServer"

IInv ==
  /\ TypeOK /\ CopiesKept /\ Shape /\ SeenKept /\ ItemsOK /\ SiteOK
  /\ CAFirst /\ OnlyStaleReadsBreakChains /\ SiteIsCurrent
-----------------------------------------------------------------------------
(***************************************************************************)
(* What the operations of SecretStore do.                                  *)
(***************************************************************************)

\* The ends of the queue are functions from names to secrets.
LEMMA Ends ==
  ASSUME StoreTypeOK
  PROVE  /\ versions \in Seq([Names -> Secret]) /\ versions # << >>
         /\ Len(versions) \in Nat /\ 1 \in 1..Len(versions)
         /\ cached = versions[1]
         /\ cached \in [Names -> Secret] /\ stored \in [Names -> Secret]
BY QueueEnds DEF StoreTypeOK, cached, stored

\* Nothing missing is a secret of this type, and a generated secret is one.
LEMMA SecretTypes ==
  ASSUME StoreTypeOK
  PROVE  /\ Missing \in Secret /\ SelfSigned \in Secret
         /\ \A ca \in Secret, h \in Nat : SignedBy(ca, h) \in Secret
         /\ pass >= 1 => /\ SelfSigned # Missing
                         /\ \A ca \in Secret, h \in Nat : SignedBy(ca, h) # Missing
BY PassesAssumption DEF StoreTypeOK, Missing, Secret, SelfSigned, SignedBy

\* A write changes one secret and appends at most one version.
LEMMA PutEffect ==
  ASSUME StoreTypeOK, NEW n \in Names, NEW c \in Secret, Put(n, c)
  PROVE  /\ versions' \in Seq([Names -> Secret]) /\ versions' # << >>
         /\ stored' = [stored EXCEPT ![n] = c]
         /\ \A i \in 1..Len(versions') :
              versions'[i] = stored' \/ \E j \in 1..Len(versions) : versions'[i] = versions[j]
<1> DEFINE new == [stored EXCEPT ![n] = c]
<1>1. new \in [Names -> Secret]
  BY Ends
<1>2. versions' = IF stored = new THEN versions ELSE Append(versions, new)
  BY Ends DEF Put
<1> HIDE DEF new
<1>3. /\ versions' \in Seq([Names -> Secret]) /\ versions' # << >>
      /\ versions'[Len(versions')] = new
      /\ \A i \in 1..Len(versions') :
           versions'[i] = new \/ \E j \in 1..Len(versions) : versions'[i] = versions[j]
  BY <1>1, <1>2, Ends, QueueWrite DEF stored
<1>4. stored' = new
  BY <1>3 DEF stored
<1> QED BY <1>3, <1>4 DEF new

\* The copy follows, or a new process lists the secrets.
LEMMA FollowEffect ==
  ASSUME StoreTypeOK, Follow \/ Relist
  PROVE  /\ versions' \in Seq([Names -> Secret]) /\ versions' # << >>
         /\ stored' = stored
         /\ \A i \in 1..Len(versions') :
              \E j \in 1..Len(versions) : versions'[i] = versions[j]
<1>1. (Len(versions) > 1 /\ versions' = Tail(versions)) \/ versions' = <<stored>>
  BY DEF Follow, Relist
<1> QED BY <1>1, Ends, QueueFollow DEF stored

\* A Create that finds something changes nothing.
LEMMA StoreNewEffect ==
  ASSUME StoreTypeOK, NEW n \in Names, NEW c \in Secret, StoreNew(n, c)
  PROVE  /\ versions' \in Seq([Names -> Secret]) /\ versions' # << >>
         /\ \/ stored[n] # Missing /\ stored' = stored
            \/ stored[n] = Missing /\ stored' = [stored EXCEPT ![n] = c]
         /\ \A i \in 1..Len(versions') :
              versions'[i] = stored' \/ \E j \in 1..Len(versions) : versions'[i] = versions[j]
<1>1. stored \in [Names -> Secret]
  BY Ends
<1>2. CASE stored[n] = Missing
  <2>1. Put(n, c)
    BY <1>2 DEF StoreNew
  <2> QED BY <1>2, <2>1, PutEffect
<1>3. CASE stored[n] # Missing
  <2>1. Put(n, stored[n]) /\ stored[n] \in Secret
    BY <1>1, <1>3 DEF StoreNew
  <2>2. stored' = [stored EXCEPT ![n] = stored[n]]
    BY <2>1, PutEffect
  <2> QED BY <1>1, <1>3, <2>1, <2>2, PutEffect
<1> QED BY <1>2, <1>3
-----------------------------------------------------------------------------
(***************************************************************************)
(* The steps.                                                              *)
(***************************************************************************)

\* The names in their order.
LEMMA OrderNames ==
  /\ Len(Order) = 4
  /\ \A i \in 1..4 : Order[i] \in Names
  /\ \A i \in 1..2 : Order[i] \in CAs
  /\ ServerSecrets \subseteq Names
  /\ \A s \in ServerSecrets : CAOf[s] \in CAs
  /\ "siteServer" \in ServerSecrets
BY NamesAssumption DEF Order, NatsSecrets, ServerSecrets, CAOf, CAs

\* The invariant holds at first.
LEMMA InitIInv ==
  ASSUME Init
  PROVE  IInv
<1> USE DEF Init, StoreInit
<1>1. Missing \in Secret
  BY PassesAssumption DEF Missing, Secret
<1>2. [n \in Names |-> Missing] \in [Names -> Secret]
  BY <1>1
<1>3. /\ versions \in Seq([Names -> Secret]) /\ versions # << >> /\ Len(versions) = 1
      /\ versions[Len(versions)] = [n \in Names |-> Missing]
      /\ \A i \in 1..Len(versions) : versions[i] = [n \in Names |-> Missing]
  BY <1>2, QueueRestart
<1>4. seen = << >> /\ todo = << >> /\ Len(seen) = 0 /\ Len(todo) = 0
  OBVIOUS
<1>5. TypeOK
  <2>1. compared \in BOOLEAN
    OBVIOUS
  <2>2. StoreTypeOK
    BY <1>3, PassesAssumption DEF StoreTypeOK
  <2>3. pc = "idle" /\ replicas = 2 /\ seen \in Seq(Secret) /\ todo \in Seq(Item)
    BY <1>4
  <2> QED BY <1>4, <2>1, <2>2, <2>3 DEF TypeOK
<1>6. \A n \in Names : stored[n] = Missing
  BY <1>3 DEF stored
<1>7. CopiesKept
  BY <1>3, <1>6 DEF CopiesKept, CAs
<1>8. CAFirst /\ OnlyStaleReadsBreakChains
  BY <1>6, OrderNames DEF CAFirst, OnlyStaleReadsBreakChains, ChainBroken
<1> QED
  BY <1>4, <1>5, <1>7, <1>8 DEF IInv, Shape, SeenKept, ItemsOK, SiteOK, SiteIsCurrent

\* What stays as it is when the store stays and no pass is forgiven.
LEMMA StoreStays ==
  ASSUME IInv, versions' = versions, misled \subseteq misled'
  PROVE  /\ stored' = stored
         /\ CopiesKept' /\ CAFirst' /\ OnlyStaleReadsBreakChains'
<1>1. stored' = stored
  BY DEF stored
<1> QED
  BY <1>1
     DEF IInv, CopiesKept, CAFirst, OnlyStaleReadsBreakChains, ChainBroken, Missing

\* A pass begins.
LEMMA BeginIInv ==
  ASSUME IInv, Begin
  PROVE  IInv'
<1> USE DEF IInv, Begin, BeginPass
<1>1. seen = << >> /\ todo = << >> /\ Len(seen) = 0 /\ Len(todo) = 0
  BY DEF Shape
<1>2. /\ stored' = stored
      /\ CopiesKept' /\ CAFirst' /\ OnlyStaleReadsBreakChains'
  BY StoreStays
<1>3. PICK n \in ReplicaCounts : replicas' = Replicas(n)
  OBVIOUS
<1>4. replicas' \in Nat /\ replicas' >= 2
  BY <1>3, ReplicasAssumption DEF Replicas
<1>5. TypeOK'
  <2>1. compared' \in BOOLEAN
    OBVIOUS
  <2>2. StoreTypeOK'
    BY PassesAssumption DEF TypeOK, StoreTypeOK
  <2>3. UNCHANGED <<seen, todo>> /\ pc' = "check"
    OBVIOUS
  <2> HIDE DEF IInv, Begin, BeginPass
  <2> QED BY <1>4, <2>1, <2>2, <2>3 DEF TypeOK, IInv
<1> QED
  BY <1>1, <1>2, <1>5, PassesAssumption
     DEF Shape, SeenKept, ItemsOK, SiteOK, SiteIsCurrent, TypeOK, StoreTypeOK

\* What a read does to a pass's record.
LEMMA Noticed ==
  ASSUME IInv, pc # "idle", NEW n \in Names, Noticing(n)
  PROVE  /\ misled \subseteq misled' /\ misled' \subseteq 1..MaxPasses
         /\ misled' \subseteq misled \cup {pass}
         /\ Read(n) \in Secret
         /\ pass \notin misled' => Read(n) = stored[n]
         /\ n \in CAs /\ Read(n) # Missing => stored[n] = Read(n)
<1>1. StoreTypeOK /\ pass \in 1..MaxPasses
  BY PassesAssumption DEF IInv, TypeOK, StoreTypeOK, Shape
<1>2. cached = versions[1] /\ 1 \in 1..Len(versions) /\ cached[n] \in Secret
  BY <1>1, Ends
<1> QED
  BY <1>1, <1>2 DEF Noticing, Read, IInv, CopiesKept, StoreTypeOK

\* The site certificate is looked at.
LEMMA CheckIInv ==
  ASSUME IInv, CheckReplicas
  PROVE  IInv'
<1> USE DEF IInv
<1>1. /\ pc = "check" /\ Noticing("siteServer") /\ "siteServer" \in Names
      /\ pc' = IF Stale(Read("siteServer")) THEN "deleteSite" ELSE "look"
      /\ compared' = TRUE /\ UNCHANGED <<versions, pass, replicas, seen, todo>>
  BY OrderNames DEF CheckReplicas
<1>2. seen = << >> /\ todo = << >> /\ Len(seen) = 0 /\ Len(todo) = 0
  BY <1>1 DEF Shape
<1>3. /\ misled \subseteq misled' /\ misled' \subseteq 1..MaxPasses
      /\ pass \notin misled' => Read("siteServer") = stored["siteServer"]
  BY <1>1, Noticed
<1>4. /\ stored' = stored
      /\ CopiesKept' /\ CAFirst' /\ OnlyStaleReadsBreakChains'
  BY <1>1, <1>3, StoreStays
<1>5. TypeOK'
  BY <1>1, <1>3 DEF TypeOK, StoreTypeOK
<1>6. SiteOK'
  BY <1>1, <1>3, <1>4 DEF SiteOK, Stale, Missing
<1> QED
  BY <1>1, <1>2, <1>4, <1>5, <1>6 DEF Shape, SeenKept, ItemsOK, SiteIsCurrent

\* It cannot be looked at.
LEMMA CheckFailsIInv ==
  ASSUME IInv, CheckFails
  PROVE  IInv'
<1> USE DEF IInv
<1>1. /\ pc = "check" /\ pc' = "look" /\ ~compared
      /\ UNCHANGED <<versions, pass, misled, replicas, compared, seen, todo>>
  BY DEF CheckFails, Shape
<1>2. seen = << >> /\ todo = << >> /\ Len(seen) = 0 /\ Len(todo) = 0
  BY <1>1 DEF Shape
<1>3. /\ stored' = stored
      /\ CopiesKept' /\ CAFirst' /\ OnlyStaleReadsBreakChains'
  BY <1>1, StoreStays
<1>4. TypeOK' /\ SiteOK'
  BY <1>1, <1>3 DEF TypeOK, StoreTypeOK, SiteOK, Missing
<1> QED
  BY <1>1, <1>2, <1>3, <1>4 DEF Shape, SeenKept, ItemsOK, SiteIsCurrent

\* A secret is read.
LEMMA LookIInv ==
  ASSUME IInv, Look
  PROVE  IInv'
<1> USE DEF IInv
<1> DEFINE n == Order[Len(seen) + 1]
           c == Read(n)
<1>1. /\ pc = "look" /\ Len(seen) \in Nat /\ Len(seen) < 4 /\ n \in Names
      /\ seen \in Seq(Secret)
      /\ seen' = Append(seen, c) /\ Noticing(n)
      /\ UNCHANGED <<versions, pass, pc, replicas, compared, todo>>
  BY OrderNames DEF Look, TypeOK
<1>2. todo = << >> /\ Len(todo) = 0
  BY <1>1 DEF Shape
<1>3. /\ misled \subseteq misled' /\ misled' \subseteq 1..MaxPasses
      /\ c \in Secret
      /\ pass \notin misled' => c = stored[n]
      /\ n \in CAs /\ c # Missing => stored[n] = c
  BY <1>1, Noticed
<1>4. /\ seen' \in Seq(Secret) /\ Len(seen') = Len(seen) + 1
      /\ seen'[Len(seen) + 1] = c
      /\ \A i \in 1..Len(seen) : seen'[i] = seen[i]
  BY <1>1, <1>3
<1>5. /\ stored' = stored
      /\ CopiesKept' /\ CAFirst' /\ OnlyStaleReadsBreakChains'
  BY <1>1, <1>3, StoreStays
<1>6. TypeOK'
  BY <1>1, <1>3, <1>4 DEF TypeOK, StoreTypeOK
<1>7. SeenKept'
  <2> SUFFICES ASSUME NEW i \in 1..Len(seen')
               PROVE  /\ (seen'[i] # Missing /\ i <= 2) => stored[Order[i]] = seen'[i]
                      /\ pass \notin misled' => stored[Order[i]] = seen'[i]
    BY <1>1, <1>5 DEF SeenKept, Missing
  <2>1. CASE i \in 1..Len(seen)
    BY <2>1, <1>3, <1>4 DEF SeenKept
  <2>2. CASE i = Len(seen) + 1
    <3>1. i <= 2 => n \in CAs
      BY <1>1, <2>2, OrderNames
    <3> QED BY <2>2, <3>1, <1>3, <1>4
  <2> QED BY <1>1, <1>4, <2>1, <2>2
<1>8. Shape' /\ ItemsOK' /\ SiteIsCurrent'
  BY <1>1, <1>2 DEF Shape, ItemsOK, SiteIsCurrent
<1>9. SiteOK'
  BY <1>1, <1>3, <1>5 DEF SiteOK, Missing
<1> QED BY <1>5, <1>6, <1>7, <1>8, <1>9

\* A certificate that goes takes nothing else with it.
LEMMA Deleted ==
  ASSUME IInv, NEW n \in ServerSecrets, Put(n, Missing), UNCHANGED <<pass, misled>>
  PROVE  /\ StoreTypeOK'
         /\ stored' = [stored EXCEPT ![n] = Missing] /\ stored'[n] = Missing
         /\ \A m \in Names : m # n => stored'[m] = stored[m]
         /\ CopiesKept' /\ CAFirst' /\ OnlyStaleReadsBreakChains'
<1> USE DEF IInv
<1>1. StoreTypeOK /\ n \in Names /\ Missing \in Secret
  BY SecretTypes, OrderNames DEF TypeOK
<1>2. /\ versions' \in Seq([Names -> Secret]) /\ versions' # << >>
      /\ stored' = [stored EXCEPT ![n] = Missing]
      /\ \A i \in 1..Len(versions') :
           versions'[i] = stored' \/ \E j \in 1..Len(versions) : versions'[i] = versions[j]
  BY <1>1, PutEffect
<1>3. /\ stored \in [Names -> Secret] /\ stored'[n] = Missing
      /\ \A m \in Names : m # n => stored'[m] = stored[m]
      /\ \A m \in CAs : stored'[m] = stored[m]
  BY <1>1, <1>2, Ends DEF CAs
<1>4. StoreTypeOK'
  BY <1>1, <1>2 DEF StoreTypeOK
<1>5. CopiesKept'
  BY <1>2, <1>3 DEF CopiesKept, CAs, Missing
<1>6. CAFirst' /\ OnlyStaleReadsBreakChains'
  <2> SUFFICES ASSUME NEW s \in ServerSecrets, stored'[s] # Missing
               PROVE  /\ stored'[CAOf[s]] # Missing
                      /\ ChainBroken(s)' => stored'[s].key \in misled
    BY DEF CAFirst, OnlyStaleReadsBreakChains, ChainBroken, Missing
  <2>1. s \in Names /\ CAOf[s] \in CAs
    BY OrderNames
  <2>2. stored'[s] = stored[s] /\ stored'[CAOf[s]] = stored[CAOf[s]]
    BY <1>3, <2>1
  <2> QED BY <2>2 DEF CAFirst, OnlyStaleReadsBreakChains, ChainBroken, Missing
<1> QED BY <1>2, <1>3, <1>4, <1>5, <1>6

\* The certificates are deleted.
LEMMA DeleteIInv ==
  ASSUME IInv, DeleteSite \/ DeleteMqtt
  PROVE  IInv'
<1> USE DEF IInv
<1>1. PICK n \in ServerSecrets :
        /\ Put(n, Missing)
        /\ \/ n = "siteServer" /\ pc = "deleteSite" /\ pc' = "deleteMqtt"
           \/ n = "mqttServer" /\ pc = "deleteMqtt" /\ pc' = "look"
  BY DEF DeleteSite, DeleteMqtt, Remove, ServerSecrets
<1>2. UNCHANGED <<pass, misled, replicas, compared, seen, todo>>
  BY DEF DeleteSite, DeleteMqtt, Remove
<1>3. seen = << >> /\ todo = << >> /\ Len(seen) = 0 /\ Len(todo) = 0
  BY <1>1 DEF Shape
<1>4. /\ StoreTypeOK' /\ stored'[n] = Missing
      /\ \A m \in Names : m # n => stored'[m] = stored[m]
      /\ CopiesKept' /\ CAFirst' /\ OnlyStaleReadsBreakChains'
  BY <1>1, <1>2, Deleted
<1>5. SiteOK'
  <2>1. "siteServer" \in Names
    BY OrderNames
  <2> QED BY <1>1, <1>2, <1>4, <2>1 DEF SiteOK, Missing
<1> QED
  BY <1>1, <1>2, <1>3, <1>4, <1>5
     DEF TypeOK, Shape, SeenKept, ItemsOK, SiteIsCurrent

\* The secret that goes under a name nothing was seen under.
LEMMA GeneratedOK ==
  ASSUME IInv, pc = "look", Len(seen) = 4, NEW i \in 1..4
  PROVE  /\ Generated[i] \in Secret /\ Generated[i] # Missing
         /\ Generated[i].key = pass \/ (i <= 2 /\ seen[i] # Missing)
         /\ (i <= 2 /\ seen[i] # Missing) => Generated[i] = stored[Order[i]]
         /\ i > 2 => /\ Generated[i].signer = Generated[i - 2].key
                     /\ Generated[i].hosts = replicas
         /\ pass \notin misled => (seen[i] = Missing <=> stored[Order[i]] = Missing)
<1> USE DEF IInv
<1>1. /\ StoreTypeOK /\ pass \in 1..MaxPasses /\ replicas \in Nat
      /\ \A j \in 1..4 : seen[j] \in Secret
  <2>1. StoreTypeOK /\ pass \in 0..MaxPasses /\ pass >= 1 /\ seen \in Seq(Secret) /\ replicas \in Nat
    BY DEF TypeOK, StoreTypeOK, Shape
  <2>2. \A j \in 1..Len(seen) : seen[j] \in Secret
    BY <2>1, ElementOfSeq
  <2> QED BY <2>1, <2>2, PassesAssumption
<1>2. /\ SelfSigned \in Secret /\ SelfSigned # Missing /\ SelfSigned.key = pass
  BY <1>1, SecretTypes DEF SelfSigned
<1>3. ASSUME NEW ca \in Secret
      PROVE  /\ SignedBy(ca, replicas) \in Secret /\ SignedBy(ca, replicas) # Missing
             /\ SignedBy(ca, replicas).key = pass
             /\ SignedBy(ca, replicas).signer = ca.key
             /\ SignedBy(ca, replicas).hosts = replicas
  <2>1. pass >= 1
    BY <1>1
  <2>2. SignedBy(ca, replicas) \in Secret /\ SignedBy(ca, replicas) # Missing
    BY <1>1, <2>1, SecretTypes
  <2> QED BY <2>2 DEF SignedBy
<1>4. ASSUME NEW j \in 1..2
      PROVE  /\ CA(j) \in Secret /\ CA(j) # Missing
             /\ seen[j] = Missing => CA(j).key = pass
             /\ seen[j] # Missing => CA(j) = stored[Order[j]]
  <2>1. j \in 1..Len(seen)
    OBVIOUS
  <2>2. seen[j] # Missing => stored[Order[j]] = seen[j]
    BY <2>1 DEF SeenKept
  <2> QED BY <1>1, <1>2, <2>2 DEF CA
<1>5. /\ Generated[1] = CA(1) /\ Generated[2] = CA(2)
      /\ Generated[3] = SignedBy(CA(1), replicas)
      /\ Generated[4] = SignedBy(CA(2), replicas)
  BY DEF Generated
<1>6. pass \notin misled => (seen[i] = Missing <=> stored[Order[i]] = Missing)
  <2>1. i \in 1..Len(seen)
    OBVIOUS
  <2> QED BY <2>1 DEF SeenKept
<1>7. CA(1) \in Secret /\ CA(2) \in Secret
  BY <1>4
<1>8. CASE i = 1
  BY <1>8, <1>4, <1>5, <1>6
<1>9. CASE i = 2
  BY <1>9, <1>4, <1>5, <1>6
<1>10. CASE i = 3
  BY <1>10, <1>3, <1>5, <1>6, <1>7
<1>11. CASE i = 4
  BY <1>11, <1>3, <1>5, <1>6, <1>7
<1> QED BY <1>8, <1>9, <1>10, <1>11

\* What the first m names contribute to the list: one secret for each name
\* nothing was seen under, in their order.
NewItem(i) == [name |-> Order[i], secret |-> Generated[i]]

Contribution(i) == IF seen[i] = Missing THEN <<NewItem(i)>> ELSE << >>

UpTo(m, q) ==
  /\ q \in Seq(Item) /\ Len(q) <= m
  /\ \A k \in 1..Len(q) : \E i \in 1..m :
       /\ seen[i] = Missing /\ q[k] = NewItem(i)
       /\ \A h \in 1..(i - 1) :
            seen[h] = Missing => \E j \in 1..(k - 1) : q[j] = NewItem(h)
  /\ \A i \in 1..m : seen[i] = Missing => \E k \in 1..Len(q) : q[k] = NewItem(i)

\* The list for the first m names, with what the next name adds, is the list
\* for one name more.
LEMMA OneMore ==
  ASSUME IInv, pc = "look", Len(seen) = 4,
         NEW m \in 0..3, NEW q, UpTo(m, q), NEW r, r = q \o Contribution(m + 1)
  PROVE  UpTo(m + 1, r)
<1>1. NewItem(m + 1) \in Item
  <2>1. m + 1 \in 1..4
    OBVIOUS
  <2>2. Generated[m + 1] \in Secret /\ Order[m + 1] \in Names
    BY <2>1, GeneratedOK, OrderNames
  <2> QED BY <2>2 DEF NewItem, Item
<1>2. q \in Seq(Item) /\ Len(q) \in Nat /\ Len(q) <= m
  BY DEF UpTo
<1>3. CASE seen[m + 1] # Missing
  <2>1. r = q
    BY <1>2, <1>3, ConcatEmptySeq DEF Contribution
  <2>2. /\ \A i \in 1..(m + 1) : seen[i] = Missing => i \in 1..m
        /\ \A i \in 1..m : i \in 1..(m + 1)
    BY <1>3
  <2>3. \A i \in 1..(m + 1) : seen[i] = Missing => \E k \in 1..Len(q) : q[k] = NewItem(i)
    BY <2>2 DEF UpTo
  <2>4. \A k \in 1..Len(q) : \E i \in 1..(m + 1) :
          /\ seen[i] = Missing /\ q[k] = NewItem(i)
          /\ \A h \in 1..(i - 1) :
               seen[h] = Missing => \E j \in 1..(k - 1) : q[j] = NewItem(h)
    BY <2>2 DEF UpTo
  <2>5. Len(q) <= m + 1
    BY <1>2
  <2>6. UpTo(m + 1, q)
    BY <1>2, <2>3, <2>4, <2>5 DEF UpTo
  <2> QED BY <2>1, <2>6
<1>4. CASE seen[m + 1] = Missing
  <2> DEFINE e == NewItem(m + 1)
  <2>1. r = Append(q, e)
    BY <1>1, <1>2, <1>4, AppendIsConcat DEF Contribution
  <2>6. e \in Item /\ e = NewItem(m + 1)
    BY <1>1
  <2> HIDE DEF e
  <2>2. /\ r \in Seq(Item) /\ Len(r) = Len(q) + 1 /\ r[Len(q) + 1] = e
        /\ \A k \in 1..Len(q) : r[k] = q[k]
    <3>1. q \in Seq(Item) /\ e \in Item
      BY <1>2, <2>6
    <3>2. /\ Append(q, e) \in Seq(Item)
          /\ Len(Append(q, e)) = Len(q) + 1
          /\ \A k \in 1..Len(q) : Append(q, e)[k] = q[k]
          /\ Append(q, e)[Len(q) + 1] = e
      BY <3>1, AppendProperties
    <3> QED BY <2>1, <3>2
  <2>3. ASSUME NEW k \in 1..Len(r)
        PROVE  \E i \in 1..(m + 1) :
                 /\ seen[i] = Missing /\ r[k] = NewItem(i)
                 /\ \A h \in 1..(i - 1) :
                      seen[h] = Missing => \E j \in 1..(k - 1) : r[j] = NewItem(h)
    <3>1. CASE k \in 1..Len(q)
      <4>1. PICK i \in 1..m :
              /\ seen[i] = Missing /\ q[k] = NewItem(i)
              /\ \A h \in 1..(i - 1) :
                   seen[h] = Missing => \E j \in 1..(k - 1) : q[j] = NewItem(h)
        BY <3>1 DEF UpTo
      <4>2. \A j \in 1..(k - 1) : r[j] = q[j]
        BY <1>2, <2>2, <3>1
      <4>3. r[k] = q[k] /\ i \in 1..(m + 1)
        BY <1>2, <2>2, <3>1
      <4> QED BY <4>1, <4>2, <4>3
    <3>2. CASE k = Len(q) + 1
      <4>1. \A h \in 1..m : seen[h] = Missing => \E j \in 1..(k - 1) : r[j] = NewItem(h)
        BY <1>2, <2>2, <3>2 DEF UpTo
      <4>2. (m + 1) - 1 = m /\ m + 1 \in 1..(m + 1)
        OBVIOUS
      <4>3. r[k] = NewItem(m + 1)
        BY <2>2, <2>6, <3>2
      <4> WITNESS m + 1 \in 1..(m + 1)
      <4> QED BY <1>4, <4>1, <4>2, <4>3
    <3>3. k \in 1..Len(q) \/ k = Len(q) + 1
      BY <1>2, <2>2
    <3> QED BY <3>1, <3>2, <3>3
  <2>4. ASSUME NEW i \in 1..(m + 1), seen[i] = Missing
        PROVE  \E k \in 1..Len(r) : r[k] = NewItem(i)
    <3>1. CASE i \in 1..m
      <4>1. PICK k \in 1..Len(q) : q[k] = NewItem(i)
        BY <2>4, <3>1 DEF UpTo
      <4>2. k \in 1..Len(r) /\ r[k] = NewItem(i)
        BY <1>2, <2>2, <4>1
      <4> QED BY <4>2
    <3>2. CASE i = m + 1
      <4>1. Len(q) + 1 \in 1..Len(r) /\ r[Len(q) + 1] = NewItem(i)
        BY <1>2, <2>2, <2>6, <3>2
      <4> QED BY <4>1
    <3> QED BY <3>1, <3>2
  <2>5. Len(r) <= m + 1
    BY <1>2, <2>2
  <2> QED BY <2>2, <2>3, <2>4, <2>5 DEF UpTo
<1> QED BY <1>3, <1>4

\* What Lacking puts together is the list for all four names.
LEMMA LackingShape ==
  ASSUME IInv, pc = "look", Len(seen) = 4
  PROVE  UpTo(4, Lacking)
<1> DEFINE q1 == << >> \o Contribution(1)
           q2 == q1 \o Contribution(2)
           q3 == q2 \o Contribution(3)
           q4 == q3 \o Contribution(4)
<1>1. UpTo(0, << >>)
  BY EmptySeq DEF UpTo
<1>2. Contribution(1) = q1
  <2>1. NewItem(1) \in Item
    BY GeneratedOK, OrderNames DEF NewItem, Item
  <2>2. Contribution(1) \in Seq(Item)
    BY <2>1 DEF Contribution
  <2> QED BY <2>2, ConcatEmptySeq
<1>3. Lacking = q4
  BY <1>2 DEF Lacking, Contribution, NewItem
<1>4. UpTo(0 + 1, q1)
  <2> HIDE DEF q1
  <2>1. 0 \in 0..3 /\ q1 = << >> \o Contribution(0 + 1)
    BY DEF q1
  <2> QED BY <1>1, <2>1, OneMore
<1>5. UpTo(1 + 1, q2)
  <2> HIDE DEF q1, q2
  <2>1. 1 \in 0..3 /\ q2 = q1 \o Contribution(1 + 1) /\ UpTo(1, q1)
    BY <1>4 DEF q2
  <2> QED BY <2>1, OneMore
<1>6. UpTo(2 + 1, q3)
  <2> HIDE DEF q2, q3
  <2>1. 2 \in 0..3 /\ q3 = q2 \o Contribution(2 + 1) /\ UpTo(2, q2)
    BY <1>5 DEF q3
  <2> QED BY <2>1, OneMore
<1>7. UpTo(3 + 1, q4)
  <2> HIDE DEF q3, q4
  <2>1. 3 \in 0..3 /\ q4 = q3 \o Contribution(3 + 1) /\ UpTo(3, q3)
    BY <1>6 DEF q4
  <2> QED BY <2>1, OneMore
<1> HIDE DEF q4
<1> QED BY <1>3, <1>7

\* The secrets that are lacking are put together.
LEMMA GenerateIInv ==
  ASSUME IInv, Generate
  PROVE  IInv'
<1> USE DEF IInv
<1>1. /\ pc = "look" /\ Len(seen) = 4 /\ pc' = "create" /\ seen' = << >> /\ Len(seen') = 0
      /\ todo' = Lacking
      /\ UNCHANGED <<versions, pass, misled, replicas, compared>>
      /\ pass >= 1
  BY OrderNames DEF Generate, Shape
<1>2. /\ stored' = stored
      /\ CopiesKept' /\ CAFirst' /\ OnlyStaleReadsBreakChains'
  BY <1>1, StoreStays
<1>3. UpTo(4, Lacking)
  BY <1>1, LackingShape
<1>4. Lacking \in Seq(Item) /\ Len(Lacking) <= 4
  BY <1>3 DEF UpTo
<1>5. TypeOK' /\ Shape' /\ SeenKept' /\ SiteIsCurrent'
  BY <1>1, <1>4 DEF TypeOK, StoreTypeOK, Shape, SeenKept, SiteIsCurrent
<1>6. ItemsOK'
  <2> SUFFICES ASSUME NEW k \in 1..Len(Lacking)
               PROVE  ItemOK(k)'
    BY <1>1 DEF ItemsOK
  <2>1. PICK i \in 1..4 :
          /\ seen[i] = Missing /\ Lacking[k] = NewItem(i)
          /\ \A h \in 1..(i - 1) :
               seen[h] = Missing => \E j \in 1..(k - 1) : Lacking[j] = NewItem(h)
    BY <1>3 DEF UpTo
  <2>2. /\ Lacking[k].name = Order[i] /\ Lacking[k].secret = Generated[i]
        /\ Generated[i] # Missing /\ Generated[i].key = pass
    BY <1>1, <2>1, GeneratedOK DEF NewItem
  <2>3. CASE i <= 2
    <3>1. Order[i] \notin ServerSecrets
      BY <2>3 DEF Order, ServerSecrets
    <3> QED BY <1>1, <2>2, <3>1 DEF ItemOK, Missing
  <2>4. CASE i > 2
    <3> DEFINE ca == Order[i - 2]
    <3>1. /\ i - 2 \in 1..4 /\ i - 2 \in 1..(i - 1) /\ i - 2 <= 2
          /\ Order[i] \in ServerSecrets /\ CAOf[Order[i]] = ca
          /\ \A j \in 1..4 : Order[j] = ca => j = i - 2
      BY <2>4 DEF Order, ServerSecrets, CAOf
    <3>2. /\ Generated[i].signer = Generated[i - 2].key /\ Generated[i].hosts = replicas
          /\ seen[i - 2] # Missing =>
               Generated[i - 2] = stored[ca] /\ Generated[i - 2] # Missing
          /\ pass \notin misled => (seen[i - 2] = Missing <=> stored[ca] = Missing)
      BY <1>1, <2>4, <3>1, GeneratedOK
    <3>3. stored[ca] # Missing \/ \E j \in 1..(k - 1) : Lacking[j].name = ca
      <4>1. CASE seen[i - 2] # Missing
        BY <3>2, <4>1
      <4>2. CASE seen[i - 2] = Missing
        <5>1. PICK j \in 1..(k - 1) : Lacking[j] = NewItem(i - 2)
          BY <2>1, <3>1, <4>2
        <5>2. Lacking[j].name = ca
          BY <5>1 DEF NewItem
        <5> QED BY <5>2
      <4> QED BY <4>1, <4>2
    <3>4. ASSUME pass \notin misled
          PROVE  IF stored[ca] # Missing
                   THEN Generated[i].signer = stored[ca].key
                   ELSE \A j \in 1..(k - 1) : Lacking[j].name = ca =>
                          Lacking[j].secret.key = Generated[i].signer
      <4>1. ASSUME NEW j \in 1..(k - 1), Lacking[j].name = ca
            PROVE  Lacking[j].secret = Generated[i - 2]
        <5>1. j \in 1..Len(Lacking)
          BY <1>4
        <5>2. PICK h \in 1..4 : Lacking[j] = NewItem(h)
          BY <1>3, <5>1 DEF UpTo
        <5>3. Order[h] = ca /\ Lacking[j].secret = Generated[h]
          BY <4>1, <5>2 DEF NewItem
        <5> QED BY <3>1, <5>3
      <4> QED BY <3>2, <3>4, <4>1
    <3> QED BY <1>1, <1>2, <2>2, <3>1, <3>2, <3>3, <3>4 DEF ItemOK, Missing
  <2> QED BY <2>1, <2>3, <2>4
<1>7. SiteOK'
  <2> SUFFICES ASSUME pass \notin misled
               PROVE  IF stored["siteServer"] # Missing
                        THEN compared => stored["siteServer"].hosts = replicas
                        ELSE \E k \in 1..Len(Lacking) : Lacking[k].name = "siteServer"
    BY <1>1, <1>2 DEF SiteOK, Missing
  <2>1. CASE stored["siteServer"] # Missing
    BY <1>1, <2>1 DEF SiteOK
  <2>2. CASE stored["siteServer"] = Missing
    <3>1. 3 \in 1..4 /\ Order[3] = "siteServer"
      BY DEF Order
    <3>2. seen[3] = Missing
      BY <1>1, <2>2, <3>1, GeneratedOK
    <3>3. PICK k \in 1..Len(Lacking) : Lacking[k] = NewItem(3)
      BY <1>3, <3>1, <3>2 DEF UpTo
    <3>4. Lacking[k].name = "siteServer"
      BY <3>1, <3>3 DEF NewItem
    <3> QED BY <2>2, <3>4
  <2> QED BY <2>1, <2>2
<1> QED BY <1>2, <1>5, <1>6, <1>7

\* What storing the secret at the head of the list does.
LEMMA HeadStored ==
  ASSUME IInv, todo # << >>, UNCHANGED <<pass, misled>>,
         StoreNew(Head(todo).name, Head(todo).secret)
  PROVE  /\ StoreTypeOK'
         /\ \/ stored[Head(todo).name] # Missing /\ stored' = stored
            \/ /\ stored[Head(todo).name] = Missing
               /\ stored' = [stored EXCEPT ![Head(todo).name] = Head(todo).secret]
         /\ stored \in [Names -> Secret] /\ Head(todo).name \in Names
         /\ Head(todo).secret # Missing
         /\ CopiesKept' /\ CAFirst' /\ OnlyStaleReadsBreakChains'
<1> USE DEF IInv
<1> DEFINE n == Head(todo).name
           c == Head(todo).secret
<1>1. /\ stored \in [Names -> Secret] /\ 1 \in 1..Len(todo) /\ Head(todo) = todo[1]
      /\ n \in Names /\ c \in Secret /\ StoreTypeOK
  <2>1. StoreTypeOK /\ todo \in Seq(Item)
    BY DEF TypeOK
  <2>2. 1 \in 1..Len(todo) /\ Head(todo) = todo[1] /\ Head(todo) \in Item
    BY <2>1, QueueEnds
  <2> QED BY <2>1, <2>2, Ends DEF Item
<1>2. /\ versions' \in Seq([Names -> Secret]) /\ versions' # << >>
      /\ \/ stored[n] # Missing /\ stored' = stored
         \/ stored[n] = Missing /\ stored' = [stored EXCEPT ![n] = c]
      /\ \A i \in 1..Len(versions') :
           versions'[i] = stored' \/ \E j \in 1..Len(versions) : versions'[i] = versions[j]
  BY <1>1, StoreNewEffect
<1>3. \A m \in Names : stored[m] # Missing => stored'[m] = stored[m]
  BY <1>1, <1>2
<1>4. CopiesKept'
  BY <1>2, <1>3 DEF CopiesKept, CAs, Missing
<1>5. ItemOK(1)
  BY <1>1 DEF ItemsOK
<1>6. ASSUME NEW s \in ServerSecrets, stored'[s] # Missing
      PROVE  /\ stored'[CAOf[s]] # Missing
             /\ ChainBroken(s)' => stored'[s].key \in misled
  <2>1. s \in Names /\ CAOf[s] \in Names
    BY OrderNames DEF CAs
  <2>2. CASE stored[s] # Missing
    <3>1. stored[CAOf[s]] # Missing
      BY <2>2 DEF CAFirst
    <3>2. stored'[s] = stored[s] /\ stored'[CAOf[s]] = stored[CAOf[s]]
      BY <1>3, <2>1, <2>2, <3>1
    <3> QED BY <2>2, <3>1, <3>2 DEF OnlyStaleReadsBreakChains, ChainBroken, Missing
  <2>3. CASE stored[s] = Missing
    <3>1. s = n /\ stored'[s] = c
      BY <1>1, <1>2, <1>6, <2>1, <2>3
    <3>2. stored[CAOf[s]] # Missing
      BY <1>1, <1>5, <3>1 DEF ItemOK
    <3>3. stored'[CAOf[s]] = stored[CAOf[s]]
      BY <1>3, <2>1, <3>2
    <3>4. c.key = pass /\ (pass \notin misled => c.signer = stored[CAOf[s]].key)
      BY <1>1, <1>5, <3>1, <3>2 DEF ItemOK
    <3> QED BY <3>1, <3>2, <3>3, <3>4 DEF ChainBroken, Missing
  <2> QED BY <2>2, <2>3
<1>7. StoreTypeOK' /\ c # Missing
  BY <1>1, <1>2, <1>5 DEF StoreTypeOK, ItemOK
<1> QED
  BY <1>1, <1>2, <1>4, <1>6, <1>7
     DEF CAFirst, OnlyStaleReadsBreakChains, ChainBroken, Missing

\* The loop goes on to the next secret.
LEMMA CreateIInv ==
  ASSUME IInv, CreateSecret
  PROVE  IInv'
<1> USE DEF IInv
<1> DEFINE n == Head(todo).name
           c == Head(todo).secret
<1>1. /\ pc = "create" /\ todo # << >> /\ todo' = Tail(todo) /\ StoreNew(n, c)
      /\ UNCHANGED <<pass, misled, pc, replicas, compared, seen>>
      /\ seen = << >> /\ Len(seen) = 0
  BY DEF CreateSecret, Shape
<1>2. /\ StoreTypeOK'
      /\ \/ stored[n] # Missing /\ stored' = stored
         \/ stored[n] = Missing /\ stored' = [stored EXCEPT ![n] = c]
      /\ stored \in [Names -> Secret] /\ n \in Names /\ c # Missing
      /\ CopiesKept' /\ CAFirst' /\ OnlyStaleReadsBreakChains'
  BY <1>1, HeadStored
<1>3. todo \in Seq(Item)
  BY DEF TypeOK
<1>4. /\ Len(todo) \in Nat /\ 1 \in 1..Len(todo) /\ Head(todo) = todo[1]
  BY <1>1, <1>3, QueueEnds
<1>5. /\ todo' \in Seq(Item) /\ Len(todo') = Len(todo) - 1
      /\ \A i \in 1..Len(todo') : todo'[i] = todo[i + 1]
  BY <1>1, <1>3, HeadTailProperties
<1>6. TypeOK'
  BY <1>1, <1>2, <1>4, <1>5 DEF TypeOK
<1>7. Shape' /\ SeenKept' /\ SiteIsCurrent'
  BY <1>1 DEF Shape, SeenKept, SiteIsCurrent
<1>8. /\ \A m \in Names : stored[m] # Missing => stored'[m] = stored[m]
      /\ \A m \in Names : m # n => stored'[m] = stored[m]
      /\ stored'[n] # Missing
      /\ stored[n] = Missing => stored'[n] = c
  BY <1>2
<1>9. ItemsOK'
  <2> SUFFICES ASSUME NEW i \in 1..Len(todo')
               PROVE  ItemOK(i)'
    BY DEF ItemsOK
  <2> DEFINE name == todo[i + 1].name
             secret == todo[i + 1].secret
             ca == CAOf[name]
  <2>1. i + 1 \in 1..Len(todo) /\ todo'[i] = todo[i + 1]
    BY <1>4, <1>5
  <2>2. ItemOK(i + 1)
    BY <2>1 DEF ItemsOK
  <2>3. secret # Missing
    BY <2>2 DEF ItemOK
  <2>4. CASE name \notin ServerSecrets
    BY <2>1, <2>3, <2>4 DEF ItemOK, Missing
  <2>5. CASE name \in ServerSecrets
    <3>1. ca \in Names
      BY <2>5, OrderNames DEF CAs
    <3>2. /\ secret.key = pass /\ secret.hosts = replicas
          /\ stored[ca] # Missing \/ \E j \in 1..i : todo[j].name = ca
          /\ pass \notin misled =>
               IF stored[ca] # Missing
                 THEN secret.signer = stored[ca].key
                 ELSE \A j \in 1..i : todo[j].name = ca =>
                                        todo[j].secret.key = secret.signer
      BY <2>1, <2>2, <2>5 DEF ItemOK
    <3>3. \A j \in 1..(i - 1) : j + 1 \in 1..i /\ todo'[j] = todo[j + 1]
      BY <1>4, <1>5
    <3>4. \A j \in 1..i : j = 1 \/ (j - 1 \in 1..(i - 1) /\ todo'[j - 1] = todo[j])
      BY <1>4, <1>5
    <3>5. stored'[ca] # Missing \/ \E j \in 1..(i - 1) : todo'[j].name = ca
      BY <1>4, <1>8, <3>1, <3>2, <3>4
    <3>6. ASSUME pass \notin misled
          PROVE  IF stored'[ca] # Missing
                   THEN secret.signer = stored'[ca].key
                   ELSE \A j \in 1..(i - 1) : todo'[j].name = ca =>
                                                todo'[j].secret.key = secret.signer
      <4>1. CASE stored[ca] # Missing
        BY <1>8, <3>1, <3>2, <3>6, <4>1
      <4>2. CASE stored[ca] = Missing /\ stored'[ca] # Missing
        <5>1. ca = n /\ stored'[ca] = todo[1].secret /\ todo[1].name = ca
          BY <1>4, <1>8, <3>1, <4>2
        <5>2. 1 \in 1..i
          OBVIOUS
        <5> QED BY <3>2, <3>6, <4>2, <5>1, <5>2
      <4>3. CASE stored[ca] = Missing /\ stored'[ca] = Missing
        BY <3>2, <3>3, <3>6, <4>3
      <4> QED BY <4>1, <4>2, <4>3
    <3> QED BY <1>1, <2>1, <2>3, <3>2, <3>5, <3>6 DEF ItemOK, Missing
  <2> QED BY <2>4, <2>5
<1>10. SiteOK'
  <2> SUFFICES ASSUME pass \notin misled
               PROVE  IF stored'["siteServer"] # Missing
                        THEN compared => stored'["siteServer"].hosts = replicas
                        ELSE \E i \in 1..Len(todo') : todo'[i].name = "siteServer"
    BY <1>1 DEF SiteOK, Missing
  <2>1. "siteServer" \in Names /\ "siteServer" \in ServerSecrets
    BY OrderNames
  <2>2. CASE stored["siteServer"] # Missing
    BY <1>1, <1>8, <2>1, <2>2 DEF SiteOK
  <2>3. CASE stored["siteServer"] = Missing /\ n = "siteServer"
    <3>1. c.hosts = replicas
      <4>1. ItemOK(1)
        BY <1>4 DEF ItemsOK
      <4> QED BY <1>4, <2>1, <2>3, <4>1 DEF ItemOK
    <3> QED BY <1>8, <2>3, <3>1
  <2>4. CASE stored["siteServer"] = Missing /\ n # "siteServer"
    <3>1. PICK i \in 1..Len(todo) : todo[i].name = "siteServer"
      BY <1>1, <2>4 DEF SiteOK
    <3>2. i # 1 /\ i - 1 \in 1..Len(todo') /\ (i - 1) + 1 = i
      BY <1>4, <1>5, <2>4, <3>1
    <3>3. todo'[i - 1] = todo[i]
      BY <1>5, <3>2
    <3> QED BY <1>8, <2>1, <2>4, <3>1, <3>2, <3>3
  <2> QED BY <2>2, <2>3, <2>4
<1> QED BY <1>2, <1>6, <1>7, <1>9, <1>10

\* A call fails, with its effect or without it.
LEMMA CallFailsIInv ==
  ASSUME IInv, CallFails
  PROVE  IInv'
<1> USE DEF IInv
<1>1. /\ pc' = "idle" /\ seen' = << >> /\ todo' = << >> /\ Len(seen') = 0 /\ Len(todo') = 0
      /\ UNCHANGED <<pass, misled, replicas, compared>>
  BY DEF CallFails, Abort
<1>2. StoreTypeOK' /\ CopiesKept' /\ CAFirst' /\ OnlyStaleReadsBreakChains'
  <2>1. CASE UNCHANGED versions
    <3>1. StoreTypeOK'
      BY <1>1, <2>1 DEF TypeOK, StoreTypeOK
    <3> QED BY <1>1, <2>1, <3>1, StoreStays
  <2>2. CASE Put("siteServer", Missing) \/ Put("mqttServer", Missing)
    <3>1. PICK n \in ServerSecrets : Put(n, Missing)
      BY <2>2 DEF ServerSecrets
    <3> QED BY <1>1, <3>1, Deleted
  <2>3. CASE todo # << >> /\ StoreNew(Head(todo).name, Head(todo).secret)
    BY <1>1, <2>3, HeadStored
  <2> QED BY <2>1, <2>2, <2>3 DEF CallFails
<1> QED
  BY <1>1, <1>2 DEF TypeOK, Shape, SeenKept, ItemsOK, SiteOK, SiteIsCurrent

\* The pass is through with its secrets.
LEMMA ContinueIInv ==
  ASSUME IInv, Continue
  PROVE  IInv'
<1> USE DEF IInv
<1>1. /\ pc = "create" /\ pc' = "continued" /\ todo = << >> /\ Len(todo) = 0
      /\ UNCHANGED <<versions, pass, misled, replicas, compared, seen, todo>>
      /\ seen = << >> /\ Len(seen) = 0
  BY DEF Continue, Shape
<1>2. /\ stored' = stored
      /\ CopiesKept' /\ CAFirst' /\ OnlyStaleReadsBreakChains'
  BY <1>1, StoreStays
<1>3. SiteIsCurrent'
  BY <1>1, <1>2 DEF SiteOK, SiteIsCurrent, Missing
<1> QED
  BY <1>1, <1>2, <1>3 DEF TypeOK, StoreTypeOK, Shape, SeenKept, ItemsOK, SiteOK

\* The copy follows, or a new process lists the secrets.
LEMMA FollowIInv ==
  ASSUME IInv, Deliver \/ Crash
  PROVE  IInv'
<1> USE DEF IInv
<1>1. /\ Follow \/ Relist
      /\ UNCHANGED <<pass, misled, replicas, compared>>
      /\ \/ UNCHANGED <<pc, seen, todo>>
         \/ pc' = "idle" /\ seen' = << >> /\ todo' = << >>
  BY DEF Deliver, Crash, Abort, Follow, Relist
<1>2. /\ versions' \in Seq([Names -> Secret]) /\ versions' # << >> /\ stored' = stored
      /\ \A i \in 1..Len(versions') : \E j \in 1..Len(versions) : versions'[i] = versions[j]
  BY <1>1, FollowEffect DEF TypeOK
<1>3. CopiesKept'
  BY <1>2 DEF CopiesKept, CAs, Missing
<1>4. StoreTypeOK'
  BY <1>1, <1>2 DEF TypeOK, StoreTypeOK
<1>5. CAFirst' /\ OnlyStaleReadsBreakChains'
  BY <1>1, <1>2 DEF CAFirst, OnlyStaleReadsBreakChains, ChainBroken, Missing
<1>6. CASE UNCHANGED <<pc, seen, todo>>
  BY <1>1, <1>2, <1>3, <1>4, <1>5, <1>6
     DEF TypeOK, Shape, SeenKept, ItemsOK, ItemOK, SiteOK, SiteIsCurrent, Missing
<1>7. CASE pc' = "idle" /\ seen' = << >> /\ todo' = << >>
  <2>1. Len(seen') = 0 /\ Len(todo') = 0
    BY <1>7
  <2> QED
    BY <1>1, <1>3, <1>4, <1>5, <1>7, <2>1
       DEF TypeOK, Shape, SeenKept, ItemsOK, SiteOK, SiteIsCurrent
<1> QED BY <1>1, <1>6, <1>7

\* Every step keeps the invariant.
LEMMA NextIInv ==
  ASSUME IInv, [Next]_vars
  PROVE  IInv'
<1>1. CASE UNCHANGED vars
  <2>1. UNCHANGED <<versions, pass, misled, pc, replicas, compared, seen, todo>> /\ stored' = stored
    BY <1>1 DEF vars, stored
  <2> QED
    BY <2>1
       DEF IInv, TypeOK, StoreTypeOK, CopiesKept, Shape, SeenKept, ItemsOK, ItemOK, SiteOK,
           CAFirst, OnlyStaleReadsBreakChains, ChainBroken, SiteIsCurrent, Missing
<1> QED
  BY <1>1, BeginIInv, CheckIInv, CheckFailsIInv, DeleteIInv, LookIInv, GenerateIInv, CreateIInv,
     ContinueIInv, CallFailsIInv, FollowIInv
     DEF Next, Step
-----------------------------------------------------------------------------
(***************************************************************************)
(* The theorems.                                                           *)
(***************************************************************************)

\* What holds of the store and of the pass's list holds always.
THEOREM Invariance == Spec => []IInv
<1>1. Init => IInv
  BY InitIInv
<1>2. IInv /\ [Next]_vars => IInv'
  BY NextIInv
<1> QED BY <1>1, <1>2, PTL DEF Spec

\* The variables of reconcileNats keep their types for any number of passes
\* and any numbers of replicas.
THEOREM TypeCorrect == Spec => []TypeOK
<1>1. IInv => TypeOK
  BY DEF IInv
<1> QED BY <1>1, Invariance, PTL

\* No server certificate without its CA, though passes delete certificates
\* and create them again (certs.go:93-133, reconcile.go:722-730).
THEOREM CAsComeFirst == Spec => []CAFirst
<1>1. IInv => CAFirst
  BY DEF IInv
<1> QED BY <1>1, Invariance, PTL

\* Only a pass that read something stale leaves a certificate that its CA did
\* not sign (reconcile.go:727).
THEOREM ChainsHold == Spec => []OnlyStaleReadsBreakChains
<1>1. IInv => OnlyStaleReadsBreakChains
  BY DEF IInv
<1> QED BY <1>1, Invariance, PTL

\* A pass that continues and read nothing stale leaves a site certificate, and
\* one for the replicas asked for unless it could not compare them
\* (reconcile.go:697-721).
THEOREM SiteStaysCurrent == Spec => []SiteIsCurrent
<1>1. IInv => SiteIsCurrent
  BY DEF IInv
<1> QED BY <1>1, Invariance, PTL

\* What a step does to the secrets.
LEMMA StepStored ==
  ASSUME IInv, Next
  PROVE  \/ stored' = stored
         \/ \E n \in Names : \E c \in Secret :
              stored[n] = Missing /\ stored' = [stored EXCEPT ![n] = c]
         \/ \E n \in ServerSecrets :
              /\ stored' = [stored EXCEPT ![n] = Missing]
              /\ n = "siteServer" => pc = "deleteSite"
<1>1. CASE UNCHANGED versions
  BY <1>1 DEF stored
<1>2. CASE Deliver \/ Crash
  BY <1>2, FollowEffect DEF Deliver, Crash, IInv, TypeOK
<1>3. CASE DeleteSite \/ DeleteMqtt \/ CallFails
  <2>1. UNCHANGED <<pass, misled>>
    BY <1>3 DEF DeleteSite, DeleteMqtt, Remove, CallFails
  <2>2. CASE pc = "deleteSite" /\ Put("siteServer", Missing)
    BY <2>1, <2>2, Deleted DEF ServerSecrets
  <2>3. CASE pc = "deleteMqtt" /\ Put("mqttServer", Missing)
    BY <2>1, <2>3, Deleted DEF ServerSecrets
  <2>4. CASE todo # << >> /\ StoreNew(Head(todo).name, Head(todo).secret)
    <3>1. Head(todo) \in Item
      BY <2>4, QueueEnds DEF IInv, TypeOK
    <3> QED BY <2>1, <2>4, <3>1, HeadStored DEF Item
  <2> QED
    BY <1>1, <1>3, <2>2, <2>3, <2>4 DEF DeleteSite, DeleteMqtt, Remove, CallFails
<1>4. CASE CreateSecret
  <2>1. /\ todo # << >> /\ StoreNew(Head(todo).name, Head(todo).secret)
        /\ UNCHANGED <<pass, misled>>
    BY <1>4 DEF CreateSecret
  <2>2. Head(todo) \in Item
    BY <2>1, QueueEnds DEF IInv, TypeOK
  <2> QED BY <2>1, <2>2, HeadStored DEF Item
<1> QED
  BY <1>1, <1>2, <1>3, <1>4
     DEF Next, Step, Begin, BeginPass, CheckReplicas, CheckFails, Look, Generate, Continue

\* No step replaces a CA; a step that gives up a site certificate is one of a
\* pass that wants other replicas or was misled (reconcile.go:703-721).
THEOREM KeysStay == Spec => KeysAreKept
<1> DEFINE Kept ==
      /\ \A ca \in Names \ ServerSecrets :
           stored[ca] # Missing => stored'[ca] = stored[ca]
      /\ LET site == stored["siteServer"]
         IN  (site # Missing /\ stored'["siteServer"] # site) =>
               site.hosts # replicas \/ pass \in misled
<1>1. IInv /\ [Next]_vars => [Kept]_vars
  <2> SUFFICES ASSUME IInv, Next
               PROVE  Kept
    OBVIOUS
  <2>1. stored \in [Names -> Secret] /\ "siteServer" \in Names /\ ServerSecrets \subseteq Names
    BY Ends, OrderNames DEF IInv, TypeOK
  <2>2. CASE stored' = stored
    BY <2>2
  <2>3. ASSUME NEW n \in Names, NEW c \in Secret,
               stored[n] = Missing, stored' = [stored EXCEPT ![n] = c]
        PROVE  Kept
    BY <2>1, <2>3
  <2>4. ASSUME NEW n \in ServerSecrets,
               stored' = [stored EXCEPT ![n] = Missing],
               n = "siteServer" => pc = "deleteSite"
        PROVE  Kept
    <3>1. pc = "deleteSite" => stored["siteServer"].hosts # replicas \/ pass \in misled
      BY DEF IInv, SiteOK
    <3> QED BY <2>1, <2>4, <3>1
  <2> QED BY <2>2, <2>3, <2>4, StepStored
<1>2. Spec => [][Kept]_vars
  BY <1>1, Invariance, PTL DEF Spec
<1> QED BY <1>2 DEF KeysAreKept
=============================================================================
