-------------------------- MODULE RouterTlsProofs --------------------------
(***************************************************************************)
(* The inductive invariant of RouterTls and what follows from it, for any  *)
(* number of passes.                                                       *)
(***************************************************************************)
EXTENDS RouterTls, VersionLemmas

\* A secret that some copy shows is the one that is stored.
CopiesKept ==
  \A i \in 1..Len(versions) : \A n \in Names :
    versions[i][n] # Missing => stored[n] = versions[i][n]

\* What is kept of a pass while it is not there.
Shape ==
  /\ pc # "create" => secrets = << >>
  /\ pc # "look" => seen = << >>
  /\ pc # "idle" => pass >= 1

\* What was seen is stored; and a pass that was not misled has seen what is
\* missing, too.
SeenKept ==
  \A i \in 1..Len(seen) :
    /\ seen[i] # Missing => stored[Order[i]] = seen[i]
    /\ pass \notin misled => stored[Order[i]] = seen[i]

\* A server certificate that is yet to be created comes after the CA it needs;
\* unless the pass is misled it is signed by that CA, be it stored or to come.
ItemOK(i) ==
  LET name == secrets[i].name
      secret == secrets[i].secret
      before == 1..(i - 1)
  IN  /\ secret # Missing
      /\ name \in ServerSecrets =>
           /\ \/ stored[CAOf[name]] # Missing
              \/ \E j \in before : secrets[j].name = CAOf[name]
           /\ stored[name] = Missing => secret.key = pass
           /\ (stored[name] = Missing /\ pass \notin misled) =>
                IF stored[CAOf[name]] # Missing
                  THEN secret.signer = stored[CAOf[name]].key
                  ELSE \A j \in before : secrets[j].name = CAOf[name] =>
                                           secrets[j].secret.key = secret.signer

ItemsOK == \A i \in 1..Len(secrets) : ItemOK(i)

\* Nothing is left out.
Covered ==
  pc = "create" =>
    \A n \in Names :
      stored[n] # Missing \/ \E i \in 1..Len(secrets) : secrets[i].name = n

IInv ==
  /\ TypeOK /\ CopiesKept /\ Shape /\ SeenKept /\ ItemsOK /\ Covered
  /\ AllAreStored /\ CAFirst /\ OnlyMisreadsBreakChains
-----------------------------------------------------------------------------
(***************************************************************************)
(* What the operations of SecretStore do.                                  *)
(***************************************************************************)

\* The ends of the queue are functions from names to secrets.
LEMMA Ends ==
  ASSUME StoreTypeOK
  PROVE  /\ versions \in Seq([Names -> Secret]) /\ versions # << >>
         /\ Len(versions) \in Nat /\ 1 \in 1..Len(versions)
         /\ cached = versions[1]
         /\ cached \in [Names -> Secret] /\ stored \in [Names -> Secret]
BY QueueEnds DEF StoreTypeOK, cached, stored

\* Nothing missing is a secret of this type, and a generated secret is one.
LEMMA SecretTypes ==
  ASSUME StoreTypeOK
  PROVE  /\ Missing \in Secret /\ SelfSigned \in Secret
         /\ \A ca \in Secret, h \in Nat : SignedBy(ca, h) \in Secret
         /\ pass >= 1 => /\ SelfSigned # Missing
                         /\ \A ca \in Secret, h \in Nat : SignedBy(ca, h) # Missing
BY PassesAssumption DEF StoreTypeOK, Missing, Secret, SelfSigned, SignedBy

\* A write changes one secret and appends at most one version.
LEMMA PutEffect ==
  ASSUME StoreTypeOK, NEW n \in Names, NEW c \in Secret, Put(n, c)
  PROVE  /\ versions' \in Seq([Names -> Secret]) /\ versions' # << >>
         /\ stored' = [stored EXCEPT ![n] = c]
         /\ \A i \in 1..Len(versions') :
              versions'[i] = stored' \/ \E j \in 1..Len(versions) : versions'[i] = versions[j]
<1> DEFINE new == [stored EXCEPT ![n] = c]
<1>1. new \in [Names -> Secret]
  BY Ends
<1>2. versions' = IF stored = new THEN versions ELSE Append(versions, new)
  BY Ends DEF Put
<1> HIDE DEF new
<1>3. /\ versions' \in Seq([Names -> Secret]) /\ versions' # << >>
      /\ versions'[Len(versions')] = new
      /\ \A i \in 1..Len(versions') :
           versions'[i] = new \/ \E j \in 1..Len(versions) : versions'[i] = versions[j]
  BY <1>1, <1>2, Ends, QueueWrite DEF stored
<1>4. stored' = new
  BY <1>3 DEF stored
<1> QED BY <1>3, <1>4 DEF new

\* The copy follows, or a new process lists the secrets.
LEMMA FollowEffect ==
  ASSUME StoreTypeOK, Follow \/ Relist
  PROVE  /\ versions' \in Seq([Names -> Secret]) /\ versions' # << >>
         /\ stored' = stored
         /\ \A i \in 1..Len(versions') :
              \E j \in 1..Len(versions) : versions'[i] = versions[j]
<1>1. (Len(versions) > 1 /\ versions' = Tail(versions)) \/ versions' = <<stored>>
  BY DEF Follow, Relist
<1> QED BY <1>1, Ends, QueueFollow DEF stored

\* A Create that finds something changes nothing.
LEMMA StoreNewEffect ==
  ASSUME StoreTypeOK, NEW n \in Names, NEW c \in Secret, StoreNew(n, c)
  PROVE  /\ versions' \in Seq([Names -> Secret]) /\ versions' # << >>
         /\ \/ stored[n] # Missing /\ stored' = stored
            \/ stored[n] = Missing /\ stored' = [stored EXCEPT ![n] = c]
         /\ \A i \in 1..Len(versions') :
              versions'[i] = stored' \/ \E j \in 1..Len(versions) : versions'[i] = versions[j]
<1>1. stored \in [Names -> Secret]
  BY Ends
<1>2. CASE stored[n] = Missing
  <2>1. Put(n, c)
    BY <1>2 DEF StoreNew
  <2> QED BY <1>2, <2>1, PutEffect
<1>3. CASE stored[n] # Missing
  <2>1. Put(n, stored[n]) /\ stored[n] \in Secret
    BY <1>1, <1>3 DEF StoreNew
  <2>2. stored' = [stored EXCEPT ![n] = stored[n]]
    BY <2>1, PutEffect
  <2> QED BY <1>1, <1>3, <2>1, <2>2, PutEffect
<1> QED BY <1>2, <1>3
-----------------------------------------------------------------------------
\* What no write replaces stays in every copy.
LEMMA CopiesStay ==
  ASSUME CopiesKept,
         \A n \in Names : stored[n] # Missing => stored'[n] = stored[n],
         \A i \in 1..Len(versions') :
           versions'[i] = stored' \/ \E j \in 1..Len(versions) : versions'[i] = versions[j]
  PROVE  CopiesKept'
<1> SUFFICES ASSUME NEW i \in 1..Len(versions'), NEW n \in Names,
                    versions'[i][n] # Missing
             PROVE  stored'[n] = versions'[i][n]
  BY DEF CopiesKept, Missing
<1>1. CASE versions'[i] = stored'
  BY <1>1
<1>2. ASSUME NEW j \in 1..Len(versions), versions'[i] = versions[j]
      PROVE  stored'[n] = versions'[i][n]
  BY <1>2 DEF CopiesKept
<1> QED BY <1>1, <1>2
-----------------------------------------------------------------------------
(***************************************************************************)
(* The steps.                                                              *)
(***************************************************************************)

\* The names in their order.
LEMMA OrderNames ==
  /\ Len(Order) = 4
  /\ \A i \in 1..4 : Order[i] \in Names
  /\ \A n \in Names : \E i \in 1..4 : Order[i] = n
  /\ ServerSecrets \subseteq Names
  /\ \A s \in ServerSecrets : CAOf[s] \in Names /\ CAOf[s] \notin ServerSecrets
BY NamesAssumption DEF Order, RouterSecrets, ServerSecrets, CAOf

\* The invariant holds at first.
LEMMA InitIInv ==
  ASSUME Init
  PROVE  IInv
<1> USE DEF Init, StoreInit
<1>1. Missing \in Secret
  BY PassesAssumption DEF Missing, Secret
<1>2. [n \in Names |-> Missing] \in [Names -> Secret]
  BY <1>1
<1>3. /\ versions \in Seq([Names -> Secret]) /\ versions # << >> /\ Len(versions) = 1
      /\ versions[Len(versions)] = [n \in Names |-> Missing]
      /\ \A i \in 1..Len(versions) : versions[i] = [n \in Names |-> Missing]
  BY <1>2, QueueRestart
<1>4. seen = << >> /\ secrets = << >> /\ Len(seen) = 0 /\ Len(secrets) = 0
  OBVIOUS
<1>5. TypeOK
  BY <1>3, <1>4, PassesAssumption DEF TypeOK, StoreTypeOK
<1>6. \A n \in Names : stored[n] = Missing
  BY <1>3 DEF stored
<1>7. CopiesKept
  BY <1>3, <1>6 DEF CopiesKept
<1>8. CAFirst /\ OnlyMisreadsBreakChains
  BY <1>6, OrderNames DEF CAFirst, OnlyMisreadsBreakChains, ChainBroken
<1> QED
  BY <1>4, <1>5, <1>7, <1>8
     DEF IInv, Shape, SeenKept, ItemsOK, Covered, AllAreStored

\* A pass begins.
LEMMA BeginIInv ==
  ASSUME IInv, Begin
  PROVE  IInv'
<1> USE DEF IInv, Begin, BeginPass
<1>1. seen = << >> /\ secrets = << >> /\ Len(seen) = 0 /\ Len(secrets) = 0
  BY DEF Shape
<1>2. stored' = stored
  BY DEF stored
<1>3. TypeOK'
  BY PassesAssumption DEF TypeOK, StoreTypeOK
<1>4. Shape'
  BY <1>1, PassesAssumption DEF Shape, TypeOK, StoreTypeOK
<1>5. SeenKept' /\ ItemsOK'
  BY <1>1 DEF SeenKept, ItemsOK
<1> QED
  BY <1>2, <1>3, <1>4, <1>5
     DEF CopiesKept, Covered, AllAreStored, CAFirst, OnlyMisreadsBreakChains, ChainBroken

\* A secret is read, or the read fails.
LEMMA LookIInv ==
  ASSUME IInv, Look \/ LookFails
  PROVE  IInv'
<1> USE DEF IInv
<1> DEFINE n == Order[Len(seen) + 1]
<1>1. /\ pc = "look" /\ Len(seen) \in Nat /\ Len(seen) < 4 /\ n \in Names
      /\ seen \in Seq(Secret)
  BY OrderNames DEF Look, LookFails, Looking, TypeOK
<1>2. /\ UNCHANGED <<versions, pass, pc, secrets>> /\ stored' = stored
      /\ secrets = << >> /\ Len(secrets) = 0
  BY <1>1 DEF Look, LookFails, stored, Shape
<1>3. PICK c \in Secret :
        /\ seen' = Append(seen, c)
        /\ c # Missing => stored[n] = c
        /\ misled' = IF c = stored[n] THEN misled ELSE misled \cup {pass}
  <2>1. CASE Look
    <3>1. /\ seen' = Append(seen, cached[n])
          /\ misled' = IF cached[n] = stored[n] THEN misled ELSE misled \cup {pass}
      BY <2>1 DEF Look, Read, Noticing
    <3>2. cached[n] \in Secret /\ (cached[n] # Missing => stored[n] = cached[n])
      BY <1>1, Ends DEF CopiesKept, TypeOK
    <3> QED BY <3>1, <3>2
  <2>2. CASE LookFails
    BY <2>2, SecretTypes DEF LookFails, TypeOK
  <2> QED BY <2>1, <2>2
<1>4. /\ seen' \in Seq(Secret) /\ Len(seen') = Len(seen) + 1
      /\ seen'[Len(seen) + 1] = c
      /\ \A i \in 1..Len(seen) : seen'[i] = seen[i]
  BY <1>1, <1>3
<1>5. misled \subseteq misled' /\ misled' \subseteq misled \cup {pass}
  BY <1>3
<1>6. TypeOK'
  <2>1. pass \in 1..MaxPasses
    BY <1>1 DEF Shape, TypeOK, StoreTypeOK
  <2> QED BY <1>1, <1>2, <1>4, <1>5, <2>1 DEF TypeOK, StoreTypeOK
<1>7. SeenKept'
  <2> SUFFICES ASSUME NEW i \in 1..Len(seen')
               PROVE  /\ seen'[i] # Missing => stored[Order[i]] = seen'[i]
                      /\ pass \notin misled' => stored[Order[i]] = seen'[i]
    BY <1>2 DEF SeenKept, Missing
  <2>1. CASE i \in 1..Len(seen)
    BY <2>1, <1>4, <1>5 DEF SeenKept
  <2>2. CASE i = Len(seen) + 1
    BY <2>2, <1>3, <1>4
  <2> QED BY <1>1, <1>4, <2>1, <2>2
<1>8. Shape' /\ ItemsOK' /\ Covered' /\ AllAreStored'
  BY <1>1, <1>2 DEF Shape, ItemsOK, Covered, AllAreStored
<1>9. CAFirst' /\ OnlyMisreadsBreakChains'
  BY <1>2, <1>5 DEF CAFirst, OnlyMisreadsBreakChains, ChainBroken, Missing
<1>10. CopiesKept'
  BY <1>2 DEF CopiesKept, Missing
<1> QED BY <1>6, <1>7, <1>8, <1>9, <1>10

\* The secret a pass will use under a name: the one that is stored, or one it
\* generated, signed by the one it will use for the CA.
LEMMA SecretAtOK ==
  ASSUME IInv, pc = "look", Len(seen) = 4, NEW i \in 1..4
  PROVE  /\ SecretAt(i) \in Secret /\ SecretAt(i) # Missing
         /\ seen[i] # Missing => stored[Order[i]] = SecretAt(i)
         /\ (seen[i] = Missing /\ pass \notin misled) => stored[Order[i]] = Missing
         /\ stored[Order[i]] = Missing => SecretAt(i).key = pass
         /\ (seen[i] = Missing /\ i > 2) => SecretAt(i).signer = SecretAt(i - 2).key
<1> USE DEF IInv
<1>1. /\ StoreTypeOK /\ pass \in 1..MaxPasses
      /\ \A j \in 1..4 : seen[j] \in Secret
  <2>1. StoreTypeOK /\ pass \in 0..MaxPasses /\ pass >= 1 /\ seen \in Seq(Secret)
    BY DEF TypeOK, StoreTypeOK, Shape
  <2>2. \A j \in 1..Len(seen) : seen[j] \in Secret
    BY <2>1, ElementOfSeq
  <2> QED BY <2>1, <2>2, PassesAssumption
<1>2. /\ SelfSigned \in Secret /\ SelfSigned # Missing /\ SelfSigned.key = pass
  BY <1>1, SecretTypes DEF SelfSigned
<1>3. ASSUME NEW ca \in Secret
      PROVE  /\ SignedBy(ca, 0) \in Secret /\ SignedBy(ca, 0) # Missing
             /\ SignedBy(ca, 0).key = pass /\ SignedBy(ca, 0).signer = ca.key
  <2>1. pass >= 1 /\ 0 \in Nat
    BY <1>1
  <2>2. SignedBy(ca, 0) \in Secret /\ SignedBy(ca, 0) # Missing
    BY <1>1, <2>1, SecretTypes
  <2> QED BY <2>2 DEF SignedBy
<1>4. i \in 1..Len(seen)
  OBVIOUS
<1>5. /\ seen[i] # Missing => stored[Order[i]] = seen[i]
      /\ pass \notin misled => stored[Order[i]] = seen[i]
  BY <1>4 DEF SeenKept
<1>6. CASE seen[i] # Missing
  <2>1. SecretAt(i) = seen[i]
    BY <1>6 DEF SecretAt
  <2> QED BY <2>1, <1>1, <1>5, <1>6
<1>7. CASE seen[i] = Missing /\ i <= 2
  <2>1. SecretAt(i) = SelfSigned
    BY <1>7 DEF SecretAt
  <2> QED BY <2>1, <1>2, <1>5, <1>7
<1>8. CASE seen[i] = Missing /\ i > 2
  <2> DEFINE ca == IF seen[i - 2] = Missing THEN SelfSigned ELSE seen[i - 2]
  <2>1. i - 2 \in 1..4 /\ i - 2 <= 2
    BY <1>8
  <2>2. ca \in Secret /\ SecretAt(i - 2) = ca
    BY <2>1, <1>1, <1>2 DEF SecretAt
  <2>3. SecretAt(i) = SignedBy(ca, 0)
    BY <1>8 DEF SecretAt
  <2> QED BY <2>2, <2>3, <1>3, <1>5, <1>8
<1> QED BY <1>6, <1>7, <1>8

\* A chosen secret in the list: where its name comes from.
LEMMA ChosenShape ==
  ASSUME IInv, pc = "look", Len(seen) = 4
  PROVE  /\ Chosen \in Seq(Item) /\ Len(Chosen) \in 2..4
         /\ \A k \in 1..Len(Chosen) : \E i \in 1..4 :
              Chosen[k].name = Order[i] /\ Chosen[k].secret = SecretAt(i)
         /\ \A i \in 1..4 : (i > 2 \/ seen[i] = Missing) =>
              \E k \in 1..Len(Chosen) : Chosen[k].name = Order[i]
         /\ \A k \in 1..Len(Chosen), i \in 3..4 :
              (Chosen[k].name = Order[i] /\ seen[i - 2] = Missing) =>
                \E j \in 1..(k - 1) : Chosen[j].name = Order[i - 2]
<1> DEFINE e(i) == [name |-> Order[i], secret |-> SecretAt(i)]
<1>1. /\ e(1) \in Item /\ e(2) \in Item /\ e(3) \in Item /\ e(4) \in Item
  BY SecretAtOK, OrderNames DEF Item
<1>2. /\ e(1).name = Order[1] /\ e(2).name = Order[2]
      /\ e(3).name = Order[3] /\ e(4).name = Order[4]
      /\ e(1).secret = SecretAt(1) /\ e(2).secret = SecretAt(2)
      /\ e(3).secret = SecretAt(3) /\ e(4).secret = SecretAt(4)
  OBVIOUS
<1>3. /\ Order[1] # Order[2] /\ Order[1] # Order[3] /\ Order[1] # Order[4]
      /\ Order[2] # Order[3] /\ Order[2] # Order[4] /\ Order[3] # Order[4]
  BY DEF Order
<1>4. Entry(1) = <<e(1)>> /\ Entry(2) = <<e(2)>> /\ Entry(3) = <<e(3)>> /\ Entry(4) = <<e(4)>>
  BY DEF Entry
<1>5. Chosen = (IF seen[1] = Missing THEN <<e(1)>> ELSE << >>)
                 \o (IF seen[2] = Missing THEN <<e(2)>> ELSE << >>) \o <<e(3)>> \o <<e(4)>>
  BY <1>4 DEF Chosen
<1> HIDE DEF e
<1>6. CASE seen[1] = Missing /\ seen[2] = Missing
  <2>1. Chosen = <<e(1), e(2), e(3), e(4)>>
    <3>1. Chosen = <<e(1)>> \o <<e(2)>> \o <<e(3)>> \o <<e(4)>>
      BY <1>5, <1>6
    <3>2. <<e(1)>> \o <<e(2)>> = <<e(1), e(2)>>
      BY <1>1, OneByOne
    <3>3. <<e(1), e(2)>> \o <<e(3)>> = <<e(1), e(2), e(3)>>
      BY <1>1, OneByOne
    <3>4. <<e(1), e(2), e(3)>> \o <<e(4)>> = <<e(1), e(2), e(3), e(4)>>
      BY <1>1, ThreeAndOne
    <3> QED BY <3>1, <3>2, <3>3, <3>4
  <2> QED BY <2>1, <1>1, <1>2, <1>3, <1>6
<1>7. CASE seen[1] = Missing /\ seen[2] # Missing
  <2>1. Chosen = <<e(1), e(3), e(4)>>
    <3>1. Chosen = <<e(1)>> \o << >> \o <<e(3)>> \o <<e(4)>>
      BY <1>5, <1>7
    <3>2. <<e(1)>> \o << >> = <<e(1)>>
      BY <1>1, OneByOne
    <3>3. <<e(1)>> \o <<e(3)>> = <<e(1), e(3)>>
      BY <1>1, OneByOne
    <3>4. <<e(1), e(3)>> \o <<e(4)>> = <<e(1), e(3), e(4)>>
      BY <1>1, OneByOne
    <3> QED BY <3>1, <3>2, <3>3, <3>4
  <2> QED BY <2>1, <1>1, <1>2, <1>3, <1>7
<1>8. CASE seen[1] # Missing /\ seen[2] = Missing
  <2>1. Chosen = <<e(2), e(3), e(4)>>
    <3>1. Chosen = << >> \o <<e(2)>> \o <<e(3)>> \o <<e(4)>>
      BY <1>5, <1>8
    <3>2. << >> \o <<e(2)>> = <<e(2)>>
      BY <1>1, OneByOne
    <3>3. <<e(2)>> \o <<e(3)>> = <<e(2), e(3)>>
      BY <1>1, OneByOne
    <3>4. <<e(2), e(3)>> \o <<e(4)>> = <<e(2), e(3), e(4)>>
      BY <1>1, OneByOne
    <3> QED BY <3>1, <3>2, <3>3, <3>4
  <2> QED BY <2>1, <1>1, <1>2, <1>3, <1>8
<1>9. CASE seen[1] # Missing /\ seen[2] # Missing
  <2>1. Chosen = <<e(3), e(4)>>
    <3>1. Chosen = << >> \o << >> \o <<e(3)>> \o <<e(4)>>
      BY <1>5, <1>9
    <3>2. << >> \o << >> = << >>
      BY <1>1, ConcatEmptySeq, EmptySeq
    <3>3. << >> \o <<e(3)>> = <<e(3)>>
      BY <1>1, OneByOne
    <3>4. <<e(3)>> \o <<e(4)>> = <<e(3), e(4)>>
      BY <1>1, OneByOne
    <3> QED BY <3>1, <3>2, <3>3, <3>4
  <2> QED BY <2>1, <1>1, <1>2, <1>3, <1>9
<1> QED BY <1>6, <1>7, <1>8, <1>9

\* The secrets of the pass are put together.
LEMMA GenerateIInv ==
  ASSUME IInv, Generate
  PROVE  IInv'
<1> USE DEF IInv
<1>1. /\ pc = "look" /\ Len(seen) = 4 /\ pc' = "create" /\ seen' = << >> /\ Len(seen') = 0
      /\ UNCHANGED <<versions, pass, misled>> /\ stored' = stored
      /\ pass >= 1
  BY OrderNames DEF Generate, Shape, stored
<1>2. secrets' = Chosen
  <2>1. secrets = << >> /\ Chosen \in Seq(Item) /\ secrets' = secrets \o Chosen
    BY <1>1, ChosenShape DEF Generate, Shape
  <2> QED BY <2>1, ConcatEmptySeq
<1>3. Chosen \in Seq(Item) /\ Len(Chosen) <= 4
  BY <1>1, ChosenShape
<1>4. TypeOK' /\ Shape' /\ SeenKept'
  BY <1>1, <1>2, <1>3 DEF TypeOK, StoreTypeOK, Shape, SeenKept
<1>5. ItemsOK'
  <2> SUFFICES ASSUME NEW k \in 1..Len(Chosen)
               PROVE  ItemOK(k)'
    BY <1>2 DEF ItemsOK
  <2>1. PICK i \in 1..4 : Chosen[k].name = Order[i] /\ Chosen[k].secret = SecretAt(i)
    BY <1>1, ChosenShape
  <2>2. /\ SecretAt(i) # Missing
        /\ stored[Order[i]] = Missing => SecretAt(i).key = pass
    BY <1>1, SecretAtOK
  <2>3. CASE i <= 2
    <3>1. Order[i] \notin ServerSecrets
      BY <2>3 DEF Order, ServerSecrets
    <3> QED BY <1>2, <2>1, <2>2, <3>1 DEF ItemOK, Missing
  <2>4. CASE i > 2
    <3> DEFINE ca == Order[i - 2]
    <3>1. /\ i \in 3..4 /\ i - 2 \in 1..4 /\ Order[i] \in ServerSecrets
          /\ CAOf[Order[i]] = ca
          /\ \A j \in 1..4 : Order[j] = ca => j = i - 2
      BY <2>4 DEF Order, ServerSecrets, CAOf
    <3>2. stored[ca] # Missing \/ \E j \in 1..(k - 1) : Chosen[j].name = ca
      BY <1>1, <2>1, <3>1, SecretAtOK, ChosenShape
    <3>3. ASSUME stored[Order[i]] = Missing, pass \notin misled
          PROVE  IF stored[ca] # Missing
                   THEN SecretAt(i).signer = stored[ca].key
                   ELSE \A j \in 1..(k - 1) : Chosen[j].name = ca =>
                          Chosen[j].secret.key = SecretAt(i).signer
      <4>1. seen[i] = Missing /\ SecretAt(i).signer = SecretAt(i - 2).key
        BY <1>1, <2>2, <3>1, <3>3, SecretAtOK
      <4>2. CASE stored[ca] # Missing
        BY <1>1, <3>1, <3>3, <4>1, <4>2, SecretAtOK
      <4>3. CASE stored[ca] = Missing
        <5>1. ASSUME NEW j \in 1..(k - 1), Chosen[j].name = ca
              PROVE  Chosen[j].secret = SecretAt(i - 2)
          BY <1>1, <1>3, <3>1, <5>1, ChosenShape
        <5> QED BY <4>1, <4>3, <5>1
      <4> QED BY <4>2, <4>3
    <3> QED BY <1>1, <1>2, <2>1, <2>2, <3>1, <3>2, <3>3 DEF ItemOK, Missing
  <2> QED BY <2>1, <2>3, <2>4
<1>6. Covered'
  <2> SUFFICES ASSUME NEW n \in Names, stored[n] = Missing
               PROVE  \E k \in 1..Len(Chosen) : Chosen[k].name = n
    BY <1>1, <1>2 DEF Covered, Missing
  <2>1. PICK i \in 1..4 : Order[i] = n
    BY OrderNames
  <2>2. seen[i] = Missing
    BY <1>1, <2>1, SecretAtOK
  <2> QED BY <1>1, <2>1, <2>2, ChosenShape
<1> QED
  BY <1>1, <1>4, <1>5, <1>6
     DEF CopiesKept, AllAreStored, CAFirst, OnlyMisreadsBreakChains, ChainBroken, Missing

\* What storing the secret at the head of the list, or not storing it, does.
LEMMA HeadStored ==
  ASSUME IInv, Creating, UNCHANGED <<pass, misled>>,
         stored' \in [Names -> Secret],
         \/ stored' = stored
         \/ /\ stored[Head(secrets).name] = Missing
            /\ stored' = [stored EXCEPT ![Head(secrets).name] = Head(secrets).secret],
         \A i \in 1..Len(versions') :
           versions'[i] = stored' \/ \E j \in 1..Len(versions) : versions'[i] = versions[j]
  PROVE  CopiesKept' /\ CAFirst' /\ OnlyMisreadsBreakChains'
<1> USE DEF IInv
<1> DEFINE n == Head(secrets).name
           c == Head(secrets).secret
<1>1. stored \in [Names -> Secret] /\ 1 \in 1..Len(secrets) /\ Head(secrets) = secrets[1]
      /\ n \in Names /\ c \in Secret
  <2>1. StoreTypeOK /\ secrets \in Seq(Item) /\ secrets # << >>
    BY DEF TypeOK, Creating
  <2>2. 1 \in 1..Len(secrets) /\ Head(secrets) = secrets[1] /\ Head(secrets) \in Item
    BY <2>1, QueueEnds
  <2> QED BY <2>1, <2>2, Ends DEF Item
<1>2. \A m \in Names : stored[m] # Missing => stored'[m] = stored[m]
  BY <1>1
<1>3. CopiesKept'
  BY <1>2, CopiesStay
<1>4. ItemOK(1)
  BY <1>1 DEF ItemsOK
<1>5. ASSUME NEW s \in ServerSecrets, stored'[s] # Missing
      PROVE  /\ stored'[CAOf[s]] # Missing
             /\ ChainBroken(s)' => stored'[s].key \in misled
  <2>1. s \in Names /\ CAOf[s] \in Names /\ CAOf[s] \notin ServerSecrets
    BY OrderNames
  <2>2. CASE stored[s] # Missing
    <3>1. stored[CAOf[s]] # Missing
      BY <2>2 DEF CAFirst
    <3>2. stored'[s] = stored[s] /\ stored'[CAOf[s]] = stored[CAOf[s]]
      BY <1>2, <2>1, <2>2, <3>1
    <3> QED BY <2>2, <3>1, <3>2 DEF OnlyMisreadsBreakChains, ChainBroken, Missing
  <2>3. CASE stored[s] = Missing
    <3>1. s = n /\ stored[n] = Missing /\ stored'[s] = c
      BY <1>1, <1>5, <2>1, <2>3
    <3>2. stored[CAOf[s]] # Missing
      BY <1>1, <1>4, <3>1 DEF ItemOK
    <3>3. stored'[CAOf[s]] = stored[CAOf[s]]
      BY <1>2, <2>1, <3>2
    <3>4. c.key = pass /\ (pass \notin misled => c.signer = stored[CAOf[s]].key)
      BY <1>1, <1>4, <3>1, <3>2 DEF ItemOK
    <3> QED BY <3>1, <3>2, <3>3, <3>4 DEF ChainBroken, Missing
  <2> QED BY <2>2, <2>3
<1> QED
  BY <1>3, <1>5 DEF CAFirst, OnlyMisreadsBreakChains, ChainBroken, Missing

\* The loop of createSecrets goes on to the next secret.
LEMMA HeadIInv ==
  ASSUME IInv, SkipSecret \/ CreateSecret
  PROVE  IInv'
<1> USE DEF IInv
<1> DEFINE n == Head(secrets).name
           c == Head(secrets).secret
<1>1. /\ Creating /\ pc = "create" /\ secrets' = Tail(secrets)
      /\ UNCHANGED <<pass, misled, pc, seen>>
  BY DEF SkipSecret, CreateSecret, Creating
<1>2. StoreTypeOK /\ secrets \in Seq(Item) /\ secrets # << >>
  BY <1>1 DEF TypeOK, Creating
<1>3. /\ Len(secrets) \in Nat /\ 1 \in 1..Len(secrets) /\ Head(secrets) = secrets[1]
      /\ secrets[1] \in Item
  BY <1>2, QueueEnds
<1>4. /\ secrets' \in Seq(Item) /\ Len(secrets') = Len(secrets) - 1
      /\ \A i \in 1..Len(secrets') : secrets'[i] = secrets[i + 1]
  BY <1>1, <1>2, HeadTailProperties
<1>5. /\ n \in Names /\ c \in Secret /\ c # Missing
      /\ stored \in [Names -> Secret] /\ cached \in [Names -> Secret]
  <2>1. ItemOK(1)
    BY <1>3 DEF ItemsOK
  <2> QED BY <1>2, <1>3, <2>1, Ends DEF Item, ItemOK
<1>6. /\ versions' \in Seq([Names -> Secret]) /\ versions' # << >>
      /\ \/ stored' = stored /\ stored[n] # Missing
         \/ stored[n] = Missing /\ stored' = [stored EXCEPT ![n] = c]
      /\ \A i \in 1..Len(versions') :
           versions'[i] = stored' \/ \E j \in 1..Len(versions) : versions'[i] = versions[j]
  <2>1. CASE SkipSecret
    <3>1. versions' = versions /\ cached[n] # Missing
      BY <2>1 DEF SkipSecret, Read
    <3>2. stored' = stored
      BY <3>1 DEF stored
    <3>3. stored[n] # Missing
      BY <1>2, <1>5, <3>1, Ends DEF CopiesKept
    <3> QED BY <1>2, <3>1, <3>2, <3>3, Ends
  <2>2. CASE CreateSecret
    <3>1. stored[n] = Missing /\ Put(n, c)
      BY <2>2 DEF CreateSecret
    <3> QED BY <1>2, <1>5, <3>1, PutEffect
  <2> QED BY <2>1, <2>2
<1>7. CopiesKept' /\ CAFirst' /\ OnlyMisreadsBreakChains'
  BY <1>1, <1>5, <1>6, HeadStored
<1>8. TypeOK'
  BY <1>1, <1>2, <1>4, <1>6 DEF TypeOK, StoreTypeOK
<1>9. Shape' /\ SeenKept' /\ AllAreStored'
  <2>1. seen = << >> /\ Len(seen) = 0
    BY <1>1 DEF Shape
  <2> QED BY <1>1, <2>1 DEF Shape, SeenKept, AllAreStored
<1>10. /\ \A m \in Names : stored[m] # Missing => stored'[m] = stored[m]
       /\ \A m \in Names : m # n => stored'[m] = stored[m]
       /\ stored'[n] # Missing
       /\ stored[n] = Missing => stored'[n] = c
  BY <1>5, <1>6
<1>11. ItemsOK'
  <2> SUFFICES ASSUME NEW i \in 1..Len(secrets')
               PROVE  ItemOK(i)'
    BY DEF ItemsOK
  <2> DEFINE name == secrets[i + 1].name
             secret == secrets[i + 1].secret
             ca == CAOf[name]
  <2>1. i + 1 \in 1..Len(secrets) /\ secrets'[i] = secrets[i + 1] /\ secrets[i + 1] \in Item
    BY <1>2, <1>3, <1>4, ElementOfSeq
  <2>2. ItemOK(i + 1)
    BY <2>1 DEF ItemsOK
  <2>3. secret # Missing
    BY <2>2 DEF ItemOK
  <2>4. CASE name \notin ServerSecrets
    BY <2>1, <2>3, <2>4 DEF ItemOK, Missing
  <2>5. CASE name \in ServerSecrets
    <3>1. name \in Names /\ ca \in Names
      BY <2>5, OrderNames
    <3>2. /\ stored[ca] # Missing \/ \E j \in 1..i : secrets[j].name = ca
          /\ stored[name] = Missing => secret.key = pass
          /\ (stored[name] = Missing /\ pass \notin misled) =>
               IF stored[ca] # Missing
                 THEN secret.signer = stored[ca].key
                 ELSE \A j \in 1..i : secrets[j].name = ca =>
                                        secrets[j].secret.key = secret.signer
      BY <2>1, <2>2, <2>5 DEF ItemOK
    <3>3. \A j \in 1..(i - 1) : j + 1 \in 1..i /\ secrets'[j] = secrets[j + 1]
      BY <1>3, <1>4
    <3>4. \A j \in 1..i : j = 1 \/ (j - 1 \in 1..(i - 1) /\ secrets'[j - 1] = secrets[j])
      BY <1>3, <1>4
    <3>5. stored'[ca] # Missing \/ \E j \in 1..(i - 1) : secrets'[j].name = ca
      BY <1>3, <1>10, <3>1, <3>2, <3>4
    <3>6. stored'[name] = Missing => stored[name] = Missing
      BY <1>10, <3>1
    <3>7. ASSUME stored'[name] = Missing, pass \notin misled
          PROVE  IF stored'[ca] # Missing
                   THEN secret.signer = stored'[ca].key
                   ELSE \A j \in 1..(i - 1) : secrets'[j].name = ca =>
                                                secrets'[j].secret.key = secret.signer
      <4>1. CASE stored[ca] # Missing
        BY <1>10, <3>1, <3>2, <3>6, <3>7, <4>1
      <4>2. CASE stored[ca] = Missing /\ stored'[ca] # Missing
        <5>1. ca = n /\ stored'[ca] = secrets[1].secret /\ secrets[1].name = ca
          BY <1>3, <1>10, <3>1, <4>2
        <5>2. 1 \in 1..i
          OBVIOUS
        <5> QED BY <3>2, <3>6, <3>7, <4>2, <5>1, <5>2
      <4>3. CASE stored[ca] = Missing /\ stored'[ca] = Missing
        BY <3>2, <3>3, <3>6, <3>7, <4>3
      <4> QED BY <4>1, <4>2, <4>3
    <3> QED BY <1>1, <2>1, <2>3, <3>2, <3>5, <3>6, <3>7 DEF ItemOK, Missing
  <2> QED BY <2>4, <2>5
<1>12. Covered'
  <2> SUFFICES ASSUME NEW m \in Names, stored'[m] = Missing
               PROVE  \E i \in 1..Len(secrets') : secrets'[i].name = m
    BY DEF Covered, Missing
  <2>1. m # n /\ stored[m] = Missing
    BY <1>10
  <2>2. PICK i \in 1..Len(secrets) : secrets[i].name = m
    BY <1>1, <2>1 DEF Covered
  <2>3. i # 1 /\ i - 1 \in 1..Len(secrets')
    BY <1>3, <1>4, <2>1, <2>2
  <2>4. secrets'[i - 1] = secrets[(i - 1) + 1] /\ (i - 1) + 1 = i
    BY <1>4, <2>3
  <2> QED BY <2>2, <2>3, <2>4
<1> QED BY <1>7, <1>8, <1>9, <1>11, <1>12

\* A pass that ends early leaves nothing but what it stored.
LEMMA AbortIInv ==
  ASSUME IInv, AlreadyExists \/ CallFails
  PROVE  IInv'
<1> USE DEF IInv
<1> DEFINE n == Head(secrets).name
           c == Head(secrets).secret
<1>1. /\ Creating /\ pc' = "idle" /\ seen' = << >> /\ secrets' = << >>
      /\ Len(seen') = 0 /\ Len(secrets') = 0
      /\ UNCHANGED <<pass, misled>>
  BY DEF AlreadyExists, CallFails, Abort
<1>2. StoreTypeOK /\ stored \in [Names -> Secret] /\ n \in Names /\ c \in Secret
  <2>1. StoreTypeOK /\ secrets \in Seq(Item) /\ secrets # << >>
    BY <1>1 DEF TypeOK, Creating
  <2>2. Head(secrets) \in Item
    BY <2>1, QueueEnds
  <2> QED BY <2>1, <2>2, Ends DEF Item
<1>3. /\ versions' \in Seq([Names -> Secret]) /\ versions' # << >>
      /\ stored' = stored \/ (stored[n] = Missing /\ stored' = [stored EXCEPT ![n] = c])
      /\ \A i \in 1..Len(versions') :
           versions'[i] = stored' \/ \E j \in 1..Len(versions) : versions'[i] = versions[j]
  <2>1. CASE UNCHANGED versions
    <3>1. stored' = stored
      BY <2>1 DEF stored
    <3> QED BY <1>2, <2>1, <3>1, Ends
  <2>2. CASE StoreNew(n, c)
    BY <1>2, <2>2, StoreNewEffect
  <2> QED BY <2>1, <2>2 DEF AlreadyExists, CallFails
<1>4. CopiesKept' /\ CAFirst' /\ OnlyMisreadsBreakChains'
  BY <1>1, <1>2, <1>3, HeadStored
<1>5. TypeOK'
  BY <1>1, <1>2, <1>3 DEF TypeOK, StoreTypeOK
<1> QED
  BY <1>1, <1>4, <1>5 DEF Shape, SeenKept, ItemsOK, Covered, AllAreStored

\* The pass is through with its secrets.
LEMMA ContinueIInv ==
  ASSUME IInv, Continue
  PROVE  IInv'
<1> USE DEF IInv
<1>1. /\ pc = "create" /\ pc' = "continued" /\ secrets = << >> /\ Len(secrets) = 0
      /\ UNCHANGED <<versions, pass, misled, seen, secrets>> /\ stored' = stored
  BY DEF Continue, stored
<1>2. \A n \in Names : stored[n] # Missing
  BY <1>1 DEF Covered
<1> QED
  BY <1>1, <1>2
     DEF TypeOK, StoreTypeOK, CopiesKept, Shape, SeenKept, ItemsOK, ItemOK, Covered,
         AllAreStored, CAFirst, OnlyMisreadsBreakChains, ChainBroken, Missing

\* The copy follows, or a new process lists the secrets.
LEMMA FollowIInv ==
  ASSUME IInv, Deliver \/ Crash
  PROVE  IInv'
<1> USE DEF IInv
<1>1. /\ Follow \/ Relist
      /\ UNCHANGED <<pass, misled>>
      /\ \/ UNCHANGED <<pc, seen, secrets>>
         \/ pc' = "idle" /\ seen' = << >> /\ secrets' = << >>
  BY DEF Deliver, Crash, Abort, Follow, Relist
<1>2. /\ versions' \in Seq([Names -> Secret]) /\ versions' # << >> /\ stored' = stored
      /\ \A i \in 1..Len(versions') : \E j \in 1..Len(versions) : versions'[i] = versions[j]
  BY <1>1, FollowEffect DEF TypeOK
<1>3. CopiesKept'
  BY <1>2, CopiesStay
<1>4. StoreTypeOK'
  BY <1>1, <1>2 DEF TypeOK, StoreTypeOK
<1>5. CAFirst' /\ OnlyMisreadsBreakChains'
  BY <1>1, <1>2 DEF CAFirst, OnlyMisreadsBreakChains, ChainBroken, Missing
<1>6. CASE UNCHANGED <<pc, seen, secrets>>
  BY <1>1, <1>2, <1>3, <1>4, <1>5, <1>6
     DEF TypeOK, Shape, SeenKept, ItemsOK, ItemOK, Covered, AllAreStored, Missing
<1>7. CASE pc' = "idle" /\ seen' = << >> /\ secrets' = << >>
  <2>1. Len(seen') = 0 /\ Len(secrets') = 0
    BY <1>7
  <2> QED
    BY <1>3, <1>4, <1>5, <1>7, <2>1
       DEF TypeOK, Shape, SeenKept, ItemsOK, Covered, AllAreStored
<1> QED BY <1>1, <1>6, <1>7

\* Every step keeps the invariant.
LEMMA NextIInv ==
  ASSUME IInv, [Next]_vars
  PROVE  IInv'
<1>1. CASE UNCHANGED vars
  <2>1. UNCHANGED <<versions, pass, misled, pc, seen, secrets>> /\ stored' = stored
    BY <1>1 DEF vars, stored
  <2> QED
    BY <2>1
       DEF IInv, TypeOK, StoreTypeOK, CopiesKept, Shape, SeenKept, ItemsOK, ItemOK, Covered,
           AllAreStored, CAFirst, OnlyMisreadsBreakChains, ChainBroken, Missing
<1> QED
  BY <1>1, BeginIInv, LookIInv, GenerateIInv, HeadIInv, AbortIInv, ContinueIInv, FollowIInv
     DEF Next
-----------------------------------------------------------------------------
(***************************************************************************)
(* The theorems.                                                           *)
(***************************************************************************)

\* What holds of the store and of the pass's lists holds always.
THEOREM Invariance == Spec => []IInv
<1>1. Init => IInv
  BY InitIInv
<1>2. IInv /\ [Next]_vars => IInv'
  BY NextIInv
<1> QED BY <1>1, <1>2, PTL DEF Spec

\* The variables of reconcileRouter keep their types for any number of passes.
THEOREM TypeCorrect == Spec => []TypeOK
<1>1. IInv => TypeOK
  BY DEF IInv
<1> QED BY <1>1, Invariance, PTL

\* A pass that continues leaves all four secrets, whatever it read, whatever
\* failed and whatever another process did before (reconcile.go:940-948).
THEOREM NothingIsLeftOut == Spec => []AllAreStored
<1>1. IInv => AllAreStored
  BY DEF IInv
<1> QED BY <1>1, Invariance, PTL

\* No server certificate without its CA (k8s.go:222-243 stores in the order of
\* the list and stops at the first error).
THEOREM CAsComeFirst == Spec => []CAFirst
<1>1. IInv => CAFirst
  BY DEF IInv
<1> QED BY <1>1, Invariance, PTL

\* Only a pass that read something else than what is stored leaves a
\* certificate that its CA did not sign (k8s.go:222-234).
THEOREM ChainsHold == Spec => []OnlyMisreadsBreakChains
<1>1. IInv => OnlyMisreadsBreakChains
  BY DEF IInv
<1> QED BY <1>1, Invariance, PTL

\* No step replaces a secret that is stored (k8s.go:236-243).
THEOREM SecretsStay == Spec => SecretsAreKept
<1> DEFINE Kept == \A n \in Names : stored[n] # Missing => stored'[n] = stored[n]
<1>1. IInv /\ [Next]_vars => [Kept]_vars
  <2> SUFFICES ASSUME IInv, Next
               PROVE  Kept
    OBVIOUS
  <2>1. CASE UNCHANGED versions
    BY <2>1 DEF stored
  <2>2. CASE Deliver \/ Crash
    BY <2>2, FollowEffect DEF Deliver, Crash, IInv, TypeOK
  <2>3. CASE CreateSecret \/ CallFails
    <3> DEFINE m == Head(secrets).name
               c == Head(secrets).secret
    <3>1. StoreTypeOK /\ secrets \in Seq(Item) /\ secrets # << >>
      BY <2>3 DEF IInv, TypeOK, CreateSecret, CallFails, Creating
    <3>2. Head(secrets) \in Item
      BY <3>1, QueueEnds
    <3>3. m \in Names /\ c \in Secret /\ stored \in [Names -> Secret]
      BY <3>1, <3>2, Ends DEF Item
    <3>4. UNCHANGED versions \/ StoreNew(m, c)
      BY <2>3 DEF CreateSecret, CallFails, StoreNew
    <3>5. CASE StoreNew(m, c)
      <4>1. PICK d \in Secret : Put(m, d) /\ (stored[m] # Missing => d = stored[m])
        BY <3>3, <3>5 DEF StoreNew
      <4>2. stored' = [stored EXCEPT ![m] = d]
        BY <3>1, <3>3, <4>1, PutEffect
      <4> QED BY <3>3, <4>1, <4>2
    <3> QED BY <2>1, <3>4, <3>5
  <2>4. UNCHANGED versions \/ Deliver \/ Crash \/ CreateSecret \/ CallFails
    BY DEF Next, Begin, BeginPass, Look, LookFails, Generate, SkipSecret, AlreadyExists, Continue
  <2> QED BY <2>1, <2>2, <2>3, <2>4
<1>2. Spec => [][Kept]_vars
  BY <1>1, Invariance, PTL DEF Spec
<1> QED BY <1>2 DEF SecretsAreKept
=============================================================================
