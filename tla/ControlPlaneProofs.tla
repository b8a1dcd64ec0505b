------------------------- MODULE ControlPlaneProofs -------------------------
(***************************************************************************)
(* The inductive invariant of ControlPlane and what follows from it.       *)
(***************************************************************************)
EXTENDS ControlPlane, WellFoundedInduction, SequenceTheorems, TLAPS
-----------------------------------------------------------------------------
(***************************************************************************)
(* Reading and writing conditions, for any sequence of them.               *)
(***************************************************************************)
\* A non-empty set of positions has a first one, and FirstOf returns it.
LEMMA FirstOfExists ==
  ASSUME NEW S, S \subseteq Nat, S # {}
  PROVE  FirstOf(S) \in S /\ \A j \in S : FirstOf(S) <= j
<1>1. \E x \in S : \A y \in S : ~(<<y, x>> \in OpToRel(<, Nat))
  BY NatLessThanWellFounded, WFMin
<1>2. \E x \in S : \A y \in S : x <= y
  <2>1. PICK x \in S : \A y \in S : ~(<<y, x>> \in OpToRel(<, Nat))
    BY <1>1
  <2>2. ASSUME NEW y \in S PROVE x <= y
    <3>1. ~(y < x)
      BY <2>1, <2>2 DEF OpToRel
    <3>2. x \in Nat /\ y \in Nat
      BY <2>1, <2>2
    <3> QED BY <3>1, <3>2
  <2> QED BY <2>2
<1> QED BY <1>2 DEF FirstOf

\* The conditions with every True one cleared are conditions, none is True,
\* and they were observed no later than the generation they are cleared at.
LEMMA ClearedConditions ==
  ASSUME NEW conds \in Seq(Condition), NEW g \in Nat,
         \A k \in DOMAIN conds : conds[k].gen <= g
  PROVE  LET cleared == [i \in DOMAIN conds |-> Cleared(conds[i], g)]
         IN  /\ cleared \in Seq(Condition)
             /\ DOMAIN cleared = DOMAIN conds
             /\ Len(cleared) = Len(conds)
             /\ \A k \in DOMAIN conds :
                  ~cleared[k].status /\ cleared[k].gen <= g
<1> DEFINE cleared == [i \in DOMAIN conds |-> Cleared(conds[i], g)]
<1>1. conds \in [1..Len(conds) -> Condition] /\ Len(conds) \in Nat
  BY LenProperties
<1>2. ASSUME NEW k \in DOMAIN conds
      PROVE  /\ Cleared(conds[k], g) \in Condition
             /\ ~Cleared(conds[k], g).status
             /\ Cleared(conds[k], g).gen <= g
  <2>1. conds[k] \in Condition
    BY <1>1
  <2>2. CASE conds[k].status
    <3>1. Cleared(conds[k], g) = [conds[k] EXCEPT !.status = FALSE, !.gen = g,
                                                  !.reason = "transition"]
      BY <2>2 DEF Cleared
    <3>2. Cleared(conds[k], g) = [type |-> conds[k].type, status |-> FALSE,
                                  gen |-> g, reason |-> "transition"]
      BY <3>1, <2>1 DEF Condition
    <3>3. conds[k].type \in ConditionTypes
      BY <2>1 DEF Condition
    <3> QED BY <3>2, <3>3 DEF Condition, Reasons
  <2>3. CASE ~conds[k].status
    BY <2>1, <2>3 DEF Cleared, Condition, Reasons
  <2> QED BY <2>1, <2>2, <2>3 DEF Condition
<1>3. cleared \in [1..Len(conds) -> Condition]
  BY <1>1, <1>2
<1>4. cleared \in Seq(Condition) /\ Len(cleared) = Len(conds)
  BY <1>1, <1>3
<1> QED BY <1>2, <1>4

\* After SetCondition only the new condition is True: the state read back is
\* the one written, and nothing was observed later than the generation given.
LEMMA SetConditionState ==
  ASSUME NEW conds \in Seq(Condition), NEW t \in ConditionTypes, NEW g \in Nat,
         \A k \in DOMAIN conds : conds[k].gen <= g
  PROVE  LET new == SetCondition(conds, t, g)
         IN  /\ new \in Seq(Condition)
             /\ \A k \in DOMAIN new : new[k].gen <= g
             /\ GetCondition(new, g) = t
<1> DEFINE cleared == [i \in DOMAIN conds |-> Cleared(conds[i], g)]
           added == [type |-> t, status |-> TRUE, gen |-> g,
                     reason |-> "initial_status"]
           new == SetCondition(conds, t, g)
<1>1. /\ cleared \in Seq(Condition)
      /\ \A k \in DOMAIN cleared : ~cleared[k].status /\ cleared[k].gen <= g
  BY ClearedConditions
<1>2. added \in Condition
  BY DEF Condition, Reasons
<1>3. \E n \in DOMAIN new :
        /\ new \in Seq(Condition)
        /\ new[n] = added
        /\ \A k \in DOMAIN new : k # n => k \in DOMAIN cleared /\ new[k] = cleared[k]
  <2> HIDE DEF cleared, added
  <2>1. added.type = t
    BY DEF added
  <2>2. new = IF OfType(cleared, t) = {}
                THEN Append(cleared, added)
                ELSE [cleared EXCEPT ![FirstOf(OfType(cleared, t))] = added]
    BY <2>1 DEF SetCondition, SetStatusCondition, cleared, added
  <2> HIDE DEF new
  <2>3. CASE OfType(cleared, t) = {}
    <3>1. new = Append(cleared, added)
      BY <2>2, <2>3
    <3>2. /\ new \in Seq(Condition)
          /\ Len(new) = Len(cleared) + 1
          /\ \A k \in 1..Len(cleared) : new[k] = cleared[k]
          /\ new[Len(cleared) + 1] = added
      BY <3>1, <1>1, <1>2
    <3>3. DOMAIN new = 1..Len(cleared) + 1 /\ DOMAIN cleared = 1..Len(cleared)
      BY <3>2, <1>1, LenProperties
    <3> QED BY <3>2, <3>3, <1>1, LenProperties
  <2>4. CASE OfType(cleared, t) # {}
    <3> DEFINE n == FirstOf(OfType(cleared, t))
    <3>1. n \in DOMAIN cleared
      <4>1. OfType(cleared, t) \subseteq Nat
        BY <1>1, LenProperties DEF OfType
      <4>2. n \in OfType(cleared, t)
        BY <4>1, <2>4, FirstOfExists
      <4> QED BY <4>2 DEF OfType
    <3>2. new = [cleared EXCEPT ![n] = added]
      BY <2>2, <2>4
    <3> HIDE DEF n
    <3>3. DOMAIN cleared = 1..Len(cleared) /\ Len(cleared) \in Nat
      BY <1>1, LenProperties
    <3>4. new \in Seq(Condition) /\ DOMAIN new = DOMAIN cleared
      BY <3>1, <3>2, <3>3, <1>1, <1>2, ExceptSeq
    <3> QED BY <3>1, <3>2, <3>3, <3>4, <1>1
  <2> QED BY <2>3, <2>4
<1>4. PICK n \in DOMAIN new :
        /\ new \in Seq(Condition)
        /\ new[n] = added
        /\ \A k \in DOMAIN new : k # n => k \in DOMAIN cleared /\ new[k] = cleared[k]
  BY <1>3
<1>5. TrueAt(new) = {n}
  <2>1. \A k \in DOMAIN new : k # n => ~new[k].status
    BY <1>4, <1>1
  <2>2. new[n].status
    BY <1>4
  <2> HIDE DEF new
  <2> QED BY <2>1, <2>2 DEF TrueAt
<1>6. FirstOf(TrueAt(new)) = n
  <2>1. n \in Nat
    BY <1>4, LenProperties
  <2> QED BY <1>5, <2>1, FirstOfExists
<1>7. GetCondition(new, g) = t
  BY <1>4, <1>5, <1>6 DEF GetCondition
<1>8. \A k \in DOMAIN new : new[k].gen <= g
  <2>1. new[n].gen <= g
    <3>1. added.gen <= g
      OBVIOUS
    <3> HIDE DEF new, added
    <3> QED BY <3>1, <1>4
  <2> HIDE DEF new
  <2>2. ASSUME NEW k \in DOMAIN new, k # n PROVE new[k].gen <= g
    BY <1>1, <1>4, <2>2
  <2> QED BY <2>1, <2>2
<1> QED BY <1>4, <1>7, <1>8

\* What makes a sequence of conditions read as "ready".
LEMMA ReadyCondition ==
  ASSUME NEW conds \in Seq(Condition), NEW g \in Nat,
         GetCondition(conds, g) = "ready"
  PROVE  \E i \in DOMAIN conds :
           /\ conds[i].status /\ conds[i].type = "ready" /\ conds[i].gen = g
           /\ \A j \in DOMAIN conds : conds[j].status => i <= j
<1> DEFINE i == FirstOf(TrueAt(conds))
<1>1. TrueAt(conds) # {}
  BY DEF GetCondition
<1>2. TrueAt(conds) \subseteq Nat
  BY LenProperties DEF TrueAt
<1>3. i \in TrueAt(conds) /\ \A j \in TrueAt(conds) : i <= j
  BY <1>1, <1>2, FirstOfExists
<1>4. conds[i].type = "ready" /\ conds[i].gen = g
  BY <1>1 DEF GetCondition
<1> HIDE DEF i
<1> QED BY <1>3, <1>4 DEF TrueAt

\* Conditions observed before a generation do not make it ready: a new
\* generation is always "deploying" or "updating".
LEMMA NewGenerationIsNotReady ==
  ASSUME NEW conds \in Seq(Condition), NEW g \in Nat,
         \A k \in DOMAIN conds : conds[k].gen < g
  PROVE  GetCondition(conds, g) # "ready"
<1> SUFFICES ASSUME GetCondition(conds, g) = "ready" PROVE FALSE
  OBVIOUS
<1>1. PICK i \in DOMAIN conds : conds[i].gen = g
  BY ReadyCondition
<1> QED BY <1>1
-----------------------------------------------------------------------------
(***************************************************************************)
(* The versions of the object.                                             *)
(***************************************************************************)
\* The informer's version and the stored one are versions of the object.
LEMMA EndsOfVersions ==
  ASSUME TypeOK
  PROVE  /\ Len(versions) \in Nat /\ Len(versions) >= 1
         /\ cached = versions[1]
         /\ cached \in Version
         /\ stored \in Version
         /\ \A i \in 1..Len(versions) : versions[i] \in Version
<1>1. versions \in Seq(Version) /\ versions # << >>
  BY DEF TypeOK
<1>2. Len(versions) \in Nat /\ Len(versions) >= 1
  BY <1>1, EmptySeq
<1>3. \A i \in 1..Len(versions) : versions[i] \in Version
  BY <1>1, ElementOfSeq
<1>4. cached = versions[1]
  BY <1>1 DEF cached
<1> QED BY <1>2, <1>3, <1>4 DEF stored

\* The numbers of two versions on the way are ordered from end to end.
LEMMA EndsOrdered ==
  ASSUME TypeOK, VersionsOrdered
  PROVE  /\ cached.gen <= stored.gen
         /\ cached.rv <= stored.rv
         /\ cached.gen = stored.gen => cached.value = stored.value
         /\ cached.rv = stored.rv => cached = stored /\ Len(versions) = 1
<1>1. /\ 1 \in 1..Len(versions) /\ Len(versions) \in 1..Len(versions)
      /\ cached = versions[1] /\ cached \in Version /\ stored \in Version
      /\ Len(versions) \in Nat
  BY EndsOfVersions
<1>2. stored = versions[Len(versions)]
  BY DEF stored
<1>3. cached.rv \in Nat /\ stored.rv \in Nat
  BY <1>1 DEF Version
<1>4. cached.gen <= stored.gen
  BY <1>1, <1>2 DEF VersionsOrdered
<1>5. cached.gen = stored.gen => cached.value = stored.value
  BY <1>1, <1>2 DEF VersionsOrdered
<1>6. CASE Len(versions) = 1
  BY <1>1, <1>2, <1>3, <1>4, <1>5, <1>6
<1>7. CASE Len(versions) # 1
  <2>1. 1 < Len(versions)
    <3>1. Len(versions) \in Nat /\ Len(versions) >= 1
      BY EndsOfVersions
    <3> QED BY <3>1, <1>7
  <2>2. cached.rv < stored.rv
    BY <1>1, <1>2, <2>1 DEF VersionsOrdered
  <2> QED BY <1>3, <1>4, <1>5, <2>2
<1> QED BY <1>6, <1>7

\* Store leaves the versions alone or adds the written one at the end.
LEMMA StoreEffect ==
  ASSUME TypeOK, NEW o \in Version, Store(o)
  PROVE  /\ versions' \in Seq(Version)
         /\ versions' # << >>
         /\ cached' = cached
         /\ \/ /\ o = stored
               /\ versions' = versions
               /\ stored' = stored
            \/ /\ o # stored
               /\ stored' = [o EXCEPT !.rv = @ + 1]
               /\ Len(versions') = Len(versions) + 1
               /\ versions'[Len(versions) + 1] = stored'
               /\ \A i \in 1..Len(versions) : versions'[i] = versions[i]
<1>1. versions \in Seq(Version) /\ versions # << >>
  BY DEF TypeOK
<1>2. CASE o = stored
  <2>1. versions' = versions
    BY <1>2 DEF Store
  <2> QED BY <1>1, <1>2, <2>1 DEF stored, cached
<1>3. CASE o # stored
  <2> DEFINE new == [o EXCEPT !.rv = @ + 1]
  <2>1. new \in Version
    BY DEF Version
  <2>2. versions' = Append(versions, new)
    BY <1>3 DEF Store
  <2> HIDE DEF new
  <2>3. /\ versions' \in Seq(Version)
        /\ Len(versions') = Len(versions) + 1
        /\ versions'[Len(versions) + 1] = new
        /\ \A i \in 1..Len(versions) : versions'[i] = versions[i]
    BY <1>1, <2>1, <2>2
  <2>4. Len(versions) \in Nat /\ Len(versions) >= 1 /\ cached = versions[1]
    BY EndsOfVersions
  <2>5. versions' # << >>
    BY <2>3, <2>4, EmptySeq
  <2>6. stored' = new
    BY <2>3 DEF stored
  <2>7. cached' = cached
    BY <2>3, <2>4, <2>5 DEF cached
  <2> QED BY <1>3, <2>3, <2>5, <2>6, <2>7 DEF new
<1> QED BY <1>2, <1>3

\* A version that continues the stored one keeps the versions ordered.
LEMMA StoreKeepsOrder ==
  ASSUME TypeOK, VersionsOrdered,
         \A i \in 1..Len(versions) : NoForesight(versions[i]),
         NEW o \in Version, Store(o),
         o.rv = stored.rv,
         stored.gen <= o.gen,
         o.gen = stored.gen => o.value = stored.value,
         NoForesight(o)
  PROVE  /\ VersionsOrdered'
         /\ (\A i \in 1..Len(versions) : NoForesight(versions[i]))'
<1>1. CASE versions' = versions
  BY <1>1 DEF VersionsOrdered, NoForesight
<1>2. CASE versions' # versions
  <2> DEFINE n == Len(versions)
             new == [o EXCEPT !.rv = @ + 1]
  <2>1. /\ Len(versions') = n + 1
        /\ versions'[n + 1] = new
        /\ \A i \in 1..n : versions'[i] = versions[i]
    BY <1>2, StoreEffect
  <2>2. /\ new.rv = stored.rv + 1 /\ new.gen = o.gen /\ new.value = o.value
        /\ new.conds = o.conds
        /\ o.gen \in Nat /\ stored.gen \in Nat /\ stored.rv \in Nat
    BY EndsOfVersions DEF Version
  <2>3. n \in Nat /\ n \in 1..n /\ stored = versions[n]
    BY EndsOfVersions DEF stored
  <2>4. \A i \in 1..n : /\ versions[i].rv <= stored.rv
                        /\ versions[i].gen <= stored.gen
                        /\ versions[i].gen = stored.gen
                             => versions[i].value = stored.value
                        /\ versions[i].rv \in Nat /\ versions[i].gen \in Nat
    <3>1. ASSUME NEW i \in 1..n
          PROVE  versions[i].rv <= stored.rv
      <4>1. CASE i = n
        BY <4>1, <2>2, <2>3
      <4>2. CASE i # n
        <5>1. i < n
          BY <4>2, <2>3
        <5>2. versions[i].rv < stored.rv
          BY <5>1, <2>3 DEF VersionsOrdered
        <5>3. versions[i].rv \in Nat
          BY EndsOfVersions DEF Version
        <5> QED BY <5>2, <5>3, <2>2
      <4> QED BY <4>1, <4>2
    <3>2. \A i \in 1..n : versions[i].rv \in Nat /\ versions[i].gen \in Nat
      BY EndsOfVersions DEF Version
    <3> QED BY <3>1, <3>2, <2>3 DEF VersionsOrdered
  <2> HIDE DEF new
  <2>5. VersionsOrdered'
    <3>1. ASSUME NEW i \in 1..n, NEW j \in 1..n
          PROVE  /\ i < j => versions'[i].rv < versions'[j].rv
                 /\ i <= j => versions'[i].gen <= versions'[j].gen
                 /\ versions'[i].gen = versions'[j].gen
                      => versions'[i].value = versions'[j].value
      BY <2>1 DEF VersionsOrdered
    <3>2. ASSUME NEW i \in 1..n
          PROVE  /\ versions'[i].rv < versions'[n + 1].rv
                 /\ versions'[i].gen <= versions'[n + 1].gen
                 /\ versions'[i].gen = versions'[n + 1].gen
                      => versions'[i].value = versions'[n + 1].value
      <4>1. versions'[i] = versions[i] /\ versions'[n + 1] = new
        BY <2>1
      <4>2. /\ versions[i].rv < new.rv
            /\ versions[i].gen <= new.gen
        BY <2>2, <2>4
      <4>3. ASSUME versions[i].gen = new.gen
            PROVE  versions[i].value = new.value
        <5>1. new.gen = stored.gen
          BY <4>3, <2>2, <2>4
        <5> QED BY <5>1, <4>3, <2>2, <2>4
      <4> QED BY <4>1, <4>2, <4>3
    <3>3. \A i \in 1..(n + 1) : i \in 1..n \/ i = n + 1
      BY <2>3
    <3>4. versions'[n + 1].gen <= versions'[n + 1].gen
      BY <2>1, <2>2
    <3>5. ASSUME NEW i \in 1..(n + 1), NEW j \in 1..(n + 1)
          PROVE  /\ i < j => versions'[i].rv < versions'[j].rv
                 /\ i <= j => versions'[i].gen <= versions'[j].gen
                 /\ versions'[i].gen = versions'[j].gen
                      => versions'[i].value = versions'[j].value
      <4>1. CASE i \in 1..n /\ j \in 1..n
        BY <4>1, <3>1
      <4>2. CASE i \in 1..n /\ j = n + 1
        BY <4>2, <3>2
      <4>3. CASE i = n + 1 /\ j \in 1..n
        <5>1. ~(i < j) /\ ~(i <= j)
          BY <4>3, <2>3
        <5> QED BY <5>1, <4>3, <3>2
      <4>4. CASE i = n + 1 /\ j = n + 1
        BY <4>4, <3>4, <2>3
      <4> QED BY <3>3, <4>1, <4>2, <4>3, <4>4
    <3> QED BY <3>5, <2>1 DEF VersionsOrdered
  <2>6. (\A i \in 1..Len(versions) : NoForesight(versions[i]))'
    <3>1. NoForesight(new)
      BY <2>2 DEF NoForesight
    <3>2. ASSUME NEW i \in 1..(n + 1) PROVE NoForesight(versions'[i])
      <4>1. CASE i \in 1..n
        BY <4>1, <2>1
      <4>2. CASE i = n + 1
        BY <4>2, <2>1, <3>1
      <4> QED BY <4>1, <4>2, <2>3
    <3> QED BY <3>2, <2>1 DEF NoForesight
  <2> QED BY <2>5, <2>6
<1> QED BY <1>1, <1>2

\* Where the versions stay, so does all that is said of them alone.
LEMMA SameVersions ==
  ASSUME IInv, versions' = versions
  PROVE  /\ stored' = stored
         /\ cached' = cached
         /\ VersionsOrdered'
         /\ (\A i \in 1..Len(versions) : NoForesight(versions[i]))'
         /\ Ready(stored)' <=> Ready(stored)
BY DEF IInv, stored, cached, VersionsOrdered, NoForesight, Ready, IsIn

-----------------------------------------------------------------------------
(***************************************************************************)
(* One lemma per group of actions: each keeps the invariant.               *)
(***************************************************************************)

\* The Get and the choice of the reconcile function.
LEMMA FetchKeepsIInv ==
  ASSUME IInv, FetchSettled \/ FetchPending \/ FetchInvalid
  PROVE  IInv'
<1>1. /\ pc = "idle" /\ queued /\ queued' = FALSE
      /\ versions' = versions /\ deployed' = deployed
  BY DEF FetchSettled, FetchPending, FetchInvalid, Fetch
<1>2. /\ stored' = stored /\ cached' = cached
      /\ VersionsOrdered'
      /\ (\A i \in 1..Len(versions) : NoForesight(versions[i]))'
      /\ Ready(stored)' <=> Ready(stored)
  BY <1>1, SameVersions
<1>3. TypeOK /\ VersionsOrdered /\ ReadyIsDeployed /\ ReadyIsKnown
  BY DEF IInv
<1>4. /\ cached \in Version /\ stored \in Version
      /\ cached.gen <= stored.gen
      /\ cached.rv <= stored.rv
      /\ cached.gen = stored.gen => cached.value = stored.value
      /\ cached.rv = stored.rv => cached = stored /\ Len(versions) = 1
      /\ cached.gen \in Nat /\ cached.rv \in Nat /\ cached.conds \in Seq(Condition)
  BY <1>3, EndsOfVersions, EndsOrdered DEF Version
<1>5. NoForesight(cached)
  BY <1>3, EndsOfVersions DEF IInv
<1>6. ReadyIsDeployed'
  BY <1>1, <1>2, <1>3 DEF ReadyIsDeployed
<1>7. CASE FetchSettled
  <2>1. /\ pc' = "idle" /\ mode' = mode /\ results' = results
        /\ cp' = IF cached.live THEN cached ELSE cp
        /\ cached.live => Ready(cached)
    BY <1>1, <1>7 DEF FetchSettled
  <2>2. TypeOK'
    BY <1>1, <1>3, <1>4, <2>1 DEF TypeOK
  <2>3. NoForesight(cp)'
    BY <1>5, <2>1 DEF NoForesight, IInv
  <2>4. CopyOrdered' /\ PassProgress' /\ ReadyIsKnown'
    BY <1>2, <1>3, <2>1 DEF CopyOrdered, PassProgress, ReadyIsKnown, Working
  <2>5. NotForgotten'
    <3>1. Len(versions) = 1 => cached = stored
      BY <1>3, EndsOfVersions DEF stored
    <3>2. Len(versions) \in Nat /\ Len(versions) >= 1
      BY <1>3, EndsOfVersions
    <3>3. CASE Len(versions) = 1
      BY <3>1, <3>3, <1>2, <2>1 DEF NotForgotten
    <3>4. CASE Len(versions) > 1
      BY <3>4, <1>1 DEF NotForgotten
    <3>5. Len(versions) = 1 \/ Len(versions) > 1
      <4>1. \A n \in Nat : n >= 1 => n = 1 \/ n > 1
        OBVIOUS
      <4> QED BY <3>2, <4>1
    <3> QED BY <3>3, <3>4, <3>5
  <2> QED BY <1>2, <1>6, <2>2, <2>3, <2>4, <2>5 DEF IInv
<1>8. CASE FetchPending
  <2>1. PICK m \in {"deploying", "updating"} : IsIn(cached, m) /\ StartRoutines(m)
    BY <1>8 DEF FetchPending
  <2>2. /\ cached.live /\ cp' = cached /\ pc' = "reconcile" /\ mode' = m
        /\ results' = [c \in Components |-> "running"]
    BY <1>8, <2>1 DEF FetchPending, StartRoutines
  <2>3. TypeOK'
    BY <1>1, <1>3, <1>4, <2>2 DEF TypeOK
  <2>4. NoForesight(cp)'
    BY <1>5, <2>2 DEF NoForesight
  <2>5. CopyOrdered'
    BY <1>2, <1>4, <2>2 DEF CopyOrdered
  <2>6. PassProgress'
    BY <2>1, <2>2 DEF PassProgress, IsIn
  <2>7. ReadyIsKnown'
    BY <1>2, <1>3, <2>2 DEF ReadyIsKnown
  <2>8. NotForgotten'
    BY <2>2 DEF NotForgotten
  <2> QED BY <1>2, <1>6, <2>3, <2>4, <2>5, <2>6, <2>7, <2>8 DEF IInv
<1>9. CASE FetchInvalid
  <2> DEFINE new == SetCondition(cached.conds, "deploying", cached.gen)
  <2>1. /\ cached.live /\ pc' = "migrate" /\ mode' = mode /\ results' = results
        /\ cp' = [cached EXCEPT !.conds = new]
    BY <1>9 DEF FetchInvalid
  <2>2. /\ new \in Seq(Condition)
        /\ \A k \in DOMAIN new : new[k].gen <= cached.gen
        /\ GetCondition(new, cached.gen) = "deploying"
    <3>1. \A k \in DOMAIN cached.conds : cached.conds[k].gen <= cached.gen
      BY <1>5 DEF NoForesight
    <3>2. "deploying" \in ConditionTypes
      BY DEF ConditionTypes
    <3> QED BY <1>4, <3>1, <3>2, SetConditionState
  <2> HIDE DEF new
  <2>3. /\ cp' \in Version /\ cp'.conds = new
        /\ cp'.gen = cached.gen /\ cp'.rv = cached.rv /\ cp'.value = cached.value
    BY <1>4, <2>1, <2>2 DEF Version
  <2>4. TypeOK'
    BY <1>1, <1>3, <2>1, <2>3 DEF TypeOK
  <2>5. NoForesight(cp)'
    BY <2>2, <2>3 DEF NoForesight
  <2>6. CopyOrdered'
    BY <1>2, <1>4, <2>1, <2>3 DEF CopyOrdered
  <2>7. PassProgress'
    BY <2>1, <2>2, <2>3 DEF PassProgress, IsIn
  <2>8. ReadyIsKnown'
    BY <1>2, <1>3, <2>3 DEF ReadyIsKnown
  <2>9. NotForgotten'
    BY <2>1 DEF NotForgotten
  <2> QED BY <1>2, <1>6, <2>4, <2>5, <2>6, <2>7, <2>8, <2>9 DEF IInv
<1> QED BY <1>7, <1>8, <1>9

\* The routines: what they move is what the copy of this pass asks for, which
\* while the object is ready is what runs already.
LEMMA RoutinesKeepIInv ==
  ASSUME IInv, NEW c \in Components,
         RollOut(c) \/ RoutineContinues(c) \/ RoutineStops(c)
  PROVE  IInv'
<1>1. /\ pc = "reconcile" /\ pc' = pc /\ cp' = cp /\ mode' = mode
      /\ versions' = versions /\ queued' = queued
      /\ results[c] = "running"
  BY DEF RollOut, RoutineContinues, RoutineStops, Finish
<1>2. /\ stored' = stored /\ cached' = cached
      /\ VersionsOrdered'
      /\ (\A i \in 1..Len(versions) : NoForesight(versions[i]))'
      /\ Ready(stored)' <=> Ready(stored)
  BY <1>1, SameVersions
<1>3. TypeOK /\ CopyOrdered /\ PassProgress /\ ReadyIsKnown /\ ReadyIsDeployed
  BY DEF IInv
<1>4. \/ /\ results' = results
         /\ deployed[c] \notin {cp.value, Mixed}
         /\ deployed' = [deployed EXCEPT ![c] = Mixed]
      \/ /\ results' = [results EXCEPT ![c] = "continue"]
         /\ deployed' = [deployed EXCEPT ![c] = cp.value]
      \/ /\ \E outcome \in {"requeue", "error"} :
               results' = [results EXCEPT ![c] = outcome]
         /\ deployed' = deployed \/ deployed' = [deployed EXCEPT ![c] = cp.value]
  BY DEF RollOut, RoutineContinues, RoutineStops, Finish
<1>5. cp.value \in Values
  BY <1>3 DEF TypeOK, Version
<1>6. TypeOK'
  <2>1. /\ results \in [Components -> Outcomes \cup {"none", "running"}]
        /\ deployed \in [Components -> Values \cup {Nothing, Mixed}]
    BY <1>3 DEF TypeOK
  <2>2. results' \in [Components -> Outcomes \cup {"none", "running"}]
    BY <1>4, <2>1 DEF Outcomes
  <2>3. deployed' \in [Components -> Values \cup {Nothing, Mixed}]
    BY <1>4, <1>5, <2>1
  <2> QED BY <1>1, <1>3, <2>2, <2>3 DEF TypeOK
<1>7. CopyOrdered' /\ ReadyIsKnown'
  BY <1>1, <1>2, <1>3 DEF CopyOrdered, ReadyIsKnown, Working
<1>8. PassProgress'
  <2>1. /\ results \in [Components -> Outcomes \cup {"none", "running"}]
        /\ deployed \in [Components -> Values \cup {Nothing, Mixed}]
    BY <1>3 DEF TypeOK
  <2>2. ASSUME NEW d \in Components, results'[d] = "continue"
        PROVE  deployed'[d] = cp.value
    <3>1. CASE d = c
      BY <1>1, <1>4, <2>1, <2>2, <3>1
    <3>2. CASE d # c
      BY <1>1, <1>3, <1>4, <2>1, <2>2, <3>2 DEF PassProgress
    <3> QED BY <3>1, <3>2
  <2> QED BY <1>1, <1>3, <2>2 DEF PassProgress, IsIn
<1>9. ReadyIsDeployed'
  <2>1. CASE Ready(stored)
    <3>1. cp.value = stored.value
      BY <1>1, <1>3, <2>1 DEF ReadyIsKnown, CopyOrdered, Working
    <3>2. deployed[c] = cp.value
      BY <1>3, <2>1, <3>1 DEF ReadyIsDeployed
    <3>3. \A d \in Components : deployed'[d] = deployed[d]
      BY <1>3, <1>4, <3>2 DEF TypeOK
    <3> QED BY <1>2, <1>3, <2>1, <3>3 DEF ReadyIsDeployed
  <2>2. CASE ~Ready(stored)
    BY <1>2, <2>2 DEF ReadyIsDeployed
  <2> QED BY <2>1, <2>2
<1>10. NoForesight(cp)' /\ NotForgotten'
  BY <1>1 DEF IInv, NoForesight, NotForgotten
<1> QED BY <1>2, <1>6, <1>7, <1>8, <1>9, <1>10 DEF IInv

\* The end of a pass without a write.
LEMMA AggregationKeepsIInv ==
  ASSUME IInv, PassIsFinal \/ PassSucceeds
  PROVE  IInv'
<1>1. /\ pc = "reconcile" /\ versions' = versions /\ deployed' = deployed
  BY DEF PassIsFinal, PassSucceeds
<1>2. /\ stored' = stored /\ cached' = cached
      /\ VersionsOrdered'
      /\ (\A i \in 1..Len(versions) : NoForesight(versions[i]))'
      /\ Ready(stored)' <=> Ready(stored)
  BY <1>1, SameVersions
<1>3. /\ TypeOK /\ CopyOrdered /\ PassProgress /\ ReadyIsKnown
      /\ ReadyIsDeployed /\ NoForesight(cp)
  BY DEF IInv
<1>4. ReadyIsDeployed'
  BY <1>1, <1>2, <1>3 DEF ReadyIsDeployed
<1>5. CASE PassIsFinal
  <2>1. /\ pc' = "idle" /\ cp' = cp /\ mode' = mode /\ queued' = TRUE
        /\ results' = [c \in Components |-> "none"]
    BY <1>5, <1>3 DEF PassIsFinal, EndPass, TypeOK
  <2>2. TypeOK'
    BY <1>1, <1>3, <2>1 DEF TypeOK
  <2>3. CopyOrdered' /\ PassProgress' /\ ReadyIsKnown' /\ NotForgotten'
    BY <1>2, <1>3, <2>1
       DEF CopyOrdered, PassProgress, ReadyIsKnown, NotForgotten, Working
  <2>4. NoForesight(cp)'
    BY <1>3, <2>1 DEF NoForesight
  <2> QED BY <1>2, <1>4, <2>2, <2>3, <2>4 DEF IInv
<1>6. CASE PassSucceeds
  <2> DEFINE new == SetCondition(cp.conds, "ready", cp.gen)
  <2>1. IsIn(cp, mode)
    BY <1>1, <1>3 DEF PassProgress
  <2>2. /\ pc' = "status" /\ cp' = [cp EXCEPT !.conds = new]
        /\ mode' = mode /\ results' = results /\ queued' = queued
        /\ \A c \in Components : results[c] = "continue"
    BY <1>6, <2>1 DEF PassSucceeds
  <2>3. /\ new \in Seq(Condition)
        /\ \A k \in DOMAIN new : new[k].gen <= cp.gen
        /\ GetCondition(new, cp.gen) = "ready"
    <3>1. cp.conds \in Seq(Condition) /\ cp.gen \in Nat
      BY <1>3 DEF TypeOK, Version
    <3>2. \A k \in DOMAIN cp.conds : cp.conds[k].gen <= cp.gen
      BY <1>3 DEF NoForesight
    <3>3. "ready" \in ConditionTypes
      BY DEF ConditionTypes
    <3> QED BY <3>1, <3>2, <3>3, SetConditionState
  <2> HIDE DEF new
  <2>4. /\ cp' \in Version /\ cp'.conds = new
        /\ cp'.gen = cp.gen /\ cp'.rv = cp.rv /\ cp'.value = cp.value
    BY <1>3, <2>2, <2>3 DEF TypeOK, Version
  <2>5. TypeOK'
    BY <1>1, <1>3, <2>2, <2>4 DEF TypeOK
  <2>6. NoForesight(cp)'
    BY <2>3, <2>4 DEF NoForesight
  <2>7. CopyOrdered' /\ ReadyIsKnown'
    BY <1>1, <1>2, <1>3, <2>2, <2>4 DEF CopyOrdered, ReadyIsKnown, Working
  <2>8. PassProgress'
    BY <1>1, <1>3, <2>2, <2>3, <2>4 DEF PassProgress, IsIn
  <2>9. NotForgotten'
    BY <2>2 DEF NotForgotten
  <2> QED BY <1>2, <1>4, <2>5, <2>6, <2>7, <2>8, <2>9 DEF IInv
<1> QED BY <1>5, <1>6

\* A refused write, and a crash: nothing but the reconciler's own state moves.
LEMMA StoppingKeepsIInv ==
  ASSUME IInv, WriteRefused \/ Crash
  PROVE  IInv'
<1>1. /\ versions' = versions /\ deployed' = deployed /\ cp' = cp /\ mode' = mode
      /\ results' = [c \in Components |-> "none"]
      /\ queued' \in BOOLEAN
      /\ \/ pc' = "idle" /\ queued' = TRUE
         \/ pc' = "down"
  BY DEF WriteRefused, Crash, EndPass, IInv, TypeOK
<1>2. /\ stored' = stored /\ cached' = cached
      /\ VersionsOrdered'
      /\ (\A i \in 1..Len(versions) : NoForesight(versions[i]))'
      /\ Ready(stored)' <=> Ready(stored)
  BY <1>1, SameVersions
<1>3. /\ TypeOK /\ CopyOrdered /\ PassProgress /\ ReadyIsKnown
      /\ ReadyIsDeployed /\ NoForesight(cp)
  BY DEF IInv
<1>4. TypeOK'
  BY <1>1, <1>3 DEF TypeOK
<1>5. ReadyIsDeployed' /\ NoForesight(cp)'
  BY <1>1, <1>2, <1>3 DEF ReadyIsDeployed, NoForesight
<1>6. CopyOrdered' /\ PassProgress' /\ ReadyIsKnown' /\ NotForgotten'
  BY <1>1, <1>2, <1>3
     DEF CopyOrdered, PassProgress, ReadyIsKnown, NotForgotten, Working
<1> QED BY <1>2, <1>4, <1>5, <1>6 DEF IInv

\* What an accepted write puts in the store.
LEMMA WrittenFacts ==
  ASSUME IInv, Writing, WriteAccepted
  PROVE  /\ Written \in Version /\ Written.live
         /\ Written.rv = stored.rv /\ Written.value = stored.value
         /\ stored.gen <= Written.gen
         /\ NoForesight(Written)
         /\ pc # "update" => /\ Written.gen = stored.gen
                             /\ Written.gen = cp.gen
                             /\ Written.conds = cp.conds
         /\ pc = "update" => \/ Written = stored
                             \/ /\ Written.gen = stored.gen + 1
                                /\ Written.conds = stored.conds
<1>1. /\ TypeOK /\ CopyOrdered /\ NoForesight(cp)
      /\ stored \in Version /\ cp \in Version
  BY EndsOfVersions DEF IInv, TypeOK
<1>2. /\ stored.live /\ cp.rv = stored.rv
      /\ cp.gen = stored.gen /\ cp.value = stored.value
  BY <1>1 DEF WriteAccepted, InTime, CopyOrdered, Working, Writing
<1>3. NoForesight(stored)
  <2>1. stored = versions[Len(versions)] /\ Len(versions) \in 1..Len(versions)
    BY <1>1, EndsOfVersions DEF stored
  <2> QED BY <2>1 DEF IInv
<1>4. CASE pc # "update"
  <2>1. Written = [stored EXCEPT !.conds = cp.conds]
    BY <1>4 DEF Written, WithStatus
  <2>2. /\ Written \in Version /\ Written.live
        /\ Written.rv = stored.rv /\ Written.value = stored.value
        /\ Written.gen = stored.gen /\ Written.conds = cp.conds
    BY <1>1, <1>2, <2>1 DEF Version
  <2>3. NoForesight(Written)
    BY <1>1, <1>2, <2>2 DEF NoForesight
  <2>4. stored.gen <= Written.gen
    BY <1>1, <2>2 DEF Version
  <2> QED BY <1>2, <1>4, <2>2, <2>3, <2>4
<1>5. CASE pc = "update"
  <2> DEFINE new == [stored EXCEPT !.value = cp.value, !.form = "full"]
  <2>1. Written = IF new = stored THEN stored ELSE [new EXCEPT !.gen = @ + 1]
    BY <1>5 DEF Written, WithSpec
  <2>2. CASE new = stored
    <3>1. Written = stored
      BY <2>1, <2>2
    <3>2. stored.gen <= stored.gen
      BY <1>1 DEF Version
    <3> QED BY <1>1, <1>2, <1>3, <1>5, <3>1, <3>2
  <2>3. CASE new # stored
    <3>1. /\ new \in Version /\ new.live /\ new.rv = stored.rv
          /\ new.value = stored.value /\ new.gen = stored.gen
          /\ new.conds = stored.conds
      BY <1>1, <1>2 DEF Version, Forms
    <3> HIDE DEF new
    <3>2. Written = [new EXCEPT !.gen = @ + 1]
      BY <2>1, <2>3
    <3>3. /\ Written \in Version /\ Written.live /\ Written.rv = stored.rv
          /\ Written.value = stored.value /\ Written.gen = stored.gen + 1
          /\ Written.conds = stored.conds
      BY <3>1, <3>2 DEF Version
    <3>4. stored.gen \in Nat /\ stored.conds \in Seq(Condition)
      BY <1>1 DEF Version
    <3>5. NoForesight(Written)
      <4>1. ASSUME NEW k \in DOMAIN stored.conds
            PROVE  stored.conds[k].gen <= stored.gen + 1
        <5>1. stored.conds[k] \in Condition
          BY <3>4, LenProperties
        <5>2. stored.conds[k].gen \in Nat
          BY <5>1 DEF Condition
        <5>3. stored.conds[k].gen <= stored.gen
          BY <1>3 DEF NoForesight
        <5> QED BY <3>4, <5>2, <5>3
      <4> QED BY <3>3, <4>1 DEF NoForesight
    <3> QED BY <1>5, <3>3, <3>4, <3>5
  <2> QED BY <2>2, <2>3
<1> QED BY <1>4, <1>5

\* An accepted write leaves the versions in order, makes the object ready only
\* at the end of a successful pass, and makes it not ready otherwise, unless
\* it changes nothing.
LEMMA WriteEffect ==
  ASSUME IInv, Writing, WriteAccepted, Store(Written)
  PROVE  /\ versions' \in Seq(Version) /\ versions' # << >>
         /\ VersionsOrdered'
         /\ (\A i \in 1..Len(versions) : NoForesight(versions[i]))'
         /\ cached' = cached
         /\ stored' \in Version /\ NoForesight(stored')
         /\ stored'.value = stored.value /\ stored.value = cp.value
         /\ stored.gen = cp.gen
         /\ cached.gen <= stored'.gen
         /\ pc # "update" => /\ stored'.gen = stored.gen
                             /\ stored'.live
                             /\ stored'.conds = cp.conds
         /\ pc = "migrate" => ~Ready(stored)'
         /\ pc = "status" => Ready(stored)'
         /\ pc = "update" =>
              \/ stored' = stored /\ versions' = versions
              \/ ~Ready(stored)' /\ Len(versions') = Len(versions) + 1
<1>1. /\ TypeOK /\ VersionsOrdered /\ CopyOrdered /\ PassProgress /\ NoForesight(cp)
      /\ \A i \in 1..Len(versions) : NoForesight(versions[i])
  BY DEF IInv
<1>2. /\ stored \in Version /\ cp \in Version /\ cached \in Version
      /\ cached.gen <= stored.gen
      /\ cp.gen = stored.gen /\ cp.value = stored.value /\ stored.live
  BY <1>1, EndsOfVersions, EndsOrdered
     DEF TypeOK, WriteAccepted, InTime, CopyOrdered, Working, Writing
<1>3. /\ Written \in Version /\ Written.live
      /\ Written.rv = stored.rv /\ Written.value = stored.value
      /\ stored.gen <= Written.gen
      /\ NoForesight(Written)
      /\ pc # "update" => /\ Written.gen = stored.gen
                          /\ Written.gen = cp.gen
                          /\ Written.conds = cp.conds
      /\ pc = "update" => \/ Written = stored
                          \/ /\ Written.gen = stored.gen + 1
                             /\ Written.conds = stored.conds
  BY WrittenFacts
<1>4. /\ versions' \in Seq(Version) /\ versions' # << >>
      /\ cached' = cached
      /\ \/ /\ Written = stored
            /\ versions' = versions
            /\ stored' = stored
         \/ /\ Written # stored
            /\ stored' = [Written EXCEPT !.rv = @ + 1]
            /\ Len(versions') = Len(versions) + 1
  BY <1>1, <1>3, StoreEffect
<1>5. VersionsOrdered' /\ (\A i \in 1..Len(versions) : NoForesight(versions[i]))'
  BY <1>1, <1>3, StoreKeepsOrder
<1>6. /\ stored' \in Version
      /\ stored'.gen = Written.gen /\ stored'.value = Written.value
      /\ stored'.live /\ stored'.conds = Written.conds
  <2>1. CASE stored' = stored /\ Written = stored
    BY <1>2, <2>1
  <2>2. CASE stored' = [Written EXCEPT !.rv = @ + 1]
    BY <1>3, <2>2 DEF Version
  <2> QED BY <1>4, <2>1, <2>2
<1>7. NoForesight(stored')
  BY <1>3, <1>6 DEF NoForesight
<1>8. cached.gen <= stored'.gen
  BY <1>2, <1>3, <1>6 DEF Version
<1>9. pc = "migrate" => ~Ready(stored)'
  <2>1. pc = "migrate" => GetCondition(stored'.conds, stored'.gen) = "deploying"
    BY <1>1, <1>3, <1>6 DEF PassProgress, IsIn
  <2> QED BY <2>1 DEF Ready, IsIn
<1>10. pc = "status" => Ready(stored)'
  <2>1. pc = "status" => GetCondition(stored'.conds, stored'.gen) = "ready"
    BY <1>1, <1>3, <1>6 DEF PassProgress, IsIn
  <2> QED BY <1>6, <2>1 DEF Ready, IsIn
<1>11. ASSUME pc = "update"
       PROVE  \/ stored' = stored /\ versions' = versions
              \/ ~Ready(stored)' /\ Len(versions') = Len(versions) + 1
  <2>1. CASE Written = stored
    BY <1>4, <2>1
  <2>2. CASE Written # stored
    <3>1. stored'.gen = stored.gen + 1 /\ stored'.conds = stored.conds
      BY <1>3, <1>6, <1>11, <2>2
    <3>2. /\ stored.gen \in Nat /\ stored'.gen \in Nat
          /\ stored'.conds \in Seq(Condition)
      BY <1>2, <1>6 DEF Version
    <3>3. NoForesight(stored)
      <4>1. stored = versions[Len(versions)] /\ Len(versions) \in 1..Len(versions)
        BY <1>1, EndsOfVersions DEF stored
      <4> QED BY <1>1, <4>1
    <3>4. ASSUME NEW k \in DOMAIN stored'.conds
          PROVE  stored'.conds[k].gen < stored'.gen
      <4>1. stored'.conds[k] \in Condition
        BY <3>2, LenProperties
      <4>2. stored'.conds[k].gen \in Nat
        BY <4>1 DEF Condition
      <4>3. stored'.conds[k].gen <= stored.gen
        BY <3>1, <3>3 DEF NoForesight
      <4> QED BY <3>1, <3>2, <4>2, <4>3
    <3>5. GetCondition(stored'.conds, stored'.gen) # "ready"
      BY <3>2, <3>4, NewGenerationIsNotReady
    <3>6. ~Ready(stored)'
      BY <3>5 DEF Ready, IsIn
    <3> QED BY <1>4, <2>2, <3>6
  <2> QED BY <2>1, <2>2
<1> QED BY <1>2, <1>3, <1>4, <1>5, <1>6, <1>7, <1>8, <1>9, <1>10, <1>11

\* The three writes of the object, and one whose answer is lost.
LEMMA WritesKeepIInv ==
  ASSUME IInv, MigrateStatus \/ WriteReady \/ WriteObject
  PROVE  IInv'
<1>1. /\ Writing /\ WriteAccepted /\ Store(Written)
      /\ cp' = stored' /\ deployed' = deployed
  BY DEF MigrateStatus, WriteReady, WriteObject, Writing
<1>2. /\ TypeOK /\ PassProgress /\ ReadyIsKnown /\ ReadyIsDeployed
      /\ CopyOrdered /\ NotForgotten
  BY DEF IInv
<1>3. /\ versions' \in Seq(Version) /\ versions' # << >>
      /\ VersionsOrdered'
      /\ (\A i \in 1..Len(versions) : NoForesight(versions[i]))'
      /\ cached' = cached
      /\ stored' \in Version /\ NoForesight(stored')
      /\ stored'.value = stored.value /\ stored.value = cp.value
      /\ stored.gen = cp.gen
      /\ cached.gen <= stored'.gen
      /\ pc # "update" => /\ stored'.gen = stored.gen
                          /\ stored'.live
                          /\ stored'.conds = cp.conds
      /\ pc = "migrate" => ~Ready(stored)'
      /\ pc = "status" => Ready(stored)'
      /\ pc = "update" =>
           \/ stored' = stored /\ versions' = versions
           \/ ~Ready(stored)' /\ Len(versions') = Len(versions) + 1
  BY <1>1, WriteEffect
<1>4. /\ cached.gen \in Nat /\ stored'.gen \in Nat /\ stored'.rv \in Nat
      /\ cp.gen \in Nat
  BY <1>2, <1>3, EndsOfVersions DEF Version, TypeOK
<1>5. NoForesight(cp)'
  BY <1>1, <1>3 DEF NoForesight
<1>6. CASE MigrateStatus
  <2>1. /\ pc = "migrate" /\ pc' = "reconcile" /\ mode' = "deploying"
        /\ results' = [c \in Components |-> "running"] /\ queued' = queued
    BY <1>6 DEF MigrateStatus, StartRoutines
  <2>2. TypeOK'
    BY <1>1, <1>2, <1>3, <2>1 DEF TypeOK
  <2>3. CopyOrdered'
    BY <1>1, <1>2, <1>3, <1>4, <2>1 DEF CopyOrdered, Working
  <2>4. PassProgress'
    BY <1>1, <1>2, <1>3, <2>1 DEF PassProgress, IsIn
  <2>5. ReadyIsKnown' /\ ReadyIsDeployed' /\ NotForgotten'
    BY <1>3, <2>1 DEF ReadyIsKnown, ReadyIsDeployed, NotForgotten
  <2> QED BY <1>3, <1>5, <2>2, <2>3, <2>4, <2>5 DEF IInv
<1>7. CASE WriteReady
  <2>1. /\ pc = "status" /\ pc' = "update" /\ mode' = mode
        /\ results' = results /\ queued' = queued
    BY <1>7 DEF WriteReady
  <2>2. TypeOK'
    BY <1>1, <1>2, <1>3, <2>1 DEF TypeOK
  <2>3. Ready(stored)'
    BY <1>3, <2>1
  <2>4. cp.gen <= cached.gen /\ cached.gen = stored'.gen
    <3>1. cp.gen <= cached.gen
      BY <1>2, <2>1 DEF CopyOrdered, Working
    <3> QED BY <1>3, <1>4, <2>1, <3>1
  <2>5. CopyOrdered'
    BY <1>1, <1>3, <1>4, <2>1, <2>3, <2>4 DEF CopyOrdered
  <2>6. ReadyIsKnown'
    BY <1>1, <1>3, <2>4 DEF ReadyIsKnown
  <2>7. ReadyIsDeployed'
    BY <1>1, <1>2, <1>3, <2>1 DEF ReadyIsDeployed, PassProgress
  <2>8. PassProgress' /\ NotForgotten'
    BY <2>1 DEF PassProgress, NotForgotten
  <2> QED BY <1>3, <1>5, <2>2, <2>5, <2>6, <2>7, <2>8 DEF IInv
<1>8. CASE WriteObject
  <2>1. /\ pc = "update" /\ pc' = "idle" /\ mode' = mode
        /\ results' = [c \in Components |-> "none"] /\ queued' = queued
    BY <1>2, <1>8 DEF WriteObject, EndPass, TypeOK
  <2>2. TypeOK'
    BY <1>1, <1>2, <1>3, <2>1 DEF TypeOK
  <2>3. CopyOrdered' /\ PassProgress'
    BY <2>1 DEF CopyOrdered, PassProgress, Working
  <2>4. CASE stored' = stored /\ versions' = versions
    <3>1. Ready(stored)' <=> Ready(stored)
      BY <2>4 DEF Ready, IsIn
    <3>2. Ready(stored)
      BY <1>1, <1>2, <2>1 DEF CopyOrdered, Working, WriteAccepted, InTime
    <3>3. ReadyIsKnown' /\ ReadyIsDeployed' /\ NotForgotten'
      BY <1>1, <1>2, <1>3, <2>1, <2>4, <3>1, <3>2
         DEF ReadyIsKnown, ReadyIsDeployed, NotForgotten, Working
    <3> QED BY <1>3, <1>5, <2>2, <2>3, <3>3 DEF IInv
  <2>5. CASE ~Ready(stored)' /\ Len(versions') = Len(versions) + 1
    <3>1. Len(versions') > 1
      <4>1. Len(versions) \in Nat /\ Len(versions) >= 1
        BY <1>2, EndsOfVersions
      <4> QED BY <2>5, <4>1
    <3>2. ReadyIsKnown' /\ ReadyIsDeployed'
      BY <2>5 DEF ReadyIsKnown, ReadyIsDeployed
    <3>3. NotForgotten'
      BY <3>1 DEF NotForgotten
    <3> QED BY <1>3, <1>5, <2>2, <2>3, <3>2, <3>3 DEF IInv
  <2> QED BY <1>3, <2>1, <2>4, <2>5
<1> QED BY <1>6, <1>7, <1>8

\* A write that fails, whether or not it reached the store.
LEMMA FailedWriteKeepsIInv ==
  ASSUME IInv, WriteFails
  PROVE  IInv'
<1>1. /\ Writing /\ WriteAccepted
      /\ cp' = cp /\ deployed' = deployed /\ mode' = mode
      /\ pc' = "idle" /\ queued' = TRUE
      /\ results' = [c \in Components |-> "none"]
      /\ versions' = versions \/ Store(Written)
  BY DEF WriteFails, EndPass, IInv, TypeOK
<1>2. /\ TypeOK /\ PassProgress /\ ReadyIsKnown /\ ReadyIsDeployed
      /\ CopyOrdered /\ NoForesight(cp)
  BY DEF IInv
<1>3. CopyOrdered' /\ PassProgress' /\ NotForgotten' /\ NoForesight(cp)'
  BY <1>1, <1>2 DEF CopyOrdered, PassProgress, NotForgotten, NoForesight, Working
<1>4. CASE versions' = versions
  <2>1. /\ stored' = stored /\ cached' = cached
        /\ VersionsOrdered'
        /\ (\A i \in 1..Len(versions) : NoForesight(versions[i]))'
        /\ Ready(stored)' <=> Ready(stored)
    BY <1>4, SameVersions
  <2>2. TypeOK'
    BY <1>1, <1>2, <1>4 DEF TypeOK
  <2>3. ReadyIsKnown' /\ ReadyIsDeployed'
    BY <1>1, <1>2, <2>1 DEF ReadyIsKnown, ReadyIsDeployed, Working
  <2> QED BY <1>3, <2>1, <2>2, <2>3 DEF IInv
<1>5. CASE Store(Written)
  <2>1. /\ versions' \in Seq(Version) /\ versions' # << >>
        /\ VersionsOrdered'
        /\ (\A i \in 1..Len(versions) : NoForesight(versions[i]))'
        /\ cached' = cached
        /\ stored' \in Version
        /\ stored'.value = stored.value /\ stored.value = cp.value
        /\ stored.gen = cp.gen
        /\ cached.gen <= stored'.gen
        /\ pc # "update" => stored'.gen = stored.gen
        /\ pc = "migrate" => ~Ready(stored)'
        /\ pc = "status" => Ready(stored)'
        /\ pc = "update" => stored' = stored \/ ~Ready(stored)'
    BY <1>1, <1>5, WriteEffect
  <2>2. TypeOK'
    BY <1>1, <1>2, <2>1 DEF TypeOK
  <2>3. CASE pc = "migrate"
    <3>1. ReadyIsKnown' /\ ReadyIsDeployed'
      BY <2>1, <2>3 DEF ReadyIsKnown, ReadyIsDeployed
    <3> QED BY <1>3, <2>1, <2>2, <3>1 DEF IInv
  <2>4. CASE pc = "status"
    <3>1. cp.gen <= cached.gen
      BY <1>2, <2>4 DEF CopyOrdered, Working
    <3>2. cached.gen \in Nat /\ cp.gen \in Nat
      BY <1>2, EndsOfVersions DEF Version, TypeOK
    <3>3. cached.gen = stored'.gen
      BY <2>1, <2>4, <3>1, <3>2
    <3>4. ReadyIsKnown'
      BY <1>1, <2>1, <3>3 DEF ReadyIsKnown, Working
    <3>5. ReadyIsDeployed'
      BY <1>1, <1>2, <2>1, <2>4 DEF ReadyIsDeployed, PassProgress
    <3> QED BY <1>3, <2>1, <2>2, <3>4, <3>5 DEF IInv
  <2>5. CASE pc = "update"
    <3>1. stored' = stored => (Ready(stored)' <=> Ready(stored))
      BY DEF Ready, IsIn
    <3>2. ReadyIsKnown' /\ ReadyIsDeployed'
      BY <1>1, <1>2, <2>1, <2>5, <3>1 DEF ReadyIsKnown, ReadyIsDeployed, Working
    <3> QED BY <1>3, <2>1, <2>2, <3>2 DEF IInv
  <2> QED BY <1>1, <2>3, <2>4, <2>5 DEF Writing
<1> QED BY <1>1, <1>4, <1>5

\* The owner's edits and deletion: a later version that is not ready.
LEMMA OwnerKeepsIInv ==
  ASSUME IInv, Edit \/ Delete
  PROVE  /\ IInv'
         /\ stored' \in Version /\ ~Ready(stored)' /\ deployed' = deployed
         /\ \/ Edit /\ stored'.live
            \/ ~stored'.live /\ stored'.value = stored.value
<1>1. /\ cp' = cp /\ pc' = pc /\ mode' = mode /\ results' = results
      /\ queued' = queued /\ deployed' = deployed /\ stored.live
  BY DEF Edit, Delete
<1>2. /\ TypeOK /\ PassProgress /\ CopyOrdered /\ NoForesight(cp)
      /\ VersionsOrdered /\ NotForgotten
      /\ \A i \in 1..Len(versions) : NoForesight(versions[i])
  BY DEF IInv
<1>3. /\ stored \in Version /\ stored.gen \in Nat /\ stored.rv \in Nat
      /\ cached.gen <= stored.gen /\ cached.gen \in Nat
      /\ stored.conds \in Seq(Condition)
      /\ Len(versions) \in Nat /\ Len(versions) >= 1
      /\ cp.gen \in Nat /\ cp.rv \in Nat
  BY <1>2, EndsOfVersions, EndsOrdered DEF Version, TypeOK
<1>4. NoForesight(stored)
  <2>1. stored = versions[Len(versions)] /\ Len(versions) \in 1..Len(versions)
    BY <1>2, EndsOfVersions DEF stored
  <2> QED BY <1>2, <2>1
<1>5. \E o \in Version :
        /\ Store(o) /\ o # stored
        /\ o.rv = stored.rv /\ o.conds = stored.conds
        /\ \/ Edit /\ o.live /\ o.gen = stored.gen + 1
           \/ ~o.live /\ o.gen = stored.gen /\ o.value = stored.value
  <2>1. CASE Edit
    <3>1. PICK v \in Values, f \in Forms :
            Store([stored EXCEPT !.value = v, !.form = f, !.gen = @ + 1])
      BY <2>1 DEF Edit
    <3> DEFINE o == [stored EXCEPT !.value = v, !.form = f, !.gen = @ + 1]
    <3>2. /\ o.rv = stored.rv /\ o.conds = stored.conds
          /\ o.live = stored.live /\ o.gen = stored.gen + 1
          /\ o \in Version
      <4>1. /\ v \in Values /\ f \in Forms /\ stored.gen + 1 \in Nat
        BY <3>1, <1>3
      <4>2. [stored EXCEPT !.value = v] \in Version
        BY <1>3, <4>1 DEF Version
      <4>3. [[stored EXCEPT !.value = v] EXCEPT !.form = f] \in Version
        BY <4>1, <4>2 DEF Version
      <4>4. o \in Version
        BY <4>1, <4>3, <1>3 DEF Version
      <4>5. /\ o.rv = stored.rv /\ o.conds = stored.conds
            /\ o.live = stored.live /\ o.gen = stored.gen + 1
        BY <1>3 DEF Version
      <4> QED BY <4>4, <4>5
    <3>3. Store(o)
      BY <3>1
    <3> HIDE DEF o
    <3>4. o # stored
      BY <1>3, <3>2
    <3> QED BY <1>1, <2>1, <3>2, <3>3, <3>4
  <2>2. CASE Delete
    <3> DEFINE o == [stored EXCEPT !.live = FALSE]
    <3>1. Store(o)
      BY <2>2 DEF Delete
    <3>2. /\ o \in Version /\ o.rv = stored.rv /\ o.conds = stored.conds
          /\ ~o.live /\ o.gen = stored.gen /\ o.value = stored.value
      BY <1>3 DEF Version
    <3> HIDE DEF o
    <3>3. o # stored
      BY <1>1, <3>2
    <3> QED BY <3>1, <3>2, <3>3
  <2> QED BY <2>1, <2>2
<1>6. PICK o \in Version :
        /\ Store(o) /\ o # stored
        /\ o.rv = stored.rv /\ o.conds = stored.conds
        /\ \/ Edit /\ o.live /\ o.gen = stored.gen + 1
           \/ ~o.live /\ o.gen = stored.gen /\ o.value = stored.value
  BY <1>5
<1>7. stored.gen <= o.gen /\ (o.gen = stored.gen => o.value = stored.value)
  BY <1>3, <1>6
<1>8. ASSUME NEW k \in DOMAIN stored.conds
      PROVE  /\ stored.conds[k].gen \in Nat
             /\ stored.conds[k].gen <= stored.gen
             /\ stored.conds[k].gen <= o.gen
  <2>1. stored.conds[k] \in Condition
    BY <1>3, LenProperties
  <2>2. stored.conds[k].gen \in Nat
    BY <2>1 DEF Condition
  <2>3. stored.conds[k].gen <= stored.gen
    BY <1>4 DEF NoForesight
  <2> QED BY <1>3, <1>6, <2>2, <2>3
<1>9. NoForesight(o)
  BY <1>6, <1>8 DEF NoForesight
<1>10. VersionsOrdered' /\ (\A i \in 1..Len(versions) : NoForesight(versions[i]))'
  BY <1>2, <1>6, <1>7, <1>9, StoreKeepsOrder
<1>11. /\ versions' \in Seq(Version) /\ versions' # << >>
       /\ cached' = cached
       /\ stored' = [o EXCEPT !.rv = @ + 1]
       /\ Len(versions') = Len(versions) + 1
  BY <1>2, <1>6, StoreEffect
<1>12. /\ stored'.rv = stored.rv + 1 /\ stored'.gen = o.gen
       /\ stored'.value = o.value
       /\ stored'.conds = stored.conds /\ stored'.live = o.live
       /\ stored' \in Version
  <2>1. o.rv \in Nat /\ o.rv + 1 \in Nat
    BY <1>3, <1>6
  <2>2. [o EXCEPT !.rv = @ + 1] \in Version
    BY <2>1 DEF Version
  <2>3. /\ stored'.rv = o.rv + 1 /\ stored'.gen = o.gen
        /\ stored'.value = o.value
        /\ stored'.conds = o.conds /\ stored'.live = o.live
    BY <1>11 DEF Version
  <2> QED BY <1>6, <1>11, <2>2, <2>3
<1>13. ~Ready(stored)'
  <2>1. CASE ~o.live
    BY <1>12, <2>1 DEF Ready
  <2>2. CASE o.gen = stored.gen + 1
    <3>1. \A k \in DOMAIN stored.conds : stored.conds[k].gen < o.gen
      BY <1>3, <1>8, <2>2
    <3>2. o.gen \in Nat
      BY <1>3, <2>2
    <3>3. GetCondition(stored.conds, o.gen) # "ready"
      BY <1>3, <3>1, <3>2, NewGenerationIsNotReady
    <3> QED BY <1>12, <3>3 DEF Ready, IsIn
  <2> QED BY <1>6, <2>1, <2>2
<1>14. TypeOK'
  BY <1>1, <1>2, <1>11 DEF TypeOK
<1>15. CopyOrdered'
  <2>1. SUFFICES ASSUME Working
                 PROVE  /\ cp.gen <= cached.gen
                        /\ cp.rv <= stored'.rv
                        /\ cp.gen = stored'.gen => cp.value = stored'.value
                        /\ cp.rv # stored'.rv
    BY <1>1, <1>11 DEF CopyOrdered, Working
  <2>2. /\ cp.gen <= cached.gen /\ cp.rv <= stored.rv
        /\ cp.gen = stored.gen => cp.value = stored.value
    BY <1>2, <2>1 DEF CopyOrdered
  <2>3. cp.rv <= stored'.rv /\ cp.rv # stored'.rv
    BY <1>3, <1>12, <2>2
  <2>4. cp.gen = stored'.gen => cp.value = stored'.value
    <3>1. CASE o.gen = stored.gen /\ o.value = stored.value
      BY <1>12, <2>2, <3>1
    <3>2. CASE o.gen = stored.gen + 1
      BY <1>3, <1>12, <2>2, <3>2
    <3> QED BY <1>6, <3>1, <3>2
  <2> QED BY <2>2, <2>3, <2>4
<1>16. PassProgress' /\ NoForesight(cp)'
  BY <1>1, <1>2 DEF PassProgress, NoForesight, IsIn
<1>17. ReadyIsKnown' /\ ReadyIsDeployed'
  BY <1>13 DEF ReadyIsKnown, ReadyIsDeployed
<1>18. NotForgotten'
  <2>1. Len(versions') > 1
    BY <1>3, <1>11
  <2> QED BY <2>1 DEF NotForgotten
<1>19. IInv'
  BY <1>10, <1>14, <1>15, <1>16, <1>17, <1>18 DEF IInv
<1> QED BY <1>1, <1>6, <1>12, <1>13, <1>19

\* The informer moves on to the next version, or lists the stored one afresh:
\* what is left is still in order, and begins no earlier.
LEMMA InformerKeepsIInv ==
  ASSUME IInv, Deliver \/ Restart
  PROVE  IInv' /\ stored' = stored /\ deployed' = deployed
<1>1. /\ TypeOK /\ PassProgress /\ CopyOrdered /\ NoForesight(cp)
      /\ VersionsOrdered /\ ReadyIsKnown /\ ReadyIsDeployed
      /\ \A i \in 1..Len(versions) : NoForesight(versions[i])
      /\ versions \in Seq(Version) /\ versions # << >>
  BY DEF IInv, TypeOK
<1>2. /\ stored \in Version /\ cached \in Version /\ cached = versions[1]
      /\ cached.gen <= stored.gen
      /\ Len(versions) \in Nat /\ Len(versions) >= 1
      /\ stored = versions[Len(versions)]
      /\ cached.gen \in Nat /\ stored.gen \in Nat /\ cp.gen \in Nat
  BY <1>1, EndsOfVersions, EndsOrdered DEF stored, Version, TypeOK
<1>3. /\ cp' = cp /\ mode' = mode /\ results' = results /\ queued' = TRUE
      /\ deployed' = deployed
  BY DEF Deliver, Restart
<1>4. \E d \in 0..(Len(versions) - 1) :
        /\ versions' \in Seq(Version) /\ versions' # << >>
        /\ Len(versions') = Len(versions) - d
        /\ \A i \in 1..Len(versions') : versions'[i] = versions[i + d]
  <2>1. CASE Deliver
    <3>1. versions' = Tail(versions) /\ Len(versions) > 1
      BY <2>1 DEF Deliver
    <3>2. /\ versions' \in Seq(Version)
          /\ Len(versions') = Len(versions) - 1
          /\ \A i \in 1..Len(versions') : versions'[i] = versions[i + 1]
      BY <1>1, <3>1, HeadTailProperties
    <3>3. versions' # << >>
      <4>1. Len(versions') # 0
        BY <1>2, <3>1, <3>2
      <4> QED BY <4>1, EmptySeq
    <3>4. 1 \in 0..(Len(versions) - 1)
      BY <1>2, <3>1
    <3> QED BY <3>2, <3>3, <3>4
  <2>2. CASE Restart
    <3>1. versions' = <<stored>>
      BY <2>2 DEF Restart
    <3> DEFINE d == Len(versions) - 1
    <3>2. /\ versions' \in Seq(Version) /\ versions' # << >>
          /\ Len(versions') = 1 /\ versions'[1] = stored
      BY <1>2, <3>1
    <3>3. /\ d \in 0..(Len(versions) - 1)
          /\ Len(versions) - d = 1 /\ 1 + d = Len(versions)
      BY <1>2
    <3>4. \A i \in 1..1 : i = 1
      OBVIOUS
    <3>5. \A i \in 1..Len(versions') : versions'[i] = versions[i + d]
      BY <1>2, <3>2, <3>3, <3>4
    <3> QED BY <3>2, <3>3, <3>5
  <2> QED BY <2>1, <2>2
<1>5. PICK d \in 0..(Len(versions) - 1) :
        /\ versions' \in Seq(Version) /\ versions' # << >>
        /\ Len(versions') = Len(versions) - d
        /\ \A i \in 1..Len(versions') : versions'[i] = versions[i + d]
  BY <1>4
<1>6. \A i \in 1..Len(versions') : i + d \in 1..Len(versions)
  BY <1>2, <1>5
<1>7. stored' = stored
  <2>1. Len(versions') \in 1..Len(versions') /\ Len(versions') + d = Len(versions)
    BY <1>2, <1>5
  <2> QED BY <1>2, <1>5, <2>1 DEF stored
<1>8. cached' \in Version /\ cached' = versions[1 + d] /\ 1 + d \in 1..Len(versions)
  <2>1. cached' = versions'[1]
    BY <1>5 DEF cached
  <2>2. 1 \in 1..Len(versions')
    BY <1>2, <1>5
  <2> QED BY <1>1, <1>5, <1>6, <2>1, <2>2, EndsOfVersions
<1>9. VersionsOrdered'
  <2>1. ASSUME NEW i \in 1..Len(versions'), NEW j \in 1..Len(versions')
        PROVE  /\ i < j => versions'[i].rv < versions'[j].rv
               /\ i <= j => versions'[i].gen <= versions'[j].gen
               /\ versions'[i].gen = versions'[j].gen
                    => versions'[i].value = versions'[j].value
    <3>1. /\ versions'[i] = versions[i + d] /\ versions'[j] = versions[j + d]
          /\ i + d \in 1..Len(versions) /\ j + d \in 1..Len(versions)
      BY <1>5, <1>6
    <3>2. (i < j => i + d < j + d) /\ (i <= j => i + d <= j + d)
      BY <1>2, <1>5
    <3> QED BY <1>1, <3>1, <3>2 DEF VersionsOrdered
  <2> QED BY <2>1 DEF VersionsOrdered
<1>10. (\A i \in 1..Len(versions) : NoForesight(versions[i]))'
  <2>1. ASSUME NEW i \in 1..Len(versions') PROVE NoForesight(versions'[i])
    BY <1>1, <1>5, <1>6
  <2> QED BY <2>1 DEF NoForesight
<1>11. cached.gen <= cached'.gen /\ cached'.gen <= stored.gen /\ cached'.gen \in Nat
  <2>1. 1 \in 1..Len(versions) /\ Len(versions) \in 1..Len(versions)
    BY <1>2
  <2>2. 1 <= 1 + d /\ 1 + d <= Len(versions)
    BY <1>2, <1>8
  <2> QED BY <1>1, <1>2, <1>8, <2>1, <2>2 DEF VersionsOrdered, Version
<1>12. Ready(stored)' <=> Ready(stored)
  BY <1>7 DEF Ready, IsIn
<1>13. pc' \in {"idle", "migrate", "reconcile", "status", "update"}
       /\ (pc' = pc \/ pc' = "idle")
  BY <1>1 DEF Deliver, Restart, TypeOK
<1>14. TypeOK'
  BY <1>1, <1>3, <1>5, <1>13 DEF TypeOK
<1>15. CopyOrdered'
  BY <1>1, <1>2, <1>3, <1>7, <1>11, <1>12, <1>13 DEF CopyOrdered, Working
<1>16. PassProgress' /\ NoForesight(cp)'
  BY <1>1, <1>3, <1>13 DEF PassProgress, NoForesight, IsIn
<1>17. ReadyIsKnown'
  BY <1>1, <1>2, <1>3, <1>7, <1>11, <1>12, <1>13 DEF ReadyIsKnown, Working
<1>18. ReadyIsDeployed' /\ NotForgotten'
  BY <1>1, <1>3, <1>7, <1>12 DEF ReadyIsDeployed, NotForgotten
<1>19. IInv'
  BY <1>9, <1>10, <1>14, <1>15, <1>16, <1>17, <1>18 DEF IInv
<1> QED BY <1>3, <1>7, <1>19

-----------------------------------------------------------------------------
\* No condition an object may start with reads as ready.
LEMMA InitialConditionsAreNotReady ==
  ASSUME NEW conds \in InitialConditions
  PROVE  /\ conds \in Seq(Condition)
         /\ \A k \in DOMAIN conds : conds[k].gen <= 1
         /\ GetCondition(conds, 1) # "ready"
<1> DEFINE old(t, s, r) == [type |-> t, status |-> s, gen |-> 0, reason |-> r]
           now(t) == [type |-> t, status |-> TRUE, gen |-> 1,
                      reason |-> "initial_status"]
<1>1. \/ conds = << >>
      \/ conds = <<now("legacy")>>
      \/ conds = <<old("deploying", FALSE, "malformed"), now("legacy"), now("ready")>>
      \/ conds = <<old("ready", TRUE, "malformed"),
                   old("deploying", TRUE, "transition")>>
  BY DEF InitialConditions
<1>2. /\ now("legacy") \in Condition /\ now("ready") \in Condition
      /\ old("deploying", FALSE, "malformed") \in Condition
      /\ old("ready", TRUE, "malformed") \in Condition
      /\ old("deploying", TRUE, "transition") \in Condition
  BY DEF Condition, ConditionTypes, Reasons
<1>3. /\ conds \in Seq(Condition)
      /\ \A k \in DOMAIN conds :
           /\ conds[k].gen <= 1
           /\ conds[k].type = "ready" /\ conds[k].gen = 1 =>
                \E j \in DOMAIN conds : j < k /\ conds[j].status
  <2>1. CASE conds = << >>
    BY <2>1
  <2>2. CASE conds = <<now("legacy")>>
    BY <1>2, <2>2
  <2>3. CASE conds = <<old("deploying", FALSE, "malformed"),
                       now("legacy"), now("ready")>>
    <3> DEFINE a == old("deploying", FALSE, "malformed")
               b == now("legacy")
               c == now("ready")
    <3>1. /\ a.gen <= 1 /\ b.gen <= 1 /\ c.gen <= 1
          /\ a.type # "ready" /\ b.type # "ready" /\ b.status
          /\ a \in Condition /\ b \in Condition /\ c \in Condition
      BY <1>2
    <3>2. conds = <<a, b, c>>
      BY <2>3
    <3> HIDE DEF a, b, c
    <3>3. /\ conds \in Seq(Condition) /\ DOMAIN conds = 1..3
          /\ conds[1] = a /\ conds[2] = b /\ conds[3] = c
      BY <3>1, <3>2
    <3>4. \A k \in 1..3 : k = 1 \/ k = 2 \/ k = 3
      OBVIOUS
    <3>5. 2 \in 1..3 /\ 2 < 3
      OBVIOUS
    <3> QED BY <3>1, <3>3, <3>4, <3>5
  <2>4. CASE conds = <<old("ready", TRUE, "malformed"),
                       old("deploying", TRUE, "transition")>>
    BY <1>2, <2>4
  <2> QED BY <1>1, <2>1, <2>2, <2>3, <2>4
<1>4. ASSUME GetCondition(conds, 1) = "ready" PROVE FALSE
  <2>1. PICK i \in DOMAIN conds :
          /\ conds[i].type = "ready" /\ conds[i].gen = 1
          /\ \A j \in DOMAIN conds : conds[j].status => i <= j
    BY <1>3, <1>4, ReadyCondition
  <2>2. PICK j \in DOMAIN conds : j < i /\ conds[j].status
    BY <1>3, <2>1
  <2>3. i \in Nat /\ j \in Nat
    BY <1>3, LenProperties
  <2> QED BY <2>1, <2>2, <2>3
<1> QED BY <1>3, <1>4

\* The invariant holds at the start.
LEMMA InitIInv == Init => IInv
<1> SUFFICES ASSUME Init PROVE IInv
  OBVIOUS
<1>1. PICK v \in Values, f \in Forms, cs \in InitialConditions :
        versions = <<[live |-> TRUE, rv |-> 0, gen |-> 1, value |-> v,
                      form |-> f, conds |-> cs]>>
  BY DEF Init
<1> DEFINE first == [live |-> TRUE, rv |-> 0, gen |-> 1, value |-> v,
                     form |-> f, conds |-> cs]
<1>2. /\ cs \in Seq(Condition)
      /\ \A k \in DOMAIN cs : cs[k].gen <= 1
      /\ GetCondition(cs, 1) # "ready"
  BY InitialConditionsAreNotReady
<1>3. first \in Version /\ NoForesight(first) /\ ~Ready(first)
  BY <1>2 DEF Version, NoForesight, Ready, IsIn
<1>4. versions = <<first>>
  BY <1>1
<1>5. first.gen <= first.gen
  OBVIOUS
<1> HIDE DEF first
<1>6. /\ versions \in Seq(Version) /\ versions # << >>
      /\ Len(versions) = 1 /\ versions[1] = first
  BY <1>3, <1>4
<1>7. stored = first /\ cached = first
  BY <1>4, <1>6 DEF stored, cached
<1>8. \A i \in 1..1 : i = 1
  OBVIOUS
<1>9. /\ cp = first /\ pc = "idle" /\ mode = "deploying" /\ queued = TRUE
      /\ results = [c \in Components |-> "none"]
      /\ deployed = [c \in Components |-> Nothing]
  BY <1>7 DEF Init
<1>10. TypeOK
  BY <1>3, <1>6, <1>9 DEF TypeOK
<1>11. VersionsOrdered /\ \A i \in 1..Len(versions) : NoForesight(versions[i])
  BY <1>3, <1>5, <1>6, <1>8 DEF VersionsOrdered
<1>12. /\ NoForesight(cp) /\ CopyOrdered /\ PassProgress /\ ReadyIsKnown
       /\ ReadyIsDeployed /\ NotForgotten
  BY <1>3, <1>7, <1>9
     DEF CopyOrdered, PassProgress, ReadyIsKnown, ReadyIsDeployed, NotForgotten,
         Working
<1> QED BY <1>10, <1>11, <1>12 DEF IInv

\* Every step keeps it.
LEMMA NextIInv == IInv /\ [Next]_vars => IInv'
<1> SUFFICES ASSUME IInv, [Next]_vars PROVE IInv'
  OBVIOUS
<1>1. CASE Edit \/ Delete
  BY <1>1, OwnerKeepsIInv
<1>2. CASE Deliver \/ Restart
  BY <1>2, InformerKeepsIInv
<1>3. CASE FetchSettled \/ FetchPending \/ FetchInvalid
  BY <1>3, FetchKeepsIInv
<1>4. CASE \E c \in Components : RollOut(c) \/ RoutineContinues(c) \/ RoutineStops(c)
  BY <1>4, RoutinesKeepIInv
<1>5. CASE PassIsFinal \/ PassSucceeds
  BY <1>5, AggregationKeepsIInv
<1>6. CASE MigrateStatus \/ WriteReady \/ WriteObject
  BY <1>6, WritesKeepIInv
<1>7. CASE WriteRefused \/ Crash
  BY <1>7, StoppingKeepsIInv
<1>8. CASE WriteFails
  BY <1>8, FailedWriteKeepsIInv
<1>9. CASE UNCHANGED vars
  BY <1>9 DEF vars, IInv, TypeOK, VersionsOrdered, NoForesight, CopyOrdered,
              PassProgress, ReadyIsKnown, ReadyIsDeployed, NotForgotten,
              Ready, IsIn, Working, stored, cached
<1> QED BY <1>1, <1>2, <1>3, <1>4, <1>5, <1>6, <1>7, <1>8, <1>9
        DEF Next, Step, Fault

\* For any components, values and number of edits: the inductive invariant
\* holds in every reachable state of the ControlPlane's life.
THEOREM Invariance == Spec => []IInv
<1>1. Init => IInv
  BY InitIInv
<1>2. IInv /\ [Next]_vars => IInv'
  BY NextIInv
<1> QED BY <1>1, <1>2, PTL DEF Spec

\* The reconciler's state keeps its type (controller.go, states.go).
THEOREM TypeCorrect == Spec => []TypeOK
<1>1. IInv => TypeOK
  BY DEF IInv
<1> QED BY <1>1, Invariance, PTL

\* A ControlPlane marked ready (states.go:109-112, 182-185) for its current
\* generation runs what its spec asks for in every component, whatever is read
\* late, edited meanwhile, refused, lost or interrupted.
THEOREM ReadyIsTrue == Spec => []ReadyIsDeployed
<1>1. IInv => ReadyIsDeployed
  BY DEF IInv
<1> QED BY <1>1, Invariance, PTL

\* A ControlPlane that is not ready always has a pass running, queued or on
\* its way (controller.go:46-70).
THEOREM NothingIsForgotten == Spec => []NotForgotten
<1>1. IInv => NotForgotten
  BY DEF IInv
<1> QED BY <1>1, Invariance, PTL

-----------------------------------------------------------------------------
(***************************************************************************)
(* What a step does to the stored object and to the cluster, seen from     *)
(* outside.                                                                *)
(***************************************************************************)

\* Steps that do not touch the stored object.
LEMMA QuietSteps ==
  ASSUME IInv,
         \/ Deliver \/ Restart
         \/ FetchSettled \/ FetchPending \/ FetchInvalid
         \/ PassIsFinal \/ PassSucceeds
         \/ WriteRefused \/ Crash
         \/ UNCHANGED vars
  PROVE  stored' = stored /\ deployed' = deployed
<1>1. CASE Deliver \/ Restart
  BY <1>1, InformerKeepsIInv
<1>2. CASE versions' = versions /\ deployed' = deployed
  BY <1>2, SameVersions
<1> QED BY <1>1, <1>2
        DEF FetchSettled, FetchPending, FetchInvalid, Fetch, PassIsFinal,
            PassSucceeds, WriteRefused, Crash, vars

\* Steps that write it: the spec's value stays, and it becomes ready only when
\* every component has been brought to that value.
LEMMA WritingSteps ==
  ASSUME IInv, MigrateStatus \/ WriteReady \/ WriteObject \/ WriteFails
  PROVE  /\ stored.live /\ stored'.live
         /\ stored'.value = stored.value
         /\ deployed' = deployed
         /\ \/ stored' = stored
            \/ ~Ready(stored)'
            \/ \A c \in Components : deployed[c] = stored.value
<1>1. /\ Writing /\ WriteAccepted /\ deployed' = deployed
      /\ versions' = versions \/ Store(Written)
  BY DEF MigrateStatus, WriteReady, WriteObject, WriteFails, Writing
<1>2. stored.live
  BY <1>1 DEF WriteAccepted, InTime
<1>3. CASE versions' = versions
  BY <1>1, <1>2, <1>3, SameVersions
<1>4. CASE Store(Written)
  <2>1. /\ stored'.value = stored.value /\ stored.value = cp.value
        /\ pc # "update" => stored'.live
        /\ pc = "migrate" => ~Ready(stored)'
        /\ pc = "update" => stored' = stored \/ ~Ready(stored)'
    BY <1>1, <1>4, WriteEffect
  <2>2. stored'.live
    <3>1. Written \in Version /\ Written.live
      BY <1>1, WrittenFacts
    <3>2. stored' = stored \/ stored' = [Written EXCEPT !.rv = @ + 1]
      BY <1>4, <3>1, StoreEffect DEF IInv
    <3>3. stored' = [Written EXCEPT !.rv = @ + 1] => stored'.live
      BY <3>1 DEF Version
    <3> QED BY <1>2, <3>2, <3>3
  <2>3. pc = "status" => \A c \in Components : deployed[c] = stored.value
    BY <2>1 DEF IInv, PassProgress
  <2> QED BY <1>1, <1>2, <2>1, <2>2, <2>3 DEF Writing
<1> QED BY <1>1, <1>3, <1>4

\* The spec's value is changed by its owner alone: the whole-object Update of
\* states.go:118 and 191 never writes back an older one.
THEOREM OwnerAlone == Spec => OwnerDecides
<1>1. IInv /\ [Next]_vars => [stored'.value # stored.value => Edit]_vars
  <2> SUFFICES ASSUME IInv, [Next]_vars, stored'.value # stored.value
               PROVE  Edit
    OBVIOUS
  <2>1. CASE Edit \/ Delete
    BY <2>1, OwnerKeepsIInv
  <2>2. CASE \E c \in Components : RollOut(c) \/ RoutineContinues(c) \/ RoutineStops(c)
    <3>1. versions' = versions
      BY <2>2 DEF RollOut, RoutineContinues, RoutineStops, Finish
    <3> QED BY <3>1, SameVersions
  <2>3. CASE MigrateStatus \/ WriteReady \/ WriteObject \/ WriteFails
    BY <2>3, WritingSteps
  <2> QED BY <2>1, <2>2, <2>3, QuietSteps DEF Next, Step, Fault
<1> QED BY <1>1, Invariance, PTL DEF Spec, OwnerDecides

\* The life of a ControlPlane keeps the promise of ReadyContract: seen from
\* outside, "ready" is announced only when everything asked for runs, and
\* nothing moves while it is.
THEOREM Promise == Spec => KeepsContract
<1> DEFINE wanted == IF stored.live THEN stored.value ELSE Nothing
<1>1. Init => Contract!Init
  <2> SUFFICES ASSUME Init PROVE Contract!Init
    OBVIOUS
  <2>1. IInv
    BY InitIInv
  <2>2. stored.live /\ stored.value \in Values
    <3>1. PICK v \in Values, f \in Forms, cs \in InitialConditions :
            versions = <<[live |-> TRUE, rv |-> 0, gen |-> 1, value |-> v,
                          form |-> f, conds |-> cs]>>
      BY DEF Init
    <3> QED BY <3>1 DEF stored
  <2>3. deployed \in [Components -> Values \cup {Nothing, Mixed}]
    BY <2>1 DEF IInv, TypeOK
  <2>4. Ready(stored) \in BOOLEAN
    BY DEF Ready
  <2>5. Ready(stored) => \A c \in Components : deployed[c] = wanted
    BY <2>1, <2>2 DEF IInv, ReadyIsDeployed
  <2> QED BY <2>2, <2>3, <2>4, <2>5 DEF Contract!Init, Contract!Satisfied, Contract!States
<1>2. IInv /\ IInv' /\ [Next]_vars => [Contract!Next]_(Contract!vars)
  <2> SUFFICES ASSUME IInv, IInv', [Next]_vars
               PROVE  [Contract!Next]_(Contract!vars)
    OBVIOUS
  <2>1. stored \in Version
    BY EndsOfVersions DEF IInv
  <2>2. stored.value \in Values /\ Nothing \notin Values
    BY <2>1, DistinctAssumption DEF Version
  <2>3. CASE stored' = stored /\ deployed' = deployed
    BY <2>3 DEF Contract!vars, Ready, IsIn
  <2>4. CASE Edit \/ Delete
    <3>1. /\ stored' \in Version /\ ~Ready(stored)' /\ deployed' = deployed
          /\ \/ Edit /\ stored'.live
             \/ ~stored'.live
      BY <2>4, OwnerKeepsIInv
    <3>2. stored'.value \in Values
      BY <3>1 DEF Version
    <3>3. CASE stored'.live
      <4>1. stored.live
        BY <3>1, <3>3 DEF Edit
      <4>2. CASE stored'.value = stored.value
        <5>1. Contract!Retract
          BY <3>1, <3>3, <4>1, <4>2 DEF Contract!Retract
        <5> QED BY <5>1 DEF Contract!Next
      <4>3. CASE stored'.value # stored.value
        <5>1. Contract!Ask
          BY <2>2, <3>1, <3>2, <3>3, <4>1, <4>3 DEF Contract!Ask
        <5> QED BY <5>1 DEF Contract!Next
      <4> QED BY <4>2, <4>3
    <3>4. CASE ~stored'.live
      <4>1. Contract!Withdraw
        BY <3>1, <3>4 DEF Contract!Withdraw
      <4> QED BY <4>1 DEF Contract!Next
    <3> QED BY <3>3, <3>4
  <2>5. CASE \E c \in Components : RollOut(c) \/ RoutineContinues(c) \/ RoutineStops(c)
    <3>1. PICK c \in Components : RollOut(c) \/ RoutineContinues(c) \/ RoutineStops(c)
      BY <2>5
    <3>2. versions' = versions
      BY <3>1 DEF RollOut, RoutineContinues, RoutineStops, Finish
    <3>3. stored' = stored /\ (Ready(stored)' <=> Ready(stored))
      BY <3>2, SameVersions
    <3>4. /\ deployed \in [Components -> Values \cup {Nothing, Mixed}]
          /\ deployed' \in [Components -> Values \cup {Nothing, Mixed}]
      BY DEF IInv, TypeOK
    <3>5. CASE Ready(stored)
      <4>1. /\ \A d \in Components : deployed[d] = stored.value
            /\ \A d \in Components : deployed'[d] = stored'.value
        BY <3>3, <3>5 DEF IInv, ReadyIsDeployed
      <4>2. deployed' = deployed
        BY <3>3, <3>4, <4>1
      <4> QED BY <2>3, <3>3, <4>2
    <3>6. CASE ~Ready(stored)
      <4>1. Contract!Roll
        BY <3>3, <3>4, <3>6 DEF Contract!Roll, Contract!States
      <4> QED BY <4>1 DEF Contract!Next
    <3> QED BY <3>5, <3>6
  <2>6. CASE MigrateStatus \/ WriteReady \/ WriteObject \/ WriteFails
    <3>1. /\ stored.live /\ stored'.live
          /\ stored'.value = stored.value
          /\ deployed' = deployed
          /\ \/ stored' = stored
             \/ ~Ready(stored)'
             \/ \A c \in Components : deployed[c] = stored.value
      BY <2>6, WritingSteps
    <3>2. CASE ~Ready(stored)'
      <4>1. Contract!Retract
        BY <3>1, <3>2 DEF Contract!Retract
      <4> QED BY <4>1 DEF Contract!Next
    <3>3. CASE Ready(stored) /\ Ready(stored)'
      BY <3>1, <3>3 DEF Contract!vars
    <3>4. CASE /\ Ready(stored)' /\ ~Ready(stored)
               /\ \A c \in Components : deployed[c] = stored.value
      <4>1. Contract!Announce
        BY <2>2, <3>1, <3>4 DEF Contract!Announce, Contract!Satisfied
      <4> QED BY <4>1 DEF Contract!Next
    <3> QED BY <2>3, <3>1, <3>2, <3>3, <3>4
  <2> QED BY <2>3, <2>4, <2>5, <2>6, QuietSteps DEF Next, Step, Fault
<1> QED BY <1>1, <1>2, Invariance, PTL DEF Spec, KeepsContract, Contract!Spec
=============================================================================
