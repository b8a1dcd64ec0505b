------------------------- MODULE RouterConfigProofs -------------------------
(***************************************************************************)
(* The inductive invariant of RouterConfig and what follows from it, for   *)
(* configurations of any length.                                           *)
(***************************************************************************)
EXTENDS RouterConfig, VersionLemmas, WellFoundedInduction
-----------------------------------------------------------------------------
(***************************************************************************)
(* Induction and recursion along a sequence.  Both are stated about a set  *)
(* and a function, so that they can be cited for any formula.              *)
(***************************************************************************)
\* A set of numbers that is not empty has a least element.
LEMMA LeastNumber ==
  ASSUME NEW T, T \subseteq Nat, T # {}
  PROVE  \E m \in T : \A k \in T : m <= k
<1>1. PICK m \in T : \A k \in T : ~(<<k, m>> \in OpToRel(<, Nat))
  BY NatLessThanWellFounded, WFMin
<1>2. ASSUME NEW k \in T PROVE m <= k
  <2>1. k \in Nat /\ m \in Nat
    OBVIOUS
  <2>2. ~(k < m)
    BY <1>1, <2>1 DEF OpToRel
  <2> QED BY <2>1, <2>2
<1> QED BY <1>2

\* A set that has 0 and with each number its successor has all of them.
LEMMA Induction ==
  ASSUME NEW T, 0 \in T, \A i \in Nat : i \in T => i + 1 \in T
  PROVE  \A i \in Nat : i \in T
<1> SUFFICES ASSUME Nat \ T # {} PROVE FALSE
  OBVIOUS
<1>1. PICK m \in Nat \ T : \A k \in Nat \ T : m <= k
  BY LeastNumber
<1>2. m # 0 /\ m - 1 \in Nat /\ (m - 1) + 1 = m
  OBVIOUS
<1>3. m - 1 \in T
  BY <1>1, <1>2
<1> QED BY <1>1, <1>2, <1>3

\* A set of positions that is not empty has a last one.
LEMMA LastPosition ==
  ASSUME NEW n \in Nat, NEW T, T \subseteq 1..n, T # {}
  PROVE  \E m \in T : \A k \in T : m >= k
<1> DEFINE U == {n - k : k \in T}
<1>1. U \subseteq Nat /\ U # {}
  <2>1. PICK t \in T : TRUE
    OBVIOUS
  <2>2. n - t \in U
    OBVIOUS
  <2>3. ASSUME NEW k \in T PROVE n - k \in Nat
    <3>1. k \in 1..n
      OBVIOUS
    <3> QED BY <3>1
  <2> QED BY <2>2, <2>3
<1>2. PICK m \in U : \A k \in U : m <= k
  BY <1>1, LeastNumber
<1>3. PICK k \in T : m = n - k
  BY <1>2
<1>4. ASSUME NEW j \in T PROVE k >= j
  <2>1. n - j \in U
    OBVIOUS
  <2>2. m <= n - j
    BY <1>2, <2>1
  <2>3. j \in 1..n /\ k \in 1..n
    OBVIOUS
  <2> QED BY <1>3, <2>2, <2>3
<1> QED BY <1>4

\* f starts with a, and each of its values follows from the one before.
Along(f, S, n, a, step) ==
  /\ f \in [0..n -> S] /\ f[0] = a
  /\ \A i \in 1..n : f[i] = step[<<i, f[i - 1]>>]

\* A function that is defined along a sequence exists.
LEMMA Recursion ==
  ASSUME NEW S, NEW n \in Nat, NEW a \in S, NEW step \in [(1..n) \X S -> S]
  PROVE  \E f : Along(f, S, n, a, step)
<1> DEFINE T == {m \in Nat : m <= n => \E f : Along(f, S, m, a, step)}
<1>1. 0 \in T
  <2>1. Along([i \in 0..0 |-> a], S, 0, a, step)
    BY DEF Along
  <2> QED BY <2>1
<1>2. ASSUME NEW m \in Nat, m \in T PROVE m + 1 \in T
  <2> SUFFICES ASSUME m + 1 <= n PROVE \E f : Along(f, S, m + 1, a, step)
    OBVIOUS
  <2>1. PICK f : Along(f, S, m, a, step)
    BY <1>2
  <2>2. f[m] \in S /\ <<m + 1, f[m]>> \in (1..n) \X S
    BY <2>1 DEF Along
  <2> DEFINE g == [i \in 0..(m + 1) |->
                     IF i <= m THEN f[i] ELSE step[<<m + 1, f[m]>>]]
  <2>3. step[<<m + 1, f[m]>>] \in S
    BY <2>2
  <2>4. g \in [0..(m + 1) -> S] /\ g[0] = a
    BY <2>1, <2>3 DEF Along
  <2>5. ASSUME NEW i \in 1..(m + 1) PROVE g[i] = step[<<i, g[i - 1]>>]
    <3>1. CASE i <= m
      <4>1. i \in 1..m /\ i - 1 \in 0..m /\ i - 1 <= m
        BY <3>1
      <4>2. g[i] = f[i] /\ g[i - 1] = f[i - 1]
        BY <3>1, <4>1
      <4> QED BY <2>1, <4>1, <4>2 DEF Along
    <3>2. CASE i = m + 1
      BY <3>2
    <3> QED BY <3>1, <3>2
  <2>6. Along(g, S, m + 1, a, step)
    <3> HIDE DEF g
    <3> QED BY <2>4, <2>5 DEF Along
  <2> QED BY <2>6
<1> HIDE DEF T
<1>3. n \in T
  BY <1>1, <1>2, Induction
<1> QED BY <1>3 DEF T
-----------------------------------------------------------------------------
(***************************************************************************)
(* What the operators of the merge return.                                 *)
(***************************************************************************)
\* Appending adds one entry.
LEMMA AppendedEntry ==
  ASSUME NEW S, NEW s \in Seq(S), NEW e \in S
  PROVE  Append(s, e) \in Seq(S) /\ ToSet(Append(s, e)) = ToSet(s) \cup {e}
<1>1. DOMAIN s = 1..Len(s) /\ DOMAIN Append(s, e) = 1..(Len(s) + 1)
  OBVIOUS
<1>2. \A i \in 1..Len(s) : Append(s, e)[i] = s[i]
  OBVIOUS
<1>3. Append(s, e)[Len(s) + 1] = e /\ Len(s) \in Nat
  OBVIOUS
<1>4. 1..(Len(s) + 1) = (1..Len(s)) \cup {Len(s) + 1}
  BY <1>3
<1> QED BY <1>1, <1>2, <1>3, <1>4 DEF ToSet

\* Concatenation puts two lists together.
LEMMA JoinedEntries ==
  ASSUME NEW S, NEW s \in Seq(S), NEW t \in Seq(S)
  PROVE  s \o t \in Seq(S) /\ ToSet(s \o t) = ToSet(s) \cup ToSet(t)
<1>1. Len(s) \in Nat /\ Len(t) \in Nat /\ Len(s \o t) = Len(s) + Len(t)
  OBVIOUS
<1>2. /\ DOMAIN s = 1..Len(s) /\ DOMAIN t = 1..Len(t)
      /\ DOMAIN (s \o t) = 1..(Len(s) + Len(t))
  BY <1>1
<1>3. \A i \in 1..Len(s) : (s \o t)[i] = s[i]
  OBVIOUS
<1>4. \A i \in 1..Len(t) : (s \o t)[Len(s) + i] = t[i]
  OBVIOUS
<1>5. ASSUME NEW i \in 1..(Len(s) + Len(t))
      PROVE  (s \o t)[i] \in ToSet(s) \cup ToSet(t)
  <2>1. CASE i <= Len(s)
    BY <1>1, <1>2, <1>3, <2>1 DEF ToSet
  <2>2. CASE i > Len(s)
    <3>1. i - Len(s) \in 1..Len(t) /\ i = Len(s) + (i - Len(s))
      BY <1>1, <2>2
    <3> QED BY <1>2, <1>4, <3>1 DEF ToSet
  <2> QED BY <1>1, <2>1, <2>2
<1>6. ASSUME NEW i \in 1..Len(s) PROVE s[i] \in ToSet(s \o t)
  BY <1>1, <1>2, <1>3 DEF ToSet
<1>7. ASSUME NEW i \in 1..Len(t) PROVE t[i] \in ToSet(s \o t)
  <2>1. Len(s) + i \in 1..(Len(s) + Len(t))
    BY <1>1
  <2> QED BY <1>2, <1>4, <2>1 DEF ToSet
<1>8. ToSet(s \o t) = {(s \o t)[i] : i \in 1..(Len(s) + Len(t))}
      /\ ToSet(s) = {s[i] : i \in 1..Len(s)}
      /\ ToSet(t) = {t[i] : i \in 1..Len(t)}
  BY <1>2 DEF ToSet
<1>9. s \o t \in Seq(S)
  OBVIOUS
<1> QED BY <1>5, <1>6, <1>7, <1>8, <1>9

\* An entry is kept when it is not among those dropped.
LEMMA WithoutEntries ==
  ASSUME NEW S, NEW s \in Seq(S), NEW D
  PROVE  Without(s, D) \in Seq(S) /\ ToSet(Without(s, D)) = ToSet(s) \ D
<1> DEFINE n == Len(s)
           Def(f) == [i \in 0..Len(s) |->
                        IF i = 0 THEN << >>
                        ELSE IF s[i] \in D THEN f[i - 1]
                        ELSE Append(f[i - 1], s[i])]
           kept == CHOOSE f : f = Def(f)
           step == [p \in (1..n) \X Seq(S) |->
                      IF s[p[1]] \in D THEN p[2] ELSE Append(p[2], s[p[1]])]
<1>1. n \in Nat /\ DOMAIN s = 1..n /\ \A i \in 1..n : s[i] \in S
  OBVIOUS
<1>2. << >> \in Seq(S) /\ step \in [(1..n) \X Seq(S) -> Seq(S)]
  BY <1>1
<1>3. PICK f : Along(f, Seq(S), n, << >>, step)
  <2> HIDE DEF n, step
  <2> QED BY <1>1, <1>2, Recursion
<1>4. f = Def(f)
  <2>1. ASSUME NEW i \in 1..n
        PROVE  f[i] = IF s[i] \in D THEN f[i - 1] ELSE Append(f[i - 1], s[i])
    <3>1. i - 1 \in 0..n
      BY <1>1
    <3>2. <<i, f[i - 1]>> \in (1..n) \X Seq(S)
      BY <1>3, <3>1 DEF Along
    <3> QED BY <1>3, <3>2 DEF Along
  <2>2. f[0] = << >> /\ DOMAIN f = 0..Len(s) /\ f = [i \in DOMAIN f |-> f[i]]
    BY <1>1, <1>3 DEF Along
  <2>3. ASSUME NEW i \in 0..Len(s) PROVE f[i] = Def(f)[i]
    <3>1. CASE i = 0
      BY <2>2, <3>1
    <3>2. CASE i # 0
      <4>1. i \in 1..n
        BY <1>1, <3>2
      <4> QED BY <2>1, <3>2, <4>1
    <3> QED BY <3>1, <3>2
  <2>4. DOMAIN Def(f) = 0..Len(s) /\ Def(f) = [i \in DOMAIN Def(f) |-> Def(f)[i]]
    OBVIOUS
  <2> HIDE DEF Def
  <2> QED BY <2>2, <2>3, <2>4
<1>5. kept = Def(kept)
  <2> HIDE DEF Def
  <2> QED BY <1>4
<1> HIDE DEF step
<1> DEFINE T == {m \in Nat : m <= n =>
                    /\ kept[m] \in Seq(S)
                    /\ ToSet(kept[m]) = {s[j] : j \in 1..m} \ D}
<1>6. kept[0] = << >> /\ \A i \in 1..n :
         kept[i] = IF s[i] \in D THEN kept[i - 1] ELSE Append(kept[i - 1], s[i])
  <2> HIDE DEF kept
  <2>1. ASSUME NEW i \in 0..Len(s) PROVE kept[i] = Def(kept)[i]
    <3> HIDE DEF Def
    <3> QED BY <1>5
  <2>2. kept[0] = << >>
    <3>1. 0 \in 0..Len(s)
      BY <1>1
    <3> QED BY <2>1, <3>1
  <2>3. ASSUME NEW i \in 1..n
        PROVE  kept[i] = IF s[i] \in D THEN kept[i - 1] ELSE Append(kept[i - 1], s[i])
    <3>1. i \in 0..Len(s) /\ i # 0
      BY <1>1
    <3> QED BY <2>1, <3>1
  <2> QED BY <2>2, <2>3
<1> HIDE DEF kept
<1>7. 0 \in T
  <2>1. kept[0] \in Seq(S)
    BY <1>6
  <2>2. ToSet(kept[0]) = {}
    BY <1>6 DEF ToSet
  <2>3. {s[j] : j \in 1..0} = {}
    OBVIOUS
  <2> QED BY <2>1, <2>2, <2>3
<1>8. ASSUME NEW m \in Nat, m \in T PROVE m + 1 \in T
  <2> SUFFICES ASSUME m + 1 <= n
               PROVE  /\ kept[m + 1] \in Seq(S)
                      /\ ToSet(kept[m + 1]) = {s[j] : j \in 1..(m + 1)} \ D
    OBVIOUS
  <2>1. kept[m] \in Seq(S) /\ ToSet(kept[m]) = {s[j] : j \in 1..m} \ D
    BY <1>8, <1>1
  <2>2. m + 1 \in 1..n /\ (m + 1) - 1 = m
    BY <1>1
  <2>3. {s[j] : j \in 1..(m + 1)} = {s[j] : j \in 1..m} \cup {s[m + 1]}
    <3>1. 1..(m + 1) = (1..m) \cup {m + 1}
      OBVIOUS
    <3> HIDE DEF n
    <3> QED BY <3>1
  <2>4. CASE s[m + 1] \in D
    BY <1>6, <2>1, <2>2, <2>3, <2>4
  <2>5. CASE s[m + 1] \notin D
    <3>1. kept[m + 1] = Append(kept[m], s[m + 1])
      BY <1>6, <2>2, <2>5
    <3>2. ToSet(kept[m + 1]) = ToSet(kept[m]) \cup {s[m + 1]}
      BY <1>1, <2>1, <2>2, <3>1, AppendedEntry
    <3> QED BY <1>1, <2>1, <2>2, <2>3, <2>5, <3>1, <3>2
  <2> QED BY <2>4, <2>5
<1> HIDE DEF T
<1>9. n \in T
  BY <1>1, <1>7, <1>8, Induction
<1>10. Without(s, D) = kept[n]
  BY DEF Without, kept
<1>11. ToSet(s) = {s[j] : j \in 1..n}
  BY <1>1 DEF ToSet
<1> QED BY <1>1, <1>9, <1>10, <1>11 DEF T

\* Flattening a list of lists takes all of their entries and no others.
LEMMA FlattenedEntries ==
  ASSUME NEW S, NEW seqs \in Seq(Seq(S)), seqs # << >>
  PROVE  /\ FlattenSeq(seqs) \in Seq(S)
         /\ ToSet(FlattenSeq(seqs)) = UNION {ToSet(seqs[i]) : i \in DOMAIN seqs}
<1> DEFINE n == Len(seqs)
           Def(f) == [i \in 1..Len(seqs) |->
                        IF i = 1 THEN seqs[i] ELSE f[i - 1] \o seqs[i]]
           flatten == CHOOSE f : f = Def(f)
           step == [p \in (1..n) \X Seq(S) |->
                      IF p[1] = 1 THEN seqs[1] ELSE p[2] \o seqs[p[1]]]
<1>1. /\ n \in Nat /\ n >= 1 /\ DOMAIN seqs = 1..n
      /\ \A i \in 1..n : seqs[i] \in Seq(S)
  OBVIOUS
<1>2. << >> \in Seq(S) /\ step \in [(1..n) \X Seq(S) -> Seq(S)]
  <2>1. ASSUME NEW p \in (1..n) \X Seq(S)
        PROVE  (IF p[1] = 1 THEN seqs[1] ELSE p[2] \o seqs[p[1]]) \in Seq(S)
    <3>1. p[1] \in 1..n /\ p[2] \in Seq(S) /\ seqs[p[1]] \in Seq(S)
      BY <1>1
    <3>2. 1 \in 1..n
      BY <1>1
    <3> HIDE DEF n
    <3>3. seqs[1] \in Seq(S)
      BY <1>1, <3>2
    <3> QED BY <3>1, <3>3
  <2> QED BY <2>1
<1>3. PICK f : Along(f, Seq(S), n, << >>, step)
  <2> HIDE DEF n, step
  <2> QED BY <1>1, <1>2, Recursion
<1> DEFINE g == [i \in 1..Len(seqs) |-> f[i]]
<1>4. g = Def(g)
  <2>1. ASSUME NEW i \in 1..n
        PROVE  f[i] = IF i = 1 THEN seqs[i] ELSE f[i - 1] \o seqs[i]
    <3>1. i - 1 \in 0..n
      BY <1>1
    <3>2. <<i, f[i - 1]>> \in (1..n) \X Seq(S)
      BY <1>3, <3>1 DEF Along
    <3> QED BY <1>3, <3>2 DEF Along
  <2>2. ASSUME NEW i \in 1..Len(seqs) PROVE g[i] = Def(g)[i]
    <3>1. CASE i = 1
      BY <2>1, <3>1
    <3>2. CASE i # 1
      <4>1. i - 1 \in 1..Len(seqs)
        BY <1>1, <3>2
      <4>2. g[i - 1] = f[i - 1] /\ g[i] = f[i]
        BY <4>1
      <4>3. Def(g)[i] = g[i - 1] \o seqs[i]
        BY <3>2
      <4>4. f[i] = f[i - 1] \o seqs[i]
        BY <2>1, <3>2
      <4> HIDE DEF g, Def
      <4> QED BY <4>2, <4>3, <4>4
    <3> QED BY <3>1, <3>2
  <2>3. DOMAIN Def(g) = 1..Len(seqs) /\ Def(g) = [i \in DOMAIN Def(g) |-> Def(g)[i]]
    OBVIOUS
  <2>4. DOMAIN g = 1..Len(seqs) /\ g = [i \in DOMAIN g |-> g[i]]
    OBVIOUS
  <2> HIDE DEF Def, g
  <2> QED BY <2>2, <2>3, <2>4
<1>5. flatten = Def(flatten)
  <2> HIDE DEF Def, g
  <2> QED BY <1>4
<1> HIDE DEF step
<1>6. \A i \in 1..n :
         flatten[i] = IF i = 1 THEN seqs[i] ELSE flatten[i - 1] \o seqs[i]
  <2> HIDE DEF flatten
  <2>1. ASSUME NEW i \in 1..Len(seqs) PROVE flatten[i] = Def(flatten)[i]
    <3> HIDE DEF Def
    <3> QED BY <1>5
  <2> QED BY <2>1
<1> HIDE DEF flatten
<1> DEFINE Upto(m) == {e \in S : \E j \in 1..m : e \in ToSet(seqs[j])}
           T == {m \in Nat : m + 1 <= n =>
                    /\ flatten[m + 1] \in Seq(S)
                    /\ ToSet(flatten[m + 1]) = Upto(m + 1)}
<1>7. ASSUME NEW j \in 1..n PROVE ToSet(seqs[j]) \subseteq S
  <2>1. seqs[j] \in Seq(S)
    BY <1>1
  <2> HIDE DEF n
  <2> QED BY <2>1 DEF ToSet
<1>8. 0 \in T
  <2>1. 1 \in 1..n /\ 1..1 = {1}
    BY <1>1
  <2>2. flatten[1] = seqs[1] /\ seqs[1] \in Seq(S)
    BY <1>1, <1>6, <2>1
  <2>3. Upto(1) = ToSet(seqs[1])
    BY <1>7, <2>1
  <2> HIDE DEF n, Upto
  <2> QED BY <2>2, <2>3
<1>9. ASSUME NEW m \in Nat, m \in T PROVE m + 1 \in T
  <2> SUFFICES ASSUME (m + 1) + 1 <= n
               PROVE  /\ flatten[(m + 1) + 1] \in Seq(S)
                      /\ ToSet(flatten[(m + 1) + 1]) = Upto((m + 1) + 1)
    BY DEF Upto
  <2> DEFINE k == (m + 1) + 1
  <2>1. flatten[m + 1] \in Seq(S) /\ ToSet(flatten[m + 1]) = Upto(m + 1)
    <3>1. m + 1 <= n
      BY <1>1
    <3> HIDE DEF n, Upto
    <3> QED BY <1>9, <3>1
  <2>2. k \in 1..n /\ k - 1 = m + 1 /\ k # 1
    BY <1>1
  <2>3. flatten[k] = flatten[m + 1] \o seqs[k] /\ seqs[k] \in Seq(S)
    <3> HIDE DEF k
    <3> QED BY <1>1, <1>6, <2>2
  <2>4. 1..k = (1..(m + 1)) \cup {k}
    OBVIOUS
  <2>5. Upto(k) = Upto(m + 1) \cup ToSet(seqs[k])
    <3>1. ToSet(seqs[k]) \subseteq S
      <4> HIDE DEF k
      <4> QED BY <1>7, <2>2
    <3> HIDE DEF k
    <3> QED BY <2>4, <3>1
  <2> HIDE DEF k, Upto, n
  <2>6. flatten[k] \in Seq(S) /\ ToSet(flatten[k]) = Upto(k)
    BY <2>1, <2>3, <2>5, JoinedEntries
  <2> QED BY <2>6 DEF k
<1> HIDE DEF T
<1>10. n - 1 \in T
  <2>1. \A i \in Nat : i \in T
    BY <1>8, <1>9, Induction
  <2>2. n - 1 \in Nat
    BY <1>1
  <2> QED BY <2>1, <2>2
<1>11. flatten[n] \in Seq(S) /\ ToSet(flatten[n]) = Upto(n)
  <2>1. n - 1 \in Nat /\ (n - 1) + 1 = n /\ n <= n
    BY <1>1
  <2> HIDE DEF n, Upto
  <2> QED BY <1>10, <2>1 DEF T
<1>12. FlattenSeq(seqs) = flatten[n]
  BY <1>1 DEF FlattenSeq, flatten
<1>13. Upto(n) = UNION {ToSet(seqs[i]) : i \in 1..n}
  <2> HIDE DEF n
  <2> QED BY <1>7
<1> QED BY <1>1, <1>11, <1>12, <1>13

\* The version of a configuration is that of one of its router entries, and 0
\* when none has one.
LEMMA VersionRead ==
  ASSUME NEW entries \in Seq(Entry)
  PROVE  LET versioned == {e \in ToSet(entries) : e.type = "router" /\ e.from # 0}
         IN  \/ versioned = {} /\ ConfigVersion(entries) = 0
             \/ \E e \in versioned : ConfigVersion(entries) = e.from
<1> DEFINE I == {i \in 1..Len(entries) :
                   entries[i].type = "router" /\ entries[i].from # 0}
           first == IF I # {} THEN Min(I) ELSE 0
<1>1. ConfigVersion(entries) = IF first = 0 THEN 0 ELSE entries[first].from
  BY DEF ConfigVersion, SelectInSeq
<1>2. DOMAIN entries = 1..Len(entries)
  OBVIOUS
<1>3. CASE I = {}
  BY <1>1, <1>2, <1>3 DEF ToSet
<1>4. CASE I # {}
  <2>1. \E m \in I : \A k \in I : m <= k
    <3>1. I \subseteq Nat
      OBVIOUS
    <3> HIDE DEF I
    <3> QED BY <1>4, <3>1, LeastNumber
  <2>2. Min(I) \in I
    BY <2>1 DEF Min
  <2>3. first = Min(I) /\ first # 0
    BY <1>4, <2>2
  <2> QED BY <1>1, <1>2, <2>2, <2>3 DEF ToSet
<1> QED BY <1>3, <1>4

\* What is looked up by type is an entry of that type, or nothing.
LEMMA ExistingEntry ==
  ASSUME NEW entries \in Seq(Entry), NEW t
  PROVE  /\ Existing(entries, t) \in Seq(Entry)
         /\ \A e \in ToSet(Existing(entries, t)) :
              e \in ToSet(entries) /\ e.type = t
<1> DEFINE I == {i \in 1..Len(entries) : entries[i].type = t}
           last == IF I # {} THEN Max(I) ELSE 0
<1>1. Existing(entries, t) = IF last = 0 THEN << >> ELSE <<entries[last]>>
  BY DEF Existing, SelectLastInSeq
<1>2. DOMAIN entries = 1..Len(entries) /\ Len(entries) \in Nat
  OBVIOUS
<1>3. CASE I = {}
  <2>1. Existing(entries, t) = << >> /\ ToSet(<< >>) = {}
    BY <1>1, <1>3 DEF ToSet
  <2> QED BY <2>1
<1>4. CASE I # {}
  <2>1. \E m \in I : \A k \in I : m >= k
    BY <1>2, <1>4, LastPosition
  <2>2. Max(I) \in I
    BY <2>1 DEF Max
  <2>3. last = Max(I) /\ last # 0
    BY <1>4, <2>2
  <2>4. Existing(entries, t) = <<entries[last]>>
    BY <1>1, <2>3
  <2>5. entries[last] \in Entry /\ entries[last].type = t
    BY <2>2, <2>3
  <2>6. ToSet(<<entries[last]>>) = {entries[last]}
    BY DEF ToSet
  <2>7. entries[last] \in ToSet(entries)
    BY <1>2, <2>2, <2>3 DEF ToSet
  <2> HIDE DEF last
  <2> QED BY <2>4, <2>5, <2>6, <2>7
<1> QED BY <1>3, <1>4

\* What a release embeds: all entries but "system-default" are overwritten by
\* an upgrade, and one of them is the router's, with the version.
LEMMA TemplateEntries ==
  ASSUME NEW v \in Releases \cup {0}
  PROVE  /\ Template(v) \in Seq(Entry) /\ DOMAIN Template(v) = 1..5
         /\ \A i \in 1..5 : ShouldUpdate(Template(v)[i]) <=> i # 2
         /\ Template(v)[2].type = "sslProfile"
         /\ \A i \in 1..5 : Template(v)[i].name = "system-default" <=> i = 2
         /\ \A i \in 1..5 : Template(v)[i].from = v
         /\ \A i \in 1..5 : Template(v)[i].type = "router" <=> i = 1
         /\ \A i \in 1..5 : Template(v)[i].name # "other"
<1>1. /\ Template(v)[1] = [type |-> "router", name |-> "default-router", from |-> v]
      /\ Template(v)[2] = [type |-> "sslProfile", name |-> "system-default", from |-> v]
      /\ Template(v)[3] = [type |-> "sslProfile", name |-> "router-site-server", from |-> v]
      /\ Template(v)[4] = [type |-> "listener", name |-> "amqps", from |-> v]
      /\ Template(v)[5] = [type |-> "address", name |-> "mc", from |-> v]
      /\ DOMAIN Template(v) = 1..5 /\ Len(Template(v)) = 5
  BY DEF Template
<1>2. \A i \in 1..5 : Template(v)[i] \in Entry
  BY <1>1 DEF Entry, Types, EntryNames
<1>3. Template(v) \in Seq(Entry)
  <2>1. Template(v) = [i \in 1..5 |-> Template(v)[i]]
    BY DEF Template
  <2> QED BY <1>2, <2>1
<1>4. \A i \in 1..5 : i = 1 \/ i = 2 \/ i = 3 \/ i = 4 \/ i = 5
  OBVIOUS
<1>5. /\ \A i \in 1..5 : ShouldUpdate(Template(v)[i]) <=> i # 2
      /\ \A i \in 1..5 : Template(v)[i].from = v
      /\ \A i \in 1..5 : Template(v)[i].type = "router" <=> i = 1
      /\ \A i \in 1..5 : Template(v)[i].name # "other"
      /\ \A i \in 1..5 : Template(v)[i].name = "system-default" <=> i = 2
  BY <1>1, <1>4 DEF ShouldUpdate
<1> QED BY <1>1, <1>3, <1>5

\* The entries of the template that an upgrade brings.
HasTemplate(entries, v) ==
  \A e \in ToSet(Template(v)) : e.name # "system-default" => e \in ToSet(entries)

\* An overlay brings the template, keeps what is not overwritten, and has no
\* other router than the template's.
LEMMA OverlayEntries ==
  ASSUME NEW existing \in Seq(Entry), NEW v \in Releases
  PROVE  LET merged == Overlay(existing, Template(v))
         IN  /\ merged \in Seq(Entry)
             /\ HasTemplate(merged, v)
             /\ \A e \in ToSet(existing) : ~ShouldUpdate(e) => e \in ToSet(merged)
             /\ \A e \in ToSet(merged) : e.type = "router" => e.from = v
<1> DEFINE new == Template(v)
           parts == [i \in DOMAIN new |->
                       IF ShouldUpdate(new[i]) THEN <<new[i]>>
                                               ELSE Existing(existing, new[i].type)]
           dropped == {e \in ToSet(existing) : ShouldUpdate(e)}
           rest == Without(existing, dropped)
           merged == Overlay(existing, new)
<1>1. /\ new \in Seq(Entry) /\ DOMAIN new = 1..5 /\ Len(new) = 5
      /\ \A i \in 1..5 : ShouldUpdate(new[i]) <=> i # 2
      /\ \A i \in 1..5 : new[i].name = "system-default" <=> i = 2
      /\ \A i \in 1..5 : new[i] \in Entry /\ new[i].from = v
      /\ new[2].type = "sslProfile"
  BY TemplateEntries
<1> HIDE DEF new
<1>2. ASSUME NEW i \in 1..5, i # 2
      PROVE  parts[i] = <<new[i]>> /\ ToSet(parts[i]) = {new[i]}
  <2>1. parts[i] = <<new[i]>>
    BY <1>1, <1>2
  <2>2. ToSet(<<new[i]>>) = {new[i]}
    BY DEF ToSet
  <2> HIDE DEF parts
  <2> QED BY <2>1, <2>2
<1>3. parts[2] = Existing(existing, "sslProfile")
  BY <1>1
<1>4. /\ parts[2] \in Seq(Entry)
      /\ \A e \in ToSet(parts[2]) : e.type = "sslProfile"
  <2> HIDE DEF parts
  <2> QED BY <1>3, ExistingEntry
<1>5. parts \in Seq(Seq(Entry)) /\ DOMAIN parts = 1..5 /\ parts # << >>
  <2>1. ASSUME NEW i \in 1..5 PROVE parts[i] \in Seq(Entry)
    <3>1. CASE i = 2
      BY <1>4, <3>1
    <3>2. CASE i # 2
      <4>1. new[i] \in Entry
        BY <1>1
      <4> HIDE DEF parts
      <4> QED BY <1>2, <3>2, <4>1, QueueRestart
    <3> QED BY <3>1, <3>2
  <2>2. DOMAIN parts = 1..5 /\ parts = [i \in 1..5 |-> parts[i]]
    BY <1>1
  <2> DEFINE Q == Seq(Entry)
  <2> HIDE DEF parts
  <2>3. parts \in [1..5 -> Q]
    BY <2>1, <2>2
  <2> HIDE DEF Q
  <2>4. parts \in Seq(Q)
    BY <2>3, SeqDef
  <2>5. parts # << >>
    BY <2>2
  <2> QED BY <2>2, <2>4, <2>5 DEF Q
<1>6. rest \in Seq(Entry) /\ ToSet(rest) = ToSet(existing) \ dropped
  <2> HIDE DEF dropped
  <2> QED BY WithoutEntries
<1>7. merged = FlattenSeq(parts) \o rest
  BY DEF Overlay
<1> HIDE DEF parts, rest, merged
<1>8. /\ FlattenSeq(parts) \in Seq(Entry)
      /\ ToSet(FlattenSeq(parts)) = UNION {ToSet(parts[i]) : i \in 1..5}
  BY <1>5, FlattenedEntries
<1>9. /\ merged \in Seq(Entry)
      /\ ToSet(merged) = (UNION {ToSet(parts[i]) : i \in 1..5})
                           \cup (ToSet(existing) \ dropped)
  BY <1>6, <1>7, <1>8, JoinedEntries
<1>10. HasTemplate(merged, v)
  <2> SUFFICES ASSUME NEW e \in ToSet(new), e.name # "system-default"
               PROVE  e \in ToSet(merged)
    BY DEF HasTemplate, new
  <2>1. PICK i \in 1..5 : e = new[i]
    BY <1>1 DEF ToSet
  <2>2. i # 2
    BY <1>1, <2>1
  <2>3. e \in ToSet(parts[i])
    BY <1>2, <2>1, <2>2
  <2> QED BY <1>9, <2>3
<1>11. \A e \in ToSet(existing) : ~ShouldUpdate(e) => e \in ToSet(merged)
  BY <1>9
<1>12. ASSUME NEW e \in ToSet(merged), e.type = "router" PROVE e.from = v
  <2>1. CASE e \in ToSet(existing) \ dropped
    BY <1>12, <2>1 DEF ShouldUpdate
  <2>2. CASE e \in UNION {ToSet(parts[i]) : i \in 1..5}
    <3>1. PICK i \in 1..5 : e \in ToSet(parts[i])
      BY <2>2
    <3>2. i # 2
      BY <1>4, <1>12, <3>1
    <3>3. e = new[i]
      BY <1>2, <3>1, <3>2
    <3> QED BY <1>1, <3>3
  <2> QED BY <1>9, <2>1, <2>2
<1> QED BY <1>9, <1>10, <1>11, <1>12 DEF merged, new
-----------------------------------------------------------------------------
(***************************************************************************)
(* What is said of every configuration that is stored: its router entries  *)
(* have one version, and the template of that version is in it.            *)
(***************************************************************************)
OneVersion(entries) ==
  \A e, f \in ToSet(entries) :
    e.type = "router" /\ f.type = "router" => e.from = f.from

Sound(entries) ==
  /\ OneVersion(entries)
  /\ ConfigVersion(entries) # 0 => HasTemplate(entries, ConfigVersion(entries))

\* A router entry with a version gives the version of such a configuration.
LEMMA VersionOf ==
  ASSUME NEW entries \in Seq(Entry), OneVersion(entries),
         NEW e \in ToSet(entries), e.type = "router"
  PROVE  ConfigVersion(entries) = e.from
BY VersionRead DEF OneVersion

\* The template of a release is such a configuration, of its version.
LEMMA TemplateSound ==
  ASSUME NEW v \in Releases \cup {0}
  PROVE  Sound(Template(v)) /\ ConfigVersion(Template(v)) = v
<1>1. /\ Template(v) \in Seq(Entry) /\ DOMAIN Template(v) = 1..5
      /\ \A i \in 1..5 : Template(v)[i].from = v
      /\ Template(v)[1].type = "router"
  BY TemplateEntries
<1>2. ToSet(Template(v)) = {Template(v)[i] : i \in 1..5}
  BY <1>1 DEF ToSet
<1>3. OneVersion(Template(v))
  BY <1>1, <1>2 DEF OneVersion
<1>4. ConfigVersion(Template(v)) = v
  BY <1>1, <1>2, <1>3, VersionOf
<1>5. HasTemplate(Template(v), v)
  BY DEF HasTemplate
<1> QED BY <1>3, <1>4, <1>5 DEF Sound

\* Merging a template into such a configuration.
LEMMA MergeEntries ==
  ASSUME NEW existing \in Seq(Entry), Sound(existing), NEW v \in Releases
  PROVE  LET merged == MergeConfigs(existing, Template(v))
         IN  /\ merged \in Seq(Entry) /\ Sound(merged)
             /\ ConfigVersion(merged) = v /\ HasTemplate(merged, v)
             /\ \A e \in ToSet(existing) : ~ShouldUpdate(e) => e \in ToSet(merged)
             /\ ConfigVersion(existing) = v => merged = existing
<1>1. v # 0 /\ ConfigVersion(Template(v)) = v
  BY ReleasesAssumption, TemplateSound
<1>2. CASE ConfigVersion(existing) = v
  BY <1>1, <1>2 DEF MergeConfigs, Sound
<1>3. CASE ConfigVersion(existing) # v
  <2> DEFINE merged == Overlay(existing, Template(v))
  <2>1. MergeConfigs(existing, Template(v)) = merged
    BY <1>1, <1>3 DEF MergeConfigs
  <2>2. /\ merged \in Seq(Entry) /\ HasTemplate(merged, v)
        /\ \A e \in ToSet(existing) : ~ShouldUpdate(e) => e \in ToSet(merged)
        /\ \A e \in ToSet(merged) : e.type = "router" => e.from = v
    BY OverlayEntries
  <2> HIDE DEF merged
  <2>3. OneVersion(merged)
    BY <2>2 DEF OneVersion
  <2>4. /\ Template(v)[1] \in ToSet(Template(v))
        /\ Template(v)[1].type = "router" /\ Template(v)[1].from = v
        /\ Template(v)[1].name # "system-default"
    BY TemplateEntries DEF ToSet
  <2>5. Template(v)[1] \in ToSet(merged)
    BY <2>2, <2>4 DEF HasTemplate
  <2>6. ConfigVersion(merged) = v
    BY <2>2, <2>3, <2>4, <2>5, VersionOf
  <2> QED BY <1>3, <2>1, <2>2, <2>3, <2>6 DEF Sound
<1> QED BY <1>2, <1>3

\* What others add and take out is no concern of the version or the template.
LEMMA CustomsDoNotMatter ==
  ASSUME NEW old \in Seq(Entry), NEW new \in Seq(Entry),
         \A e \in Entry : e \notin Customs => (e \in ToSet(old) <=> e \in ToSet(new)),
         Sound(old)
  PROVE  /\ Sound(new) /\ ConfigVersion(new) = ConfigVersion(old)
         /\ \A v \in Releases : HasTemplate(old, v) => HasTemplate(new, v)
<1>1. ToSet(old) \subseteq Entry /\ ToSet(new) \subseteq Entry
  BY DEF ToSet
<1>2. \A e \in Customs : e.type # "router" /\ e.name = "other"
  BY DEF Customs
<1>3. \A e \in Entry : e.type = "router" => (e \in ToSet(old) <=> e \in ToSet(new))
  BY <1>2
<1>4. OneVersion(new)
  BY <1>1, <1>3 DEF Sound, OneVersion
<1>5. ConfigVersion(new) = ConfigVersion(old)
  BY <1>1, <1>3, <1>4, VersionRead DEF Sound, OneVersion
<1>6. ASSUME NEW v \in Releases, HasTemplate(old, v) PROVE HasTemplate(new, v)
  <2> SUFFICES ASSUME NEW e \in ToSet(Template(v)), e.name # "system-default"
               PROVE  e \in ToSet(new)
    BY DEF HasTemplate
  <2>1. e \in Entry /\ e.name # "other"
    <3>1. /\ Template(v) \in Seq(Entry) /\ DOMAIN Template(v) = 1..5
          /\ \A i \in 1..5 : Template(v)[i].name # "other"
      BY TemplateEntries
    <3>2. PICK i \in 1..5 : e = Template(v)[i]
      BY <3>1 DEF ToSet
    <3>3. Template(v)[i] \in Entry
      <4> DEFINE t == Template(v)
      <4>1. t \in Seq(Entry) /\ i \in DOMAIN t
        BY <3>1
      <4> HIDE DEF t
      <4>2. t[i] \in Entry
        BY <4>1
      <4> QED BY <4>2 DEF t
    <3> QED BY <3>1, <3>2, <3>3
  <2>2. e \in ToSet(old)
    BY <1>6 DEF HasTemplate
  <2> QED BY <1>2, <2>1, <2>2
<1>7. ConfigVersion(old) \in Releases \cup {0}
  BY <1>1, VersionRead DEF Entry
<1> QED BY <1>4, <1>5, <1>6, <1>7 DEF Sound
-----------------------------------------------------------------------------
(***************************************************************************)
(* The inductive invariant.                                                *)
(***************************************************************************)
\* A config map with the number of the stored one is the stored one.
MapsInv ==
  \A i \in 1..Len(maps) :
    maps[i].rv <= map.rv /\ (maps[i].rv = map.rv => maps[i] = map)

FoundInv == found.rv <= map.rv /\ (found.rv = map.rv => found = map)

StoredInv == Sound(map.entries) /\ (map.rv = 0 => map.entries = << >>)

DoneInv ==
  pc = "done" => /\ ConfigVersion(map.entries) = release
                 /\ HasTemplate(map.entries, release)

IInv == TypeOK /\ MapsInv /\ FoundInv /\ StoredInv /\ DoneInv

\* The ends of the queue are config maps.
LEMMA MapEnds ==
  ASSUME TypeOK
  PROVE  /\ maps \in Seq(ConfigMap) /\ maps # << >>
         /\ Len(maps) \in Nat /\ Len(maps) >= 1
         /\ map \in ConfigMap /\ Head(maps) = maps[1] /\ Head(maps) \in ConfigMap
         /\ map.rv \in Nat /\ map.entries \in Seq(Entry)
         /\ \A i \in 1..Len(maps) : maps[i] \in ConfigMap
<1>1. maps \in Seq(ConfigMap) /\ maps # << >>
  BY DEF TypeOK
<1>2. /\ Len(maps) \in Nat /\ Len(maps) >= 1
      /\ maps[Len(maps)] \in ConfigMap /\ Head(maps) = maps[1] /\ Head(maps) \in ConfigMap
      /\ \A i \in 1..Len(maps) : maps[i] \in ConfigMap
  <2> HIDE DEF ConfigMap
  <2> QED BY <1>1, QueueEnds
<1>3. map \in ConfigMap
  BY <1>2 DEF map
<1>4. map.rv \in Nat /\ map.entries \in Seq(Entry)
  BY <1>3 DEF ConfigMap
<1> QED BY <1>1, <1>2, <1>3, <1>4

\* A write stores the entries, under a new number unless they are the same.
LEMMA PutEntriesEffect ==
  ASSUME TypeOK, MapsInv, FoundInv, NEW entries \in Seq(Entry), PutEntries(entries),
         UNCHANGED found
  PROVE  /\ maps' \in Seq(ConfigMap) /\ maps' # << >>
         /\ map'.entries = entries
         /\ map'.rv = 0 => map.rv = 0 /\ entries = map.entries
         /\ entries = map.entries => map' = map
         /\ MapsInv' /\ FoundInv'
<1>1. CASE entries = map.entries
  <2>1. maps' = maps /\ map' = map
    BY <1>1 DEF PutEntries, map
  <2> QED BY <1>1, <2>1, MapEnds DEF MapsInv, FoundInv
<1>2. CASE entries # map.entries
  <2> DEFINE new == [rv |-> map.rv + 1, entries |-> entries]
  <2>1. new \in ConfigMap /\ new.rv = map.rv + 1 /\ new.entries = entries
    BY MapEnds DEF ConfigMap
  <2>2. maps' = Append(maps, new)
    BY <1>2 DEF PutEntries
  <2> HIDE DEF new
  <2>3. /\ maps' \in Seq(ConfigMap) /\ maps' # << >>
        /\ Len(maps') = Len(maps) + 1 /\ maps'[Len(maps')] = new
        /\ \A i \in 1..Len(maps) : maps'[i] = maps[i]
    BY <2>1, <2>2, MapEnds, QueueAppend
  <2>4. map' = new
    BY <2>3 DEF map
  <2>5. MapsInv'
    <3> SUFFICES ASSUME NEW i \in 1..Len(maps')
                 PROVE  maps'[i].rv <= new.rv /\ (maps'[i].rv = new.rv => maps'[i] = new)
      BY <2>4 DEF MapsInv
    <3>1. CASE i = Len(maps) + 1
      BY <2>1, <2>3, <3>1, MapEnds
    <3>2. CASE i # Len(maps) + 1
      <4>1. i \in 1..Len(maps)
        BY <2>3, <3>2, MapEnds
      <4>2. maps'[i] = maps[i] /\ maps[i].rv \in Nat /\ maps[i].rv <= map.rv
        BY <2>3, <4>1, MapEnds DEF MapsInv, ConfigMap
      <4> QED BY <2>1, <4>2, MapEnds
    <3> QED BY <3>1, <3>2
  <2>6. found.rv \in Nat /\ found.rv <= map.rv
    BY DEF TypeOK, FoundInv, ConfigMap
  <2>7. FoundInv'
    BY <2>1, <2>4, <2>6, MapEnds DEF FoundInv
  <2> QED BY <1>2, <2>1, <2>3, <2>4, <2>5, <2>7, MapEnds
<1> QED BY <1>1, <1>2

\* What the operator's write stores.
LEMMA PutEffect ==
  ASSUME IInv, Put, UNCHANGED <<found, release>>
  PROVE  /\ maps' \in Seq(ConfigMap) /\ maps' # << >>
         /\ MapsInv' /\ FoundInv' /\ StoredInv'
         /\ ConfigVersion(map'.entries) = release /\ HasTemplate(map'.entries, release)
         /\ \A e \in EntriesOf(map) : ~ShouldUpdate(e) => e \in EntriesOf(map')
         /\ ConfigVersion(map.entries) = release => map' = map
<1>1. found = map /\ release \in Releases /\ release # 0
  BY ReleasesAssumption DEF IInv, TypeOK, Put, InTime, FoundInv
<1> DEFINE entries == IF found.rv = 0
                        THEN Template(release)
                        ELSE MergeConfigs(found.entries, Template(release))
<1>2. /\ entries \in Seq(Entry) /\ Sound(entries)
      /\ ConfigVersion(entries) = release /\ HasTemplate(entries, release)
      /\ \A e \in EntriesOf(map) : ~ShouldUpdate(e) => e \in ToSet(entries)
      /\ ConfigVersion(map.entries) = release => entries = map.entries
  <2>1. CASE found.rv = 0
    <3>1. entries = Template(release) /\ map.entries = << >>
      BY <1>1, <2>1 DEF IInv, StoredInv
    <3>2. entries \in Seq(Entry) /\ Sound(entries) /\ ConfigVersion(entries) = release
      BY <1>1, <3>1, TemplateEntries, TemplateSound
    <3>3. ToSet(map.entries) = {}
      BY <3>1 DEF ToSet
    <3>4. ConfigVersion(map.entries) = 0
      BY <3>3, MapEnds, VersionRead DEF IInv
    <3> HIDE DEF entries
    <3> QED BY <1>1, <3>2, <3>3, <3>4 DEF EntriesOf, Sound
  <2>2. CASE found.rv # 0
    <3>1. entries = MergeConfigs(map.entries, Template(release))
      BY <1>1, <2>2
    <3>2. map.entries \in Seq(Entry) /\ Sound(map.entries)
      BY MapEnds DEF IInv, StoredInv
    <3> HIDE DEF entries
    <3> QED BY <1>1, <3>1, <3>2, MergeEntries DEF EntriesOf
  <2> QED BY <2>1, <2>2
<1>3. PutEntries(entries)
  BY DEF Put
<1> HIDE DEF entries
<1>4. /\ maps' \in Seq(ConfigMap) /\ maps' # << >> /\ MapsInv' /\ FoundInv'
      /\ map'.entries = entries
      /\ map'.rv = 0 => map.rv = 0 /\ entries = map.entries
      /\ entries = map.entries => map' = map
  BY <1>2, <1>3, PutEntriesEffect DEF IInv
<1>5. StoredInv'
  BY <1>2, <1>4 DEF IInv, StoredInv
<1> QED BY <1>2, <1>4, <1>5 DEF EntriesOf

\* The invariant holds at first, with no configuration or one without version.
LEMMA InitIInv == Init => IInv
<1> SUFFICES ASSUME Init PROVE IInv
  OBVIOUS
<1>1. Template(0) \in Seq(Entry) /\ Sound(Template(0))
  BY TemplateEntries, TemplateSound
<1>2. << >> \in Seq(Entry) /\ ToSet(<< >>) = {}
  BY DEF ToSet
<1>3. Sound(<< >>)
  BY <1>2, VersionRead DEF Sound, OneVersion
<1>4. PICK m : maps = <<m>> /\ m \in ConfigMap /\ Sound(m.entries)
               /\ (m.rv = 0 => m.entries = << >>)
  <2> DEFINE a == [rv |-> 0, entries |-> << >>]
             b == [rv |-> 1, entries |-> Template(0)]
  <2>1. maps = <<a>> \/ maps = <<b>>
    BY DEF Init
  <2>2. a \in ConfigMap /\ a.rv = 0 /\ a.entries = << >>
    BY <1>2 DEF ConfigMap
  <2>3. b \in ConfigMap /\ b.rv = 1 /\ b.entries = Template(0)
    BY <1>1 DEF ConfigMap
  <2> HIDE DEF a, b
  <2> QED BY <1>1, <1>3, <2>1, <2>2, <2>3
<1>5. maps \in Seq(ConfigMap) /\ maps # << >> /\ Len(maps) = 1 /\ maps[1] = m
  BY <1>4, QueueRestart
<1>6. map = m /\ m.rv \in Nat
  BY <1>4, <1>5 DEF map, ConfigMap
<1>7. found = m /\ pc = "idle" /\ release \in Releases
  BY <1>6 DEF Init
<1> QED BY <1>4, <1>5, <1>6, <1>7
        DEF IInv, TypeOK, MapsInv, FoundInv, StoredInv, DoneInv

\* The informer's copy follows, or a new process lists the config map.
LEMMA FollowInv ==
  ASSUME IInv, Deliver \/ Replace
  PROVE  IInv'
<1>1. (Len(maps) > 1 /\ maps' = Tail(maps)) \/ maps' = <<map>>
  BY DEF Deliver, Replace
<1>2. /\ maps' \in Seq(ConfigMap) /\ maps' # << >>
      /\ map' = map
      /\ \A i \in 1..Len(maps') : \E j \in 1..Len(maps) : maps'[i] = maps[j]
  BY <1>1, MapEnds, QueueFollow DEF map, IInv
<1>3. UNCHANGED found /\ release' \in Releases
      /\ pc' \in {"idle", "put", "done"} /\ (pc' = "done" => pc = "done" /\ release' = release)
  BY DEF Deliver, Replace, IInv, TypeOK
<1>4. TypeOK'
  BY <1>2, <1>3 DEF IInv, TypeOK
<1>5. MapsInv'
  BY <1>2 DEF IInv, MapsInv
<1>6. FoundInv' /\ StoredInv' /\ DoneInv'
  BY <1>2, <1>3 DEF IInv, FoundInv, StoredInv, DoneInv
<1> QED BY <1>4, <1>5, <1>6 DEF IInv

\* The read that starts a pass.
LEMMA FindInv ==
  ASSUME IInv, Find
  PROVE  IInv'
<1>1. /\ found' = maps[1] /\ maps' = maps /\ pc' = "put" /\ release' = release
      /\ map' = map /\ 1 \in 1..Len(maps) /\ maps[1] \in ConfigMap
  BY MapEnds DEF Find, IInv, map
<1>2. TypeOK'
  BY <1>1 DEF IInv, TypeOK
<1> QED BY <1>1, <1>2 DEF IInv, MapsInv, FoundInv, StoredInv, DoneInv

\* The operator's write, whatever its answer.
LEMMA PutInv ==
  ASSUME IInv, PutSucceeds \/ Refused \/ PutFails
  PROVE  IInv'
<1>1. UNCHANGED <<release, found>> /\ pc' \in {"idle", "done"}
  BY DEF PutSucceeds, Refused, PutFails
<1>2. CASE Put
  <2>1. /\ maps' \in Seq(ConfigMap) /\ maps' # << >>
        /\ MapsInv' /\ FoundInv' /\ StoredInv'
        /\ ConfigVersion(map'.entries) = release /\ HasTemplate(map'.entries, release)
    BY <1>1, <1>2, PutEffect
  <2>2. TypeOK' /\ DoneInv'
    BY <1>1, <2>1 DEF IInv, TypeOK, DoneInv
  <2> QED BY <2>1, <2>2 DEF IInv
<1>3. CASE UNCHANGED maps /\ pc' = "idle"
  <2>1. map' = map
    BY <1>3 DEF map
  <2> QED BY <1>1, <1>3, <2>1
          DEF IInv, TypeOK, MapsInv, FoundInv, StoredInv, DoneInv
<1> QED BY <1>2, <1>3 DEF PutSucceeds, Refused, PutFails

\* What somebody else's edit stores.
LEMMA CustomiseEffect ==
  ASSUME IInv, Customise
  PROVE  \E new \in Seq(Entry) :
            /\ PutEntries(new)
            /\ \A e \in Entry : e \notin Customs =>
                  (e \in ToSet(map.entries) <=> e \in ToSet(new))
<1>1. PICK c \in Customs :
         PutEntries(IF Contains(map.entries, c)
                      THEN Without(map.entries, {c})
                      ELSE Append(map.entries, c))
  BY DEF Customise
<1>2. c \in Entry
  BY DEF Customs, Entry, Types, EntryNames
<1>3. map.entries \in Seq(Entry)
  BY MapEnds DEF IInv
<1>4. CASE Contains(map.entries, c)
  <2>1. /\ Without(map.entries, {c}) \in Seq(Entry)
        /\ ToSet(Without(map.entries, {c})) = ToSet(map.entries) \ {c}
    BY <1>3, WithoutEntries
  <2> QED BY <1>1, <1>4, <2>1
<1>5. CASE ~Contains(map.entries, c)
  <2>1. /\ Append(map.entries, c) \in Seq(Entry)
        /\ ToSet(Append(map.entries, c)) = ToSet(map.entries) \cup {c}
    BY <1>2, <1>3, AppendedEntry
  <2> QED BY <1>1, <1>5, <2>1
<1> QED BY <1>4, <1>5

\* An edit of somebody else keeps the invariant.
LEMMA CustomiseInv ==
  ASSUME IInv, Customise
  PROVE  IInv'
<1>1. PICK new \in Seq(Entry) :
         /\ PutEntries(new)
         /\ \A e \in Entry : e \notin Customs =>
               (e \in ToSet(map.entries) <=> e \in ToSet(new))
  BY CustomiseEffect
<1>2. UNCHANGED <<release, pc, found>> /\ map.rv # 0
  BY DEF Customise
<1>3. /\ maps' \in Seq(ConfigMap) /\ maps' # << >>
      /\ MapsInv' /\ FoundInv' /\ map'.entries = new /\ map'.rv # 0
  BY <1>1, <1>2, PutEntriesEffect DEF IInv
<1>4. map.entries \in Seq(Entry) /\ Sound(map.entries)
  BY MapEnds DEF IInv, StoredInv
<1>5. /\ Sound(new) /\ ConfigVersion(new) = ConfigVersion(map.entries)
      /\ \A v \in Releases : HasTemplate(map.entries, v) => HasTemplate(new, v)
  BY <1>1, <1>4, CustomsDoNotMatter
<1>6. TypeOK'
  BY <1>2, <1>3 DEF IInv, TypeOK
<1>7. StoredInv' /\ DoneInv'
  BY <1>2, <1>3, <1>5 DEF IInv, TypeOK, StoredInv, DoneInv
<1> QED BY <1>3, <1>6, <1>7 DEF IInv

\* Every step keeps the invariant.
LEMMA NextIInv == IInv /\ [Next]_vars => IInv'
<1> SUFFICES ASSUME IInv, [Next]_vars PROVE IInv'
  OBVIOUS
<1>1. CASE UNCHANGED vars
  BY <1>1 DEF vars, IInv, TypeOK, MapsInv, FoundInv, StoredInv, DoneInv, map
<1>2. CASE Next
  BY <1>2, FindInv, PutInv, FollowInv, CustomiseInv DEF Next
<1> QED BY <1>1, <1>2
-----------------------------------------------------------------------------
\* The invariant holds in every reachable state, for any releases and any
\* number of upgrades, downgrades and customisations.
THEOREM Invariance == Spec => []IInv
<1> QED BY InitIInv, NextIInv, PTL DEF Spec

\* Every variable has its type.
THEOREM TypeCorrect == Spec => []TypeOK
<1>1. IInv => TypeOK
  BY DEF IInv
<1> QED BY <1>1, Invariance, PTL

\* When createConfigMap has succeeded, the stored configuration has the version
\* of the running release and what this release embeds, whatever it was merged
\* with.
THEOREM UpgradesAreComplete == Spec => []UpgradeIsComplete
<1>1. IInv => UpgradeIsComplete
  BY DEF IInv, DoneInv, HasTemplate, UpgradeIsComplete, EntriesOf
<1> QED BY <1>1, Invariance, PTL

\* No merge and no late write takes out what others have added.
THEOREM CustomsStay == Spec => CustomsAreKept
<1>1. ASSUME IInv, [Next]_vars, ~Customise, NEW e \in EntriesOf(map) \cap Customs,
             e.type # "address"
      PROVE  e \in EntriesOf(map')
  <2>1. ~ShouldUpdate(e)
    BY <1>1 DEF Customs, ShouldUpdate
  <2>2. CASE Put /\ UNCHANGED <<found, release>>
    BY <1>1, <2>1, <2>2, PutEffect
  <2>3. CASE map' = map
    BY <1>1, <2>3
  <2>4. CASE Deliver \/ Replace
    <3>1. (Len(maps) > 1 /\ maps' = Tail(maps)) \/ maps' = <<map>>
      BY <2>4 DEF Deliver, Replace
    <3>2. map' = map
      BY <1>1, <3>1, MapEnds, QueueFollow DEF map, IInv
    <3> QED BY <1>1, <3>2
  <2>5. CASE UNCHANGED maps
    BY <1>1, <2>5 DEF map
  <2> QED BY <1>1, <2>2, <2>3, <2>4, <2>5
          DEF Next, vars, Find, PutSucceeds, Refused, PutFails
<1>2. IInv /\ [Next]_vars =>
        [~Customise => \A e \in EntriesOf(map) \cap Customs :
                         e.type # "address" => e \in EntriesOf(map')]_vars
  BY <1>1
<1> QED BY <1>2, Invariance, PTL DEF Spec, CustomsAreKept

\* Once the configuration has the running release's version no pass changes it.
THEOREM OneMergePerRelease == Spec => MergedOnce
<1>1. ASSUME IInv, [Next]_vars, ConfigVersion(map.entries) = release, map' # map
      PROVE  Customise
  <2>1. CASE Put /\ UNCHANGED <<found, release>>
    BY <1>1, <2>1, PutEffect
  <2>2. CASE Deliver \/ Replace
    <3>1. (Len(maps) > 1 /\ maps' = Tail(maps)) \/ maps' = <<map>>
      BY <2>2 DEF Deliver, Replace
    <3> QED BY <1>1, <3>1, MapEnds, QueueFollow DEF map, IInv
  <2>3. CASE UNCHANGED maps
    BY <1>1, <2>3 DEF map
  <2> QED BY <1>1, <2>1, <2>2, <2>3
          DEF Next, vars, Find, PutSucceeds, Refused, PutFails
<1>2. IInv /\ [Next]_vars =>
        [ConfigVersion(map.entries) = release /\ map' # map => Customise]_vars
  BY <1>1
<1> QED BY <1>2, Invariance, PTL DEF Spec, MergedOnce
=============================================================================
