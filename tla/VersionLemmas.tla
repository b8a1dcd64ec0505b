--------------------------- MODULE VersionLemmas ---------------------------
(***************************************************************************)
(* Lemmas about queues of versions: the sequences that run from what an    *)
(* informer's copy shows to what the API server stores.                    *)
(***************************************************************************)
EXTENDS Naturals, Sequences, SequenceTheorems, TLAPS

\* A queue that is not empty has a first and a last element of its set.
LEMMA QueueEnds ==
  ASSUME NEW S, NEW q \in Seq(S), q # << >>
  PROVE  /\ Len(q) \in Nat /\ Len(q) >= 1
         /\ 1 \in 1..Len(q) /\ Len(q) \in 1..Len(q)
         /\ Head(q) = q[1]
         /\ Head(q) \in S /\ q[Len(q)] \in S
         /\ \A i \in 1..Len(q) : q[i] \in S
<1>1. Len(q) \in Nat /\ Len(q) >= 1
  BY EmptySeq
<1>2. \A i \in 1..Len(q) : q[i] \in S
  BY ElementOfSeq
<1>3. Head(q) = q[1]
  OBVIOUS
<1> QED BY <1>1, <1>2, <1>3

\* A version that is written comes last and leaves the others in their places.
LEMMA QueueAppend ==
  ASSUME NEW S, NEW q \in Seq(S), q # << >>, NEW e \in S, NEW r, r = Append(q, e)
  PROVE  /\ r \in Seq(S) /\ r # << >>
         /\ Len(r) = Len(q) + 1
         /\ r[Len(r)] = e
         /\ Head(r) = Head(q)
         /\ \A i \in 1..Len(q) : r[i] = q[i]
         /\ \A i \in 1..Len(r) : i \in 1..Len(q) \/ i = Len(r)
<1>1. /\ r \in Seq(S)
      /\ Len(r) = Len(q) + 1
      /\ r[Len(q) + 1] = e
      /\ \A i \in 1..Len(q) : r[i] = q[i]
  OBVIOUS
<1>2. Len(q) \in Nat /\ Len(q) >= 1 /\ Head(q) = q[1]
  BY QueueEnds
<1>3. r # << >>
  BY <1>1, <1>2, EmptySeq
<1>4. Head(r) = Head(q)
  BY <1>1, <1>2, <1>3
<1>5. \A i \in 1..Len(r) : i \in 1..Len(q) \/ i = Len(r)
  BY <1>1, <1>2
<1> QED BY <1>1, <1>3, <1>4, <1>5

\* When the copy follows, the stored version stays and the others move up.
LEMMA QueueTail ==
  ASSUME NEW S, NEW q \in Seq(S), Len(q) > 1, NEW r, r = Tail(q)
  PROVE  /\ r \in Seq(S) /\ r # << >>
         /\ Len(r) = Len(q) - 1
         /\ r[Len(r)] = q[Len(q)]
         /\ \A i \in 1..Len(r) : r[i] = q[i + 1] /\ i + 1 \in 1..Len(q)
<1>1. Len(q) \in Nat
  OBVIOUS
<1>2. q # << >>
  BY <1>1, EmptySeq
<1>3. /\ r \in Seq(S)
      /\ Len(r) = Len(q) - 1
      /\ \A i \in 1..Len(r) : r[i] = q[i + 1]
  BY <1>2, HeadTailProperties
<1>4. r # << >>
  <2>1. Len(r) # 0
    BY <1>1, <1>3
  <2> QED BY <1>3, <2>1, EmptySeq
<1>5. Len(r) \in 1..Len(r) /\ Len(r) + 1 = Len(q)
  BY <1>1, <1>3
<1>6. r[Len(r)] = q[Len(q)]
  BY <1>3, <1>5
<1> QED BY <1>1, <1>3, <1>4, <1>6

\* A new process starts from the stored version.
LEMMA QueueRestart ==
  ASSUME NEW S, NEW e \in S, NEW r, r = <<e>>
  PROVE  /\ r \in Seq(S) /\ r # << >>
         /\ Len(r) = 1 /\ r[Len(r)] = e
         /\ \A i \in 1..Len(r) : r[i] = e
<1>1. r \in Seq(S) /\ Len(r) = 1 /\ r[1] = e
  OBVIOUS
<1> QED BY <1>1, EmptySeq

\* A write that changes something makes a version, one that does not does not;
\* either way the last version is what was written, the others were there.
LEMMA QueueWrite ==
  ASSUME NEW S, NEW q \in Seq(S), q # << >>, NEW e \in S, NEW r,
         r = IF q[Len(q)] = e THEN q ELSE Append(q, e)
  PROVE  /\ r \in Seq(S) /\ r # << >>
         /\ r[Len(r)] = e
         /\ \A i \in 1..Len(r) : r[i] = e \/ \E j \in 1..Len(q) : r[i] = q[j]
<1>1. CASE q[Len(q)] = e
  BY <1>1
<1>2. CASE q[Len(q)] # e
  <2>1. r = Append(q, e)
    BY <1>2
  <2> QED BY <2>1, QueueAppend
<1> QED BY <1>1, <1>2

\* When the copy follows, or a new process lists what there is, no version is
\* new and the last one stays.
LEMMA QueueFollow ==
  ASSUME NEW S, NEW q \in Seq(S), q # << >>, NEW r,
         (Len(q) > 1 /\ r = Tail(q)) \/ r = <<q[Len(q)]>>
  PROVE  /\ r \in Seq(S) /\ r # << >>
         /\ r[Len(r)] = q[Len(q)]
         /\ \A i \in 1..Len(r) : \E j \in 1..Len(q) : r[i] = q[j]
<1>1. CASE Len(q) > 1 /\ r = Tail(q)
  BY <1>1, QueueTail
<1>2. CASE r = <<q[Len(q)]>>
  <2>1. q[Len(q)] \in S /\ Len(q) \in 1..Len(q)
    BY QueueEnds
  <2>2. /\ r \in Seq(S) /\ r # << >>
        /\ r[Len(r)] = q[Len(q)]
        /\ \A i \in 1..Len(r) : r[i] = q[Len(q)]
    BY <1>2, <2>1, QueueRestart
  <2> QED BY <2>1, <2>2
<1> QED BY <1>1, <1>2

\* Lists of one put in a row.
LEMMA OneByOne ==
  ASSUME NEW S, NEW a \in S, NEW b \in S, NEW c \in S
  PROVE  /\ << >> \o <<a>> = <<a>> /\ <<a>> \o << >> = <<a>>
         /\ <<a>> \o <<b>> = <<a, b>>
         /\ <<a, b>> \o <<c>> = <<a, b, c>>
<1>1. <<a>> \in Seq(S) /\ <<a, b>> \in Seq(S)
  OBVIOUS
<1>2. << >> \o <<a>> = <<a>> /\ <<a>> \o << >> = <<a>>
  BY <1>1, ConcatEmptySeq
<1>3. <<a>> \o <<b>> = Append(<<a>>, b)
  BY <1>1, AppendIsConcat
<1>4. <<a, b>> \o <<c>> = Append(<<a, b>>, c)
  BY <1>1, AppendIsConcat
<1>5. Append(<<a>>, b) = <<a, b>>
  <2>1. Append(<<a>>, b) \in Seq(S) /\ Len(Append(<<a>>, b)) = 2
    BY <1>1, AppendProperties
  <2>2. <<a, b>> \in Seq(S) /\ Len(<<a, b>>) = 2
    OBVIOUS
  <2>3. \A i \in 1..2 : Append(<<a>>, b)[i] = <<a, b>>[i]
    BY <1>1
  <2> QED BY <2>1, <2>2, <2>3, SeqEqual
<1>6. Append(<<a, b>>, c) = <<a, b, c>>
  <2>1. Append(<<a, b>>, c) \in Seq(S) /\ Len(Append(<<a, b>>, c)) = 3
    BY <1>1, AppendProperties
  <2>2. <<a, b, c>> \in Seq(S) /\ Len(<<a, b, c>>) = 3
    OBVIOUS
  <2>3. \A i \in 1..3 : Append(<<a, b>>, c)[i] = <<a, b, c>>[i]
    BY <1>1
  <2> QED BY <2>1, <2>2, <2>3, SeqEqual
<1> QED BY <1>2, <1>3, <1>4, <1>5, <1>6

\* A fourth one.
LEMMA ThreeAndOne ==
  ASSUME NEW S, NEW a \in S, NEW b \in S, NEW c \in S, NEW d \in S
  PROVE  <<a, b, c>> \o <<d>> = <<a, b, c, d>>
<1>1. <<a, b, c>> \in Seq(S)
  OBVIOUS
<1>2. <<a, b, c>> \o <<d>> = Append(<<a, b, c>>, d)
  BY <1>1, AppendIsConcat
<1>3. Append(<<a, b, c>>, d) \in Seq(S) /\ Len(Append(<<a, b, c>>, d)) = 4
  BY <1>1, AppendProperties
<1>4. <<a, b, c, d>> \in Seq(S) /\ Len(<<a, b, c, d>>) = 4
  OBVIOUS
<1>5. \A i \in 1..4 : Append(<<a, b, c>>, d)[i] = <<a, b, c, d>>[i]
  BY <1>1
<1> QED BY <1>2, <1>3, <1>4, <1>5, SeqEqual
=============================================================================
