------------------------------ MODULE SeqLemmas ------------------------------
(***************************************************************************)
(* What the proofs need of numbers and sequences: least elements, the      *)
(* existence of recursive functions, and FlattenSeq().                     *)
(***************************************************************************)
EXTENDS Integers, SequencesExt, FiniteSetTheorems, SequenceTheorems,
        WellFoundedInduction, TLAPS

\* A set of natural numbers that is not empty has a least element, since the
\* sets of its elements up to each of them are ordered by inclusion.
LEMMA LeastExists ==
  ASSUME NEW S \in SUBSET Nat, S # {}
  PROVE  \E x \in S : \A y \in S : x <= y
<1>1. PICK n \in S : TRUE
  OBVIOUS
<1> DEFINE UpTo(k) == {y \in S : y <= k}
           T == {UpTo(k) : k \in UpTo(n)}
<1>2. IsFiniteSet(0 .. n)
  BY FS_Interval
<1>3. IsWellFoundedOn(StrictSubsetOrdering(0 .. n), SUBSET (0 .. n))
  BY <1>2, FS_StrictSubsetOrderingWellFounded, FS_FiniteSubsetsOfFinite
<1>4. T \subseteq SUBSET (0 .. n) /\ T # {}
  <2>1. n \in UpTo(n)
    BY <1>1
  <2>2. ASSUME NEW k \in UpTo(n) PROVE UpTo(k) \in SUBSET (0 .. n)
    <3>1. ASSUME NEW y \in UpTo(k) PROVE y \in 0 .. n
      BY <1>1
    <3> HIDE DEF UpTo
    <3> QED
      BY <3>1
  <2> HIDE DEF UpTo
  <2> QED
    BY <2>1, <2>2
<1>5. PICK A \in T : \A B \in T : ~(<<B, A>> \in StrictSubsetOrdering(0 .. n))
  BY <1>3, <1>4, WFMin
<1>6. PICK x \in UpTo(n) : A = UpTo(x)
  BY <1>5
<1>7. ASSUME NEW y \in S, y < x PROVE FALSE
  <2>1. y \in UpTo(n) /\ UpTo(y) \in T
    BY <1>6, <1>7
  <2>2. UpTo(y) \subseteq UpTo(x) /\ UpTo(y) # UpTo(x)
    <3>1. x \in UpTo(x) /\ x \notin UpTo(y)
      BY <1>6, <1>7
    <3>2. \A z \in UpTo(y) : z \in UpTo(x)
      BY <1>6, <1>7
    <3> HIDE DEF UpTo
    <3> QED
      BY <3>1, <3>2
  <2>3. <<UpTo(y), UpTo(x)>> \in StrictSubsetOrdering(0 .. n)
    <3>1. UpTo(y) \in SUBSET (0 .. n) /\ UpTo(x) \in SUBSET (0 .. n)
      BY <2>1, <1>6, <1>4
    <3> HIDE DEF UpTo
    <3> QED
      BY <2>2, <3>1 DEF StrictSubsetOrdering
  <2> QED
    BY <1>5, <1>6, <2>1, <2>3
<1>8. x \in S /\ \A y \in S : x <= y
  BY <1>6, <1>7
<1> QED
  BY <1>8

LEMMA MinOf ==
  ASSUME NEW S \in SUBSET Nat, S # {}
  PROVE  Min(S) \in S /\ \A y \in S : Min(S) <= y
BY LeastExists DEF Min

LEMMA MinIs ==
  ASSUME NEW S \in SUBSET Nat, NEW x \in S, \A y \in S : x <= y
  PROVE  Min(S) = x
<1>1. Min(S) \in S /\ Min(S) <= x
  BY MinOf
<1> DEFINE m == Min(S)
<1>2. m \in Nat /\ x \in Nat /\ m <= x /\ x <= m
  BY <1>1
<1> HIDE DEF m
<1>3. m = x
  BY <1>2
<1> QED
  BY <1>3 DEF m

\* What is written down index by index is a sequence.
LEMMA FunctionIsSeq ==
  ASSUME NEW S, NEW n \in Nat, NEW v,
         v = [i \in 1 .. n |-> v[i]], \A i \in 1 .. n : v[i] \in S
  PROVE  v \in Seq(S) /\ Len(v) = n
<1>1. v \in [1 .. n -> S]
  OBVIOUS
<1>2. v \in Seq(S)
  BY <1>1, SeqDef
<1> QED
  BY <1>1, <1>2, LenProperties

\* Induction: a set that has 0, and with each number its successor, has all.
LEMMA Induction ==
  ASSUME NEW S, 0 \in S, \A n \in Nat : n \in S => n + 1 \in S
  PROVE  Nat \subseteq S
<1> SUFFICES ASSUME Nat \ S # {}
             PROVE  FALSE
  OBVIOUS
<1>1. PICK x \in Nat \ S : \A y \in Nat \ S : x <= y
  BY LeastExists
<1>2. x # 0 /\ x - 1 \in Nat /\ x - 1 \in S
  BY <1>1
<1> QED
  BY <1>1, <1>2

\* The value that G gives for a function and x depends only on what the function
\* is at what has a lower rank than x.
LooksBelow(G, D, S, rank, N) ==
  /\ S # {}
  /\ N \in Nat
  /\ rank \in [D -> 0 .. N]
  /\ G \in [[D -> S] \X D -> S]
  /\ \A x \in D : \A g, h \in [D -> S] :
       (\A y \in D : rank[y] < rank[x] => g[y] = h[y])
         => G[<<g, x>>] = G[<<h, x>>]

Solves(f, G, D, S) ==
  /\ f \in [D -> S]
  /\ \A x \in D : f[x] = G[<<f, x>>]

\* A recursive function exists if its value at x depends only on its values at
\* what has a lower rank.
LEMMA RecursionExists ==
  ASSUME NEW G, NEW D, NEW S, NEW rank, NEW N, LooksBelow(G, D, S, rank, N)
  PROVE  \E f : Solves(f, G, D, S)
<1> DEFINE Upto(k, f) == \A x \in D : rank[x] < k => f[x] = G[<<f, x>>]
           Ks == {k \in Nat : \E f \in [D -> S] : Upto(k, f)}
<1>1. 0 \in Ks
  <2> PICK e \in S : TRUE
    BY DEF LooksBelow
  <2>1. [x \in D |-> e] \in [D -> S]
    OBVIOUS
  <2>2. Upto(0, [x \in D |-> e])
    BY DEF LooksBelow
  <2> QED
    BY <2>1, <2>2
<1>2. ASSUME NEW k \in Nat, k \in Ks PROVE k + 1 \in Ks
  <2>1. PICK f \in [D -> S] : Upto(k, f)
    BY <1>2
  <2> DEFINE h == [x \in D |-> IF rank[x] < k THEN f[x] ELSE G[<<f, x>>]]
  <2>2. h \in [D -> S]
    BY DEF LooksBelow
  <2>3. ASSUME NEW x \in D, rank[x] < k + 1
        PROVE  h[x] = G[<<h, x>>]
    <3> \A y \in D : rank[y] \in Nat
      BY DEF LooksBelow
    <3>1. h[x] = G[<<f, x>>]
      BY <2>1
    <3>2. \A y \in D : rank[y] < rank[x] => f[y] = h[y]
      BY <2>3
    <3> HIDE DEF h
    <3>3. G[<<f, x>>] = G[<<h, x>>]
      BY <2>2, <3>2 DEF LooksBelow
    <3> QED
      BY <3>1, <3>3
  <2> HIDE DEF h
  <2>4. Upto(k + 1, h)
    BY <2>3
  <2> HIDE DEF Upto
  <2> QED
    BY <2>2, <2>4
<1>3. N + 1 \in Ks
  <2> N + 1 \in Nat
    BY DEF LooksBelow
  <2> HIDE DEF Ks
  <2> QED
    BY <1>1, <1>2, Induction
<1>4. PICK f \in [D -> S] : Upto(N + 1, f)
  BY <1>3
<1>5. \A x \in D : rank[x] < N + 1
  BY DEF LooksBelow
<1> QED
  BY <1>4, <1>5 DEF Solves

\* All but the last of a sequence, and another in the place of the last.
LEMMA FrontIs ==
  ASSUME NEW T, NEW ss \in Seq(T), ss # <<>>
  PROVE  /\ Front(ss) \in Seq(T) /\ Len(Front(ss)) = Len(ss) - 1
         /\ \A i \in 1 .. Len(ss) - 1 : Front(ss)[i] = ss[i]
         /\ Last(ss) \in T /\ Last(ss) = ss[Len(ss)]
         /\ ss = Append(Front(ss), Last(ss))
         /\ \A new \in T : [ss EXCEPT ![Len(ss)] = new] = Append(Front(ss), new)
<1>1. Len(ss) \in Nat \ {0}
  OBVIOUS
<1>2. /\ Front(ss) \in Seq(T) /\ Len(Front(ss)) = Len(ss) - 1
      /\ \A i \in 1 .. Len(ss) - 1 : Front(ss)[i] = ss[i]
      /\ Last(ss) \in T /\ Last(ss) = ss[Len(ss)]
  <2>1. Front(ss) = SubSeq(ss, 1, Len(ss) - 1) /\ Last(ss) = ss[Len(ss)]
    BY DEF Front, Last
  <2>2. \A i \in 1 .. Len(ss) : ss[i] \in T
    OBVIOUS
  <2> DEFINE n == Len(ss) - 1
  <2>3. n \in Nat /\ \A i \in 1 .. n : ss[i] \in T
    BY <1>1, <2>2
  <2>4. /\ SubSeq(ss, 1, n) \in Seq(T) /\ Len(SubSeq(ss, 1, n)) = n
        /\ \A i \in 1 .. n : SubSeq(ss, 1, n)[i] = ss[i]
    <3> HIDE DEF n
    <3> QED
      BY <2>3, SubSeqProperties
  <2> QED
    BY <1>1, <2>1, <2>2, <2>4
<1>3. ASSUME NEW new \in T
      PROVE  [ss EXCEPT ![Len(ss)] = new] = Append(Front(ss), new)
  <2> DEFINE a == [ss EXCEPT ![Len(ss)] = new]
             b == Append(Front(ss), new)
  <2>1. a \in Seq(T) /\ b \in Seq(T) /\ Len(a) = Len(ss) /\ Len(b) = Len(ss)
    BY <1>1, <1>2
  <2>2. \A i \in 1 .. Len(ss) : a[i] = b[i]
    BY <1>1, <1>2
  <2> HIDE DEF a, b
  <2>3. a = b
    BY <2>1, <2>2, SeqEqual
  <2> QED
    BY <2>3 DEF a, b
<1>4. ss = [ss EXCEPT ![Len(ss)] = Last(ss)]
  BY <1>1, <1>2
<1> QED
  BY <1>2, <1>3, <1>4

(***************************************************************************)
(* FlattenSeq()                                                            *)
(***************************************************************************)
\* What FlattenSeq() computes of the first sequences of ss.
Flat(ss) ==
  CHOOSE f : f = [i \in 1 .. Len(ss) |->
                    IF i = 1 THEN ss[i] ELSE f[i - 1] \o ss[i]]

LEMMA FlatIs ==
  ASSUME NEW T, NEW ss \in Seq(Seq(T))
  PROVE  /\ Flat(ss) \in [1 .. Len(ss) -> Seq(T)]
         /\ \A i \in 1 .. Len(ss) :
              Flat(ss)[i] = IF i = 1 THEN ss[i] ELSE Flat(ss)[i - 1] \o ss[i]
<1> DEFINE n == Len(ss)
           D == 1 .. n
           S == Seq(T)
           rank == [i \in D |-> i]
           value(f, i) == IF i = 1 THEN ss[i] ELSE f[i - 1] \o ss[i]
           G == [p \in [D -> S] \X D |-> value(p[1], p[2])]
<1>1. n \in Nat /\ <<>> \in S /\ rank \in [D -> 0 .. n]
  OBVIOUS
<1>2. ASSUME NEW f \in [D -> S], NEW i \in D PROVE value(f, i) \in S
  <2>1. ss[i] \in S /\ (i # 1 => i - 1 \in D)
    BY <1>1
  <2> HIDE DEF D
  <2> QED
    BY <2>1
<1>3. LooksBelow(G, D, S, rank, n)
  <2>1. G \in [[D -> S] \X D -> S]
    <3> HIDE DEF D, S, value
    <3> QED
      BY <1>2
  <2>2. ASSUME NEW i \in D, NEW g \in [D -> S], NEW h \in [D -> S],
               \A j \in D : rank[j] < rank[i] => g[j] = h[j]
        PROVE  value(g, i) = value(h, i)
    <3>1. i # 1 => i - 1 \in D /\ rank[i - 1] < rank[i]
      BY <1>1
    <3>2. i # 1 => g[i - 1] = h[i - 1]
      BY <2>2, <3>1
    <3> QED
      BY <3>2
  <2> HIDE DEF D, S, value, rank
  <2> QED
    BY <1>1, <2>1, <2>2 DEF LooksBelow
<1>4. PICK f : Solves(f, G, D, S)
  <2> HIDE DEF D, S, G, rank, n
  <2> QED
    BY <1>3, RecursionExists
<1>5. f \in [D -> S] /\ \A i \in D : f[i] = value(f, i)
  <2> HIDE DEF D, S, value
  <2> QED
    BY <1>4 DEF Solves
<1>6. f = [i \in D |-> value(f, i)]
  <2> HIDE DEF D, S, value
  <2> QED
    BY <1>5
<1>7. Flat(ss) = [i \in D |-> value(Flat(ss), i)]
  BY <1>6 DEF Flat
<1>8. \A i \in D : Flat(ss)[i] = value(Flat(ss), i)
  <2> HIDE DEF D, value
  <2> QED
    BY <1>7
<1>9. ASSUME NEW i \in Nat, i + 1 \in D PROVE Flat(ss)[i + 1] \in S
  <2> DEFINE Is == {k \in Nat : k + 1 \in D => Flat(ss)[k + 1] \in S}
  <2>1. 0 \in Is
    BY <1>8
  <2>2. ASSUME NEW k \in Nat, k \in Is PROVE k + 1 \in Is
    <3> SUFFICES ASSUME k + 1 + 1 \in D PROVE Flat(ss)[k + 1 + 1] \in S
      OBVIOUS
    <3>1. k + 1 \in D /\ k + 1 + 1 # 1 /\ k + 1 + 1 - 1 = k + 1
      BY <1>1
    <3> DEFINE j == k + 1 + 1
    <3>2. Flat(ss)[j] = Flat(ss)[j - 1] \o ss[j]
      <4>1. j \in D /\ j # 1
        BY <3>1
      <4> HIDE DEF j, D
      <4> QED
        BY <1>8, <4>1
    <3>3. ss[k + 1 + 1] \in S
      BY <1>1
    <3>4. Flat(ss)[k + 1] \in S
      BY <2>2, <3>1
    <3> QED
      BY <3>1, <3>2, <3>3, <3>4
  <2> HIDE DEF Is
  <2>3. Nat \subseteq Is
    BY <2>1, <2>2, Induction
  <2> QED
    BY <1>9, <2>3 DEF Is
<1>10. \A i \in D : Flat(ss)[i] \in S
  <2> TAKE i \in D
  <2>1. i - 1 \in Nat /\ i - 1 + 1 = i
    BY <1>1
  <2> QED
    BY <1>9, <2>1
<1> QED
  <2> HIDE DEF S, value
  <2>1. Flat(ss) \in [D -> S]
    BY <1>7, <1>10
  <2> QED
    BY <1>8, <2>1 DEF value, S

LEMMA FlattenIs ==
  ASSUME NEW T, NEW ss \in Seq(Seq(T))
  PROVE  /\ ss = <<>> => FlattenSeq(ss) = <<>>
         /\ ss # <<>> => FlattenSeq(ss) = Flat(ss)[Len(ss)]
         /\ FlattenSeq(ss) \in Seq(T)
<1>1. CASE ss = <<>>
  BY <1>1 DEF FlattenSeq
<1>2. CASE ss # <<>>
  <2>1. Len(ss) \in 1 .. Len(ss)
    BY <1>2
  <2>2. FlattenSeq(ss) = Flat(ss)[Len(ss)]
    BY <2>1 DEF FlattenSeq, Flat
  <2> QED
    BY <1>2, <2>1, <2>2, FlatIs
<1> QED
  BY <1>1, <1>2

LEMMA FlattenAppend ==
  ASSUME NEW T, NEW ss \in Seq(Seq(T)), NEW s \in Seq(T)
  PROVE  FlattenSeq(Append(ss, s)) = FlattenSeq(ss) \o s
<1> DEFINE tt == Append(ss, s)
           n == Len(ss)
<1>1. tt \in Seq(Seq(T)) /\ Len(tt) = n + 1 /\ n \in Nat /\ tt # <<>>
      /\ tt[n + 1] = s /\ \A i \in 1 .. n : tt[i] = ss[i]
  <2> DEFINE U == Seq(T)
  <2>1. ss \in Seq(U) /\ s \in U
    OBVIOUS
  <2> HIDE DEF U
  <2>2. /\ Append(ss, s) \in Seq(U) /\ Append(ss, s) # <<>>
        /\ Len(Append(ss, s)) = Len(ss) + 1
        /\ \A i \in 1 .. Len(ss) : Append(ss, s)[i] = ss[i]
        /\ Append(ss, s)[Len(ss) + 1] = s
        /\ Len(ss) \in Nat
    BY <2>1, AppendProperties
  <2> QED
    BY <2>2 DEF U
<1>2. /\ \A i \in 1 .. n + 1 :
           Flat(tt)[i] = IF i = 1 THEN tt[i] ELSE Flat(tt)[i - 1] \o tt[i]
      /\ \A i \in 1 .. n :
           Flat(ss)[i] = IF i = 1 THEN ss[i] ELSE Flat(ss)[i - 1] \o ss[i]
  BY <1>1, FlatIs
<1> HIDE DEF tt, n
<1>3. ASSUME NEW j \in 1 .. n PROVE Flat(tt)[j] = Flat(ss)[j]
  <2> DEFINE Is == {k \in Nat : k + 1 \in 1 .. n =>
                                  Flat(tt)[k + 1] = Flat(ss)[k + 1]}
  <2>1. 0 \in Is
    BY <1>1, <1>2
  <2>2. ASSUME NEW k \in Nat, k \in Is PROVE k + 1 \in Is
    <3> DEFINE i == k + 1 + 1
    <3> SUFFICES ASSUME i \in 1 .. n PROVE Flat(tt)[i] = Flat(ss)[i]
      OBVIOUS
    <3>1. k + 1 \in 1 .. n /\ i # 1 /\ i - 1 = k + 1 /\ i \in 1 .. n + 1
      BY <1>1
    <3>2. Flat(tt)[k + 1] = Flat(ss)[k + 1]
      BY <2>2, <3>1
    <3> HIDE DEF i
    <3> QED
      BY <1>1, <1>2, <3>1, <3>2
  <2> HIDE DEF Is
  <2>3. Nat \subseteq Is
    BY <2>1, <2>2, Induction
  <2>4. j - 1 \in Nat /\ j - 1 + 1 = j
    BY <1>1
  <2> QED
    BY <2>3, <2>4 DEF Is
<1>4. FlattenSeq(tt) = Flat(tt)[n + 1]
  BY <1>1, FlattenIs
<1>5. CASE n = 0
  <2>1. ss = <<>>
    BY <1>5 DEF n
  <2>5. FlattenSeq(ss) = <<>>
    BY <2>1, FlattenIs
  <2>2. Flat(tt)[1] = s
    BY <1>1, <1>2, <1>5
  <2>3. <<>> \o s = s
    BY ConcatEmptySeq
  <2> QED
    BY <1>4, <1>5, <2>2, <2>3, <2>5 DEF tt
<1>6. CASE n # 0
  <2>1. ss # <<>>
    BY <1>6 DEF n
  <2>2. FlattenSeq(ss) = Flat(ss)[n]
    BY <2>1, FlattenIs DEF n
  <2>3. n + 1 \in 1 .. n + 1 /\ n + 1 # 1 /\ n + 1 - 1 = n /\ n \in 1 .. n
    BY <1>1, <1>6
  <2> DEFINE m == n + 1
  <2>4. Flat(tt)[m] = Flat(tt)[n] \o s
    <3>1. m \in 1 .. n + 1 /\ m # 1 /\ m - 1 = n /\ tt[m] = s
      BY <1>1, <2>3
    <3> HIDE DEF m
    <3> QED
      BY <1>2, <3>1
  <2> QED
    BY <1>3, <1>4, <2>2, <2>3, <2>4 DEF tt
<1> QED
  BY <1>5, <1>6

LEMMA Associative ==
  ASSUME NEW T
  PROVE  \A x, y, z \in Seq(T) : (x \o y) \o z = x \o (y \o z)
<1> TAKE x, y, z \in Seq(T)
<1> QED
  BY ConcatAssociative

LEMMA FlattenConcat ==
  ASSUME NEW T, NEW ss \in Seq(Seq(T)), NEW tt \in Seq(Seq(T))
  PROVE  FlattenSeq(ss \o tt) = FlattenSeq(ss) \o FlattenSeq(tt)
<1> DEFINE Is == {k \in Nat :
                    \A uu \in Seq(Seq(T)) : Len(uu) = k =>
                      FlattenSeq(ss \o uu) = FlattenSeq(ss) \o FlattenSeq(uu)}
<1>1. 0 \in Is
  <2> SUFFICES ASSUME NEW uu \in Seq(Seq(T)), Len(uu) = 0
               PROVE  FlattenSeq(ss \o uu) = FlattenSeq(ss) \o FlattenSeq(uu)
    OBVIOUS
  <2>1. uu = <<>> /\ ss \o uu = ss
    OBVIOUS
  <2>2. FlattenSeq(uu) = <<>> /\ FlattenSeq(ss) \in Seq(T)
    BY <2>1, FlattenIs
  <2> QED
    BY <2>1, <2>2, ConcatEmptySeq
<1>2. ASSUME NEW k \in Nat, k \in Is PROVE k + 1 \in Is
  <2> SUFFICES ASSUME NEW uu \in Seq(Seq(T)), Len(uu) = k + 1
               PROVE  FlattenSeq(ss \o uu) = FlattenSeq(ss) \o FlattenSeq(uu)
    OBVIOUS
  <2>1. PICK vv \in Seq(Seq(T)), s \in Seq(T) : uu = Append(vv, s)
    <3> HIDE DEF Is
    <3>1. uu # <<>>
      OBVIOUS
    <3> DEFINE U == Seq(T)
    <3>2. uu \in Seq(U)
      OBVIOUS
    <3> HIDE DEF U
    <3>3. \E vv \in Seq(U), s \in U : uu = Append(vv, s)
      BY <3>1, <3>2, SequenceEmptyOrAppend
    <3> QED
      BY <3>3 DEF U
  <2>2. Len(vv) = k
    BY <2>1
  <2>3. ss \o uu = Append(ss \o vv, s) /\ ss \o vv \in Seq(Seq(T))
    BY <2>1
  <2>4. FlattenSeq(ss \o uu) = FlattenSeq(ss \o vv) \o s
    BY <2>3, FlattenAppend
  <2>5. FlattenSeq(uu) = FlattenSeq(vv) \o s
    BY <2>1, FlattenAppend
  <2>6. FlattenSeq(ss \o vv) = FlattenSeq(ss) \o FlattenSeq(vv)
    BY <1>2, <2>2
  <2>7. FlattenSeq(ss) \in Seq(T) /\ FlattenSeq(vv) \in Seq(T)
    BY FlattenIs
  <2> DEFINE a == FlattenSeq(ss)
             b == FlattenSeq(vv)
  <2>8. (a \o b) \o s = a \o (b \o s)
    <3>1. a \in Seq(T) /\ b \in Seq(T)
      BY <2>7
    <3> HIDE DEF a, b
    <3> QED
      BY SMTT(30), <2>1, <3>1, Associative
  <2> QED
    BY <2>4, <2>5, <2>6, <2>8
<1>3. Nat \subseteq Is
  <2> HIDE DEF Is
  <2> QED
    BY <1>1, <1>2, Induction
<1>4. Len(tt) \in Nat
  OBVIOUS
<1> QED
  BY <1>3, <1>4

LEMMA FlattenOne ==
  ASSUME NEW T, NEW s \in Seq(T)
  PROVE  FlattenSeq(<<s>>) = s
<1>1. <<>> \in Seq(Seq(T)) /\ Append(<<>>, s) = <<s>>
  OBVIOUS
<1>2. FlattenSeq(<<>>) = <<>>
  BY <1>1, FlattenIs
<1>3. FlattenSeq(<<s>>) = <<>> \o s
  BY <1>1, <1>2, FlattenAppend
<1> QED
  BY <1>3, ConcatEmptySeq
==============================================================================
