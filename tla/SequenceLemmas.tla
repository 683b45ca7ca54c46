---------------------------- MODULE SequenceLemmas ----------------------------
(***************************************************************************)
(* Facts about natural numbers and sequences that the proofs about files   *)
(* and catalogs need.  Induction is by the least element of a set: the     *)
(* library's induction theorems take an operator, these take sets.         *)
(***************************************************************************)
EXTENDS SequencesExt, WellFoundedInduction, FunctionTheorems, FiniteSetTheorems,
        SequenceTheorems, TLAPS

\* Every set of natural numbers has a least element.
LEMMA NatMin ==
    ASSUME NEW T \in SUBSET Nat, T # {}
    PROVE  \E m \in T : \A n \in T : m <= n
<1> DEFINE R == {ss \in Nat \X Nat : ss[1] < ss[2]}
<1>1. IsWellFoundedOn(R, Nat)
  BY NatLessThanWellFounded DEF OpToRel
<1>2. PICK m \in T : \A n \in T : ~(<<n, m>> \in R)
  BY <1>1, WFMin
<1>3. ASSUME NEW n \in T PROVE m <= n
  <2>1. m \in Nat /\ n \in Nat
    OBVIOUS
  <2>2. <<n, m>> \in Nat \X Nat /\ <<n, m>>[1] = n /\ <<n, m>>[2] = m
    BY <2>1
  <2>3. ~(n < m)
    BY <1>2, <2>2
  <2> QED
    BY <2>1, <2>3
<1> QED
  BY <1>3

\* Min of the community modules is that element.
LEMMA MinIs ==
    ASSUME NEW T \in SUBSET Nat, T # {}
    PROVE  Min(T) \in T /\ \A n \in T : Min(T) <= n
BY NatMin DEF Min

\* Induction from a start on, the property given as a set of numbers.
LEMMA InductionFrom ==
    ASSUME NEW a \in Nat, NEW P, a \in P,
           \A n \in Nat : n >= a /\ n \in P => n + 1 \in P
    PROVE  \A n \in Nat : n >= a => n \in P
<1> DEFINE T == {n \in Nat : n >= a /\ n \notin P}
<1> SUFFICES ASSUME T # {} PROVE FALSE
  OBVIOUS
<1>1. PICK m \in T : \A n \in T : m <= n
  BY NatMin
<1>2. m \in Nat /\ m >= a /\ m \notin P
  OBVIOUS
<1>3. m # a
  BY <1>2
<1>4. m - 1 \in Nat /\ m - 1 >= a /\ ~(m <= m - 1)
  BY <1>2, <1>3
<1>5. m - 1 \in P
  BY <1>1, <1>4
<1>6. (m - 1) + 1 = m
  BY <1>2
<1> QED
  BY <1>2, <1>4, <1>5, <1>6

-----------------------------------------------------------------------------
\* The length and the entries of a sequence after an insertion.
LEMMA InsertAtFacts ==
    ASSUME NEW S, NEW seq \in Seq(S), NEW i \in 1 .. Len(seq) + 1, NEW e \in S
    PROVE  /\ InsertAt(seq, i, e) \in Seq(S)
           /\ Len(InsertAt(seq, i, e)) = Len(seq) + 1
           /\ \A j \in 1 .. Len(seq) + 1 :
                 InsertAt(seq, i, e)[j] =
                     IF j < i THEN seq[j] ELSE IF j = i THEN e ELSE seq[j - 1]
<1> DEFINE front == SubSeq(seq, 1, i - 1)
           back  == SubSeq(seq, i, Len(seq))
<1>1. /\ front \in Seq(S)
      /\ Len(front) = i - 1
      /\ \A j \in 1 .. i - 1 : front[j] = seq[j]
  BY SubSeqProperties
<1>2. /\ back \in Seq(S)
      /\ Len(back) = Len(seq) - i + 1
      /\ \A j \in 1 .. Len(seq) - i + 1 : back[j] = seq[i + j - 1]
  BY SubSeqProperties
<1>3. /\ <<e>> \in Seq(S)
      /\ Len(<<e>>) = 1
      /\ <<e>>[1] = e
  OBVIOUS
<1>4. /\ front \o <<e>> \in Seq(S)
      /\ Len(front \o <<e>>) = i
      /\ \A j \in 1 .. i : (front \o <<e>>)[j] = IF j < i THEN seq[j] ELSE e
  BY <1>1, <1>3, ConcatProperties
<1> DEFINE upTo == front \o <<e>>
<1> HIDE DEF front, back, upTo
<1>4a. /\ upTo \in Seq(S)
       /\ Len(upTo) = i
       /\ \A j \in 1 .. i : upTo[j] = IF j < i THEN seq[j] ELSE e
  BY <1>4 DEF upTo
<1>4b. /\ upTo \o back \in Seq(S)
       /\ Len(upTo \o back) = Len(upTo) + Len(back)
       /\ \A j \in 1 .. Len(upTo) + Len(back) :
             (upTo \o back)[j] =
                 IF j <= Len(upTo) THEN upTo[j] ELSE back[j - Len(upTo)]
  BY <1>2, <1>4a, ConcatProperties, Zenon
<1>5. /\ upTo \o back \in Seq(S)
      /\ Len(upTo \o back) = Len(seq) + 1
      /\ \A j \in 1 .. Len(seq) + 1 :
            (upTo \o back)[j] =
                IF j < i THEN seq[j] ELSE IF j = i THEN e ELSE seq[j - 1]
  BY <1>2, <1>4a, <1>4b
<1>6. InsertAt(seq, i, e) = upTo \o back
  BY DEF InsertAt, upTo, front, back
<1> QED
  BY <1>5, <1>6

\* The length and the entries of a sequence after a removal.
LEMMA RemoveAtFacts ==
    ASSUME NEW S, NEW seq \in Seq(S), NEW i \in 1 .. Len(seq)
    PROVE  /\ RemoveAt(seq, i) \in Seq(S)
           /\ Len(RemoveAt(seq, i)) = Len(seq) - 1
           /\ \A j \in 1 .. Len(seq) - 1 :
                 RemoveAt(seq, i)[j] = IF j < i THEN seq[j] ELSE seq[j + 1]
<1> DEFINE front == SubSeq(seq, 1, i - 1)
           back  == SubSeq(seq, i + 1, Len(seq))
<1>1. /\ front \in Seq(S)
      /\ Len(front) = i - 1
      /\ \A j \in 1 .. i - 1 : front[j] = seq[j]
  BY SubSeqProperties
<1>2. /\ back \in Seq(S)
      /\ Len(back) = Len(seq) - i
      /\ \A j \in 1 .. Len(seq) - i : back[j] = seq[i + j]
  BY SubSeqProperties
<1> HIDE DEF front, back
<1>2a. /\ front \o back \in Seq(S)
       /\ Len(front \o back) = Len(front) + Len(back)
       /\ \A j \in 1 .. Len(front) + Len(back) :
             (front \o back)[j] =
                 IF j <= Len(front) THEN front[j] ELSE back[j - Len(front)]
  BY <1>1, <1>2, ConcatProperties, Zenon
<1>3. /\ front \o back \in Seq(S)
      /\ Len(front \o back) = Len(seq) - 1
      /\ \A j \in 1 .. Len(seq) - 1 :
            (front \o back)[j] = IF j < i THEN seq[j] ELSE seq[j + 1]
  <2>1. Len(front) + Len(back) = Len(seq) - 1
    BY <1>1, <1>2
  <2>2. ASSUME NEW j \in 1 .. Len(seq) - 1
        PROVE  (front \o back)[j] = IF j < i THEN seq[j] ELSE seq[j + 1]
    <3>1. ASSUME j < i
          PROVE  (front \o back)[j] = seq[j]
      BY <1>1, <1>2a, <2>1, <3>1
    <3>2. ASSUME ~(j < i)
          PROVE  (front \o back)[j] = seq[j + 1]
      <4>1. /\ j - Len(front) \in 1 .. Len(seq) - i
            /\ i + (j - Len(front)) = j + 1
        BY <1>1, <3>2
      <4>2. back[j - Len(front)] = seq[j + 1]
        BY <1>2, <4>1
      <4> QED
        BY <1>1, <1>2a, <2>1, <3>2, <4>2
    <3> QED
      BY <3>1, <3>2
  <2> QED
    BY <1>2a, <2>1, <2>2
<1>4. RemoveAt(seq, i) = front \o back
  BY DEF RemoveAt, front, back
<1> QED
  BY <1>3, <1>4

-----------------------------------------------------------------------------
\* f[i] is the concatenation of the first i of a sequence of sequences.
Joins(ss, f, S) ==
    /\ f \in [1 .. Len(ss) -> Seq(S)]
    /\ f[1] = ss[1]
    /\ \A i \in 2 .. Len(ss) : f[i] = f[i - 1] \o ss[i]

\* FlattenSeq of the community modules is the last of them: its recursive function
\* exists, by induction over the number of sequences.
LEMMA FlattenIs ==
    ASSUME NEW S, NEW ss \in Seq(Seq(S)), ss # <<>>
    PROVE  \E f : Joins(ss, f, S) /\ FlattenSeq(ss) = f[Len(ss)]
<1> DEFINE n == Len(ss)
           Defines(g, k) == g = [i \in 1 .. k |-> IF i = 1 THEN ss[i] ELSE g[i - 1] \o ss[i]]
           Some == {k \in Nat : \E g : Defines(g, k)}
<1>1. n \in Nat /\ n >= 1 /\ \A i \in 1 .. n : ss[i] \in Seq(S)
  BY ElementOfSeq
<1>2. 1 \in Some
  <2> DEFINE g == [i \in 1 .. 1 |-> ss[i]]
  <2>1. Defines(g, 1)
    OBVIOUS
  <2> QED
    BY <2>1
<1>3. ASSUME NEW k \in Nat, k >= 1, k \in Some
      PROVE  k + 1 \in Some
  <2>1. PICK g : Defines(g, k)
    BY <1>3
  <2> DEFINE h == [i \in 1 .. k + 1 |-> IF i <= k THEN g[i] ELSE g[k] \o ss[i]]
  <2>2. ASSUME NEW i \in 1 .. k + 1
        PROVE  h[i] = IF i = 1 THEN ss[i] ELSE h[i - 1] \o ss[i]
    <3>1. CASE i <= k
      <4>1. i \in 1 .. k /\ h[i] = g[i] /\ (i # 1 => h[i - 1] = g[i - 1])
        BY <1>3, <3>1
      <4> QED
        BY <2>1, <4>1
    <3>2. CASE i = k + 1
      <4>1. ~(i <= k) /\ i # 1 /\ i - 1 = k /\ k \in 1 .. k + 1 /\ k <= k
        BY <1>3, <3>2
      <4>2. h[i] = g[k] \o ss[i]
        BY <4>1
      <4>3. h[k] = g[k]
        BY <4>1
      <4> QED
        BY <4>1, <4>2, <4>3
    <3> QED
      BY <3>1, <3>2
  <2> HIDE DEF h
  <2>3. h = [i \in 1 .. k + 1 |-> h[i]]
    BY DEF h
  <2>4. Defines(h, k + 1)
    BY <2>2, <2>3
  <2>5. k + 1 \in Nat
    OBVIOUS
  <2> QED
    BY <2>4, <2>5
<1>4. n \in Some
  BY <1>1, <1>2, <1>3, InductionFrom
<1> DEFINE flatten == CHOOSE g : Defines(g, n)
<1>5. Defines(flatten, n)
  BY <1>4, ZenonT(30)
<1>6. FlattenSeq(ss) = flatten[n]
  BY <1>1 DEF FlattenSeq
<1> HIDE DEF flatten
<1>7. /\ flatten[1] = ss[1]
      /\ \A i \in 2 .. n : flatten[i] = flatten[i - 1] \o ss[i]
  <2>1. \A i \in 1 .. n : flatten[i] = IF i = 1 THEN ss[i] ELSE flatten[i - 1] \o ss[i]
    BY <1>5
  <2>2. 1 \in 1 .. n /\ \A i \in 2 .. n : i \in 1 .. n /\ i # 1
    BY <1>1
  <2> QED
    BY <2>1, <2>2
<1> DEFINE Good == {k \in Nat : k <= n => flatten[k] \in Seq(S)}
<1>8. 1 \in Good
  BY <1>1, <1>7
<1>9. ASSUME NEW k \in Nat, k >= 1, k \in Good
      PROVE  k + 1 \in Good
  <2> SUFFICES ASSUME k + 1 <= n PROVE flatten[k + 1] \in Seq(S)
    BY <1>9
  <2>0. k + 1 \in 2 .. n /\ k <= n /\ (k + 1) - 1 = k
    BY <1>1, <1>9
  <2>1. flatten[k + 1] = flatten[k] \o ss[k + 1] /\ flatten[k] \in Seq(S)
    BY <1>7, <1>9, <2>0
  <2>2. ss[k + 1] \in Seq(S)
    BY <1>1
  <2> QED
    BY <2>1, <2>2
<1>10. \A k \in 1 .. n : flatten[k] \in Seq(S)
  <2>1. \A k \in Nat : k >= 1 => k \in Good
    BY <1>8, <1>9, InductionFrom
  <2> QED
    BY <1>1, <2>1
<1>11. flatten \in [1 .. n -> Seq(S)]
  BY <1>5, <1>10
<1>12. Joins(ss, flatten, S)
  BY <1>7, <1>11 DEF Joins
<1> QED
  BY <1>6, <1>12

\* The concatenation is determined by the sequences.
LEMMA JoinsPrefix ==
    ASSUME NEW S, NEW ss \in Seq(Seq(S)), NEW tt \in Seq(Seq(S)), NEW f, NEW g,
           Joins(ss, f, S), Joins(tt, g, S), Len(ss) <= Len(tt)
    PROVE  \A n \in 1 .. Len(ss) :
               (\A i \in 1 .. n : ss[i] = tt[i]) => f[n] = g[n]
<1> SUFFICES ASSUME NEW n \in 1 .. Len(ss), \A i \in 1 .. n : ss[i] = tt[i]
             PROVE  f[n] = g[n]
  OBVIOUS
<1> DEFINE Same == {k \in Nat : k <= n => f[k] = g[k]}
<1>0. Len(ss) \in Nat /\ Len(tt) \in Nat /\ n \in Nat /\ n >= 1
  OBVIOUS
<1>1. 1 \in Same
  <2>1. ss[1] = tt[1]
    BY <1>0
  <2> QED
    BY <2>1 DEF Joins
<1>2. ASSUME NEW k \in Nat, k >= 1, k \in Same
      PROVE  k + 1 \in Same
  <2> SUFFICES ASSUME k + 1 <= n PROVE f[k + 1] = g[k + 1]
    OBVIOUS
  <2>1. k + 1 \in 2 .. Len(ss) /\ k + 1 \in 2 .. Len(tt) /\ k + 1 \in 1 .. n /\ (k + 1) - 1 = k
    BY <1>0, <1>2
  <2>2. f[k + 1] = f[k] \o ss[k + 1] /\ g[k + 1] = g[k] \o tt[k + 1]
    BY <2>1 DEF Joins
  <2>3. f[k] = g[k] /\ ss[k + 1] = tt[k + 1]
    BY <1>2, <2>1
  <2> QED
    BY <2>1, <2>2, <2>3
<1>3. \A k \in Nat : k >= 1 => k \in Same
  <2> HIDE DEF Same
  <2> QED
    BY <1>1, <1>2, InductionFrom
<1> QED
  BY <1>0, <1>3

\* The concatenation of no sequences.
LEMMA FlattenEmpty == FlattenSeq(<<>>) = <<>>
BY EmptySeq DEF FlattenSeq

\* The concatenation of sequences over S is one.
LEMMA FlattenType ==
    ASSUME NEW S, NEW ss \in Seq(Seq(S))
    PROVE  FlattenSeq(ss) \in Seq(S)
<1>1. CASE ss = <<>>
  BY <1>1, FlattenEmpty, EmptySeq
<1>2. CASE ss # <<>>
  <2>1. PICK f : Joins(ss, f, S) /\ FlattenSeq(ss) = f[Len(ss)]
    BY <1>2, FlattenIs
  <2>2. Len(ss) \in 1 .. Len(ss)
    BY <1>2
  <2> QED
    BY <2>1, <2>2 DEF Joins
<1> QED
  BY <1>1, <1>2

\* One sequence more at the end.
LEMMA FlattenAppend ==
    ASSUME NEW S, NEW ss \in Seq(Seq(S)), NEW s \in Seq(S)
    PROVE  FlattenSeq(Append(ss, s)) = FlattenSeq(ss) \o s
<1> DEFINE tt == Append(ss, s)
           n == Len(ss)
<1>1. /\ tt \in Seq(Seq(S)) /\ tt # <<>> /\ Len(tt) = n + 1 /\ n \in Nat
      /\ tt[n + 1] = s /\ \A i \in 1 .. n : tt[i] = ss[i] /\ ss[i] = tt[i]
  BY AppendProperties
<1> HIDE DEF tt
<1>2. PICK g : Joins(tt, g, S) /\ FlattenSeq(tt) = g[n + 1]
  BY <1>1, FlattenIs
<1>3. CASE ss = <<>>
  <2>1. n = 0 /\ g[1] = s
    BY <1>1, <1>2, <1>3 DEF Joins
  <2> QED
    BY <1>2, <1>3, <2>1, FlattenEmpty, ConcatEmptySeq DEF tt
<1>4. CASE ss # <<>>
  <2>1. PICK f : Joins(ss, f, S) /\ FlattenSeq(ss) = f[n]
    BY <1>4, FlattenIs
  <2>2. n >= 1 /\ n <= n /\ n <= Len(tt)
    BY <1>1, <1>4
  <2>3. f[n] = g[n]
    <3>1. \A m \in 1 .. Len(ss) : (\A i \in 1 .. m : ss[i] = tt[i]) => f[m] = g[m]
      BY <1>1, <1>2, <2>1, <2>2, JoinsPrefix
    <3>2. \A i \in 1 .. n : ss[i] = tt[i]
      BY <1>1
    <3> QED
      BY <1>1, <2>2, <3>1, <3>2
  <2>4. n + 1 \in 2 .. Len(tt) /\ (n + 1) - 1 = n /\ n \in 1 .. n
    BY <1>1, <2>2
  <2>5. g[n + 1] = g[n] \o s
    BY <1>1, <1>2, <2>4 DEF Joins
  <2> QED
    BY <1>2, <2>1, <2>3, <2>4, <2>5 DEF tt
<1> QED
  BY <1>3, <1>4

\* Concatenation is associative.
LEMMA ConcatAssociates ==
    ASSUME NEW S
    PROVE  \A r, s, u \in Seq(S) : (r \o s) \o u = r \o (s \o u)
BY ConcatAssociative

\* One element more at the end of one of the sequences is one element more in the
\* concatenation, at its very end if it was the last sequence.
PutSplits(ss, tt, S) ==
    \A p \in 1 .. Len(ss), x \in S :
        /\ Len(tt) = Len(ss)
        /\ tt[p] = Append(ss[p], x)
        /\ \A i \in 1 .. Len(ss) : i # p => tt[i] = ss[i]
        => \E a, b \in Seq(S) : /\ FlattenSeq(ss) = a \o b
                                /\ FlattenSeq(tt) = a \o <<x>> \o b
                                /\ p = Len(ss) => b = <<>>

\* The two concatenations that PutSplits compares have the new element between the
\* same two parts.
LEMMA FlattenPut ==
    ASSUME NEW S, NEW ss \in Seq(Seq(S)), NEW tt \in Seq(Seq(S)), Len(ss) <= Len(tt)
    PROVE  PutSplits(ss, tt, S)
<1>0. \A r, s, u \in Seq(S) : (r \o s) \o u = r \o (s \o u)
  BY ConcatAssociates, SMTT(30), ZenonT(30)
<1>b. ASSUME NEW f, NEW g, Joins(ss, f, S), Joins(tt, g, S)
       PROVE  \A m \in 1 .. Len(ss) : (\A i \in 1 .. m : ss[i] = tt[i]) => f[m] = g[m]
  BY <1>b, JoinsPrefix
<1> SUFFICES ASSUME NEW p \in 1 .. Len(ss), NEW x \in S,
                    Len(tt) = Len(ss), tt[p] = Append(ss[p], x),
                    \A i \in 1 .. Len(ss) : i # p => tt[i] = ss[i]
             PROVE  \E a, b \in Seq(S) : /\ FlattenSeq(ss) = a \o b
                                         /\ FlattenSeq(tt) = a \o <<x>> \o b
                                         /\ p = Len(ss) => b = <<>>
  BY DEF PutSplits
<1> DEFINE n == Len(ss)
<1>1. n \in Nat /\ n >= 1 /\ p \in Nat /\ ss # <<>> /\ tt # <<>>
  OBVIOUS
<1>2. PICK f : Joins(ss, f, S) /\ FlattenSeq(ss) = f[n]
  BY <1>1, FlattenIs
<1>3. PICK g : Joins(tt, g, S) /\ FlattenSeq(tt) = g[n]
  BY <1>1, FlattenIs
<1>4. /\ f[p] \in Seq(S) /\ <<x>> \in Seq(S) /\ <<>> \in Seq(S)
      /\ \A i \in 1 .. n : ss[i] \in Seq(S) /\ tt[i] \in Seq(S)
  <2>1. \A i \in 1 .. n : f[i] \in Seq(S)
    BY <1>2 DEF Joins
  <2> QED
    BY <2>1, ElementOfSeq
<1>5. g[p] = f[p] \o <<x>>
  <2>1. tt[p] = ss[p] \o <<x>>
    BY <1>4, AppendIsConcat
  <2>2. CASE p = 1
    BY <1>2, <1>3, <2>1, <2>2 DEF Joins
  <2>3. CASE p # 1
    <3>1. p - 1 \in Nat /\ p - 1 <= n /\ p - 1 \in 1 .. p - 1 /\ p - 1 \in 1 .. n /\ p \in 2 .. n
      BY <1>1, <2>3
    <3>2. \A i \in 1 .. p - 1 : ss[i] = tt[i]
      BY <1>1
    <3>3. f[p - 1] = g[p - 1]
      <4>1. \A m \in 1 .. Len(ss) : (\A i \in 1 .. m : ss[i] = tt[i]) => f[m] = g[m]
        BY <1>2, <1>3, <1>b, Zenon
      <4> QED
        BY <3>1, <3>2, <4>1
    <3>4. f[p] = f[p - 1] \o ss[p] /\ g[p] = g[p - 1] \o tt[p] /\ f[p - 1] \in Seq(S)
      BY <1>2, <1>3, <3>1 DEF Joins
    <3>6. ss[p] \in Seq(S)
      BY <1>4
    <3>5. (f[p - 1] \o ss[p]) \o <<x>> = f[p - 1] \o (ss[p] \o <<x>>)
      BY <1>0, <1>4, <3>4, <3>6, Zenon
    <3> QED
      BY <2>1, <3>3, <3>4, <3>5
  <2> QED
    BY <2>2, <2>3
<1> DEFINE Rest(k, b) == /\ f[k] = f[p] \o b
                         /\ g[k] = f[p] \o <<x>> \o b
                         /\ k = p => b = <<>>
           Split == {k \in Nat : k <= n => \E b \in Seq(S) : Rest(k, b)}
<1>6. p \in Split
  <2>1. f[p] = f[p] \o <<>> /\ g[p] = f[p] \o <<x>> \o <<>>
    BY <1>4, <1>5, ConcatEmptySeq, ConcatProperties
  <2> QED
    BY <1>1, <1>4, <2>1
<1>7. ASSUME NEW k \in Nat, k >= p, k \in Split
      PROVE  k + 1 \in Split
  <2> SUFFICES ASSUME k + 1 <= n PROVE \E b \in Seq(S) : Rest(k + 1, b)
    <3> HIDE DEF Rest
    <3> QED
      OBVIOUS
  <2>1. k <= n /\ k + 1 \in 2 .. n /\ (k + 1) - 1 = k /\ k + 1 \in 1 .. n /\ k + 1 # p
    BY <1>1, <1>7
  <2>2. PICK b \in Seq(S) : f[k] = f[p] \o b /\ g[k] = f[p] \o <<x>> \o b
    BY <1>7, <2>1
  <2>3. f[k + 1] = f[k] \o ss[k + 1] /\ g[k + 1] = g[k] \o ss[k + 1] /\ ss[k + 1] \in Seq(S)
    BY <1>2, <1>3, <1>4, <2>1 DEF Joins
  <2>4. f[k + 1] = f[p] \o (b \o ss[k + 1]) /\ b \o ss[k + 1] \in Seq(S)
    <3>1. (f[p] \o b) \o ss[k + 1] = f[p] \o (b \o ss[k + 1])
      BY <1>0, <1>4, <2>3, ZenonT(30)
    <3>2. b \o ss[k + 1] \in Seq(S)
      BY <2>3, ConcatProperties
    <3> QED
      BY <2>2, <2>3, <3>1, <3>2
  <2>5. g[k + 1] = (f[p] \o <<x>>) \o (b \o ss[k + 1])
    <3>1. f[p] \o <<x>> \in Seq(S)
      BY <1>4, ConcatProperties
    <3>2. ((f[p] \o <<x>>) \o b) \o ss[k + 1] = (f[p] \o <<x>>) \o (b \o ss[k + 1])
      BY <1>0, <2>3, <3>1, Zenon
    <3> QED
      BY <2>2, <2>3, <3>2
  <2> QED
    BY <2>1, <2>4, <2>5
<1>8. n \in Split
  <2>1. \A k \in Nat : k >= p => k \in Split
    <3> HIDE DEF Split
    <3> QED
      BY <1>1, <1>6, <1>7, InductionFrom
  <2> HIDE DEF Split
  <2> QED
    BY <1>1, <2>1
<1>9. PICK b \in Seq(S) : Rest(n, b)
  <2> HIDE DEF Rest
  <2> QED
    BY <1>1, <1>8
<1> QED
  BY <1>2, <1>3, <1>4, <1>9

-----------------------------------------------------------------------------
\* Every element of t is one of those sequences of ss that lo and hi enclose.
From(t, ss, lo, hi) ==
    \A x \in 1 .. Len(t) : \E j \in lo .. hi : \E l \in 1 .. Len(ss[j]) : t[x] = ss[j][l]

\* More of the same.
LEMMA FromConcat ==
    ASSUME NEW S, NEW ss \in Seq(Seq(S)), NEW t \in Seq(S), NEW lo \in Nat, NEW hi \in Nat,
           lo <= hi + 1, hi + 1 \in 1 .. Len(ss), From(t, ss, lo, hi)
    PROVE  From(t \o ss[hi + 1], ss, lo, hi + 1)
<1> DEFINE s == ss[hi + 1]
           ts == t \o s
<1>1. s \in Seq(S)
  BY ElementOfSeq
<1>2. /\ Len(ts) = Len(t) + Len(s)
      /\ \A x \in 1 .. Len(t) + Len(s) : ts[x] = IF x <= Len(t) THEN t[x] ELSE s[x - Len(t)]
  BY <1>1, ConcatProperties
<1>3. Len(t) \in Nat /\ Len(s) \in Nat
  BY <1>1
<1> HIDE DEF ts
<1> SUFFICES ASSUME NEW x \in 1 .. Len(t) + Len(s)
             PROVE  \E j \in lo .. hi + 1 : \E l \in 1 .. Len(ss[j]) : ts[x] = ss[j][l]
  BY <1>2 DEF From, ts
<1>4. CASE x <= Len(t)
  <2>1. x \in 1 .. Len(t) /\ ts[x] = t[x]
    BY <1>2, <1>3, <1>4
  <2>2. PICK j \in lo .. hi : \E l \in 1 .. Len(ss[j]) : t[x] = ss[j][l]
    BY <2>1 DEF From
  <2>3. j \in lo .. hi + 1
    OBVIOUS
  <2> QED
    BY <2>1, <2>2, <2>3
<1>5. CASE ~(x <= Len(t))
  <2>1. x - Len(t) \in 1 .. Len(s) /\ ts[x] = s[x - Len(t)] /\ hi + 1 \in lo .. hi + 1
    BY <1>2, <1>3, <1>5
  <2> QED
    BY <2>1
<1> QED
  BY <1>4, <1>5

\* The first k of the sequences.
LEMMA JoinsFrom ==
    ASSUME NEW S, NEW ss \in Seq(Seq(S)), NEW f, Joins(ss, f, S)
    PROVE  \A k \in 1 .. Len(ss) : From(f[k], ss, 1, k)
<1> DEFINE n == Len(ss)
           Good == {k \in Nat : k <= n => From(f[k], ss, 1, k)}
<1>0. n \in Nat
  OBVIOUS
<1>1. 1 \in Good
  <2> SUFFICES ASSUME 1 <= n PROVE From(f[1], ss, 1, 1)
    OBVIOUS
  <2>1. f[1] = ss[1] /\ 1 \in 1 .. 1
    BY DEF Joins
  <2> QED
    BY <2>1 DEF From
<1>2. ASSUME NEW k \in Nat, k >= 1, k \in Good
      PROVE  k + 1 \in Good
  <2> SUFFICES ASSUME k + 1 <= n PROVE From(f[k + 1], ss, 1, k + 1)
    OBVIOUS
  <2>1. k + 1 \in 2 .. n /\ (k + 1) - 1 = k /\ k \in 1 .. n /\ k + 1 \in 1 .. n /\ 1 <= k + 1
    BY <1>0, <1>2
  <2>2. f[k + 1] = f[k] \o ss[k + 1] /\ f[k] \in Seq(S)
    BY <2>1 DEF Joins
  <2>3. From(f[k], ss, 1, k)
    BY <1>2, <2>1
  <2>4. From(f[k] \o ss[k + 1], ss, 1, k + 1)
    BY <2>1, <2>2, <2>3, FromConcat
  <2> QED
    BY <2>2, <2>4
<1>3. \A k \in Nat : k >= 1 => k \in Good
  <2> HIDE DEF Good
  <2> QED
    BY <1>1, <1>2, InductionFrom
<1> QED
  BY <1>0, <1>3

\* Two sequences of sequences that are the same but for number i.
SameBut(ss, tt, i) ==
    /\ Len(tt) = Len(ss)
    /\ \A j \in 1 .. Len(ss) : j # i => tt[j] = ss[j]

\* The concatenation around one of the sequences: nothing else depends on it.
Around(ss, tt, S) ==
    \A i \in 1 .. Len(ss) : SameBut(ss, tt, i) =>
        \E a \in Seq(S), c \in Seq(S) :
            /\ FlattenSeq(ss) = (a \o ss[i]) \o c
            /\ FlattenSeq(tt) = (a \o tt[i]) \o c
            /\ From(a, ss, 1, i - 1) /\ From(c, ss, i + 1, Len(ss))

\* By induction over the number of sequences, the prefixes of both concatenations agree
\* as far as the sequence that differs.
LEMMA FlattenAround ==
    ASSUME NEW S, NEW ss \in Seq(Seq(S)), NEW tt \in Seq(Seq(S))
    PROVE  Around(ss, tt, S)
<1>0. \A r, s, u \in Seq(S) : (r \o s) \o u = r \o (s \o u)
  BY ConcatAssociates
<1>b. ASSUME NEW f, NEW g, Joins(ss, f, S), Joins(tt, g, S), Len(ss) <= Len(tt)
      PROVE  \A m \in 1 .. Len(ss) : (\A j \in 1 .. m : ss[j] = tt[j]) => f[m] = g[m]
  BY <1>b, JoinsPrefix
<1> SUFFICES ASSUME NEW i \in 1 .. Len(ss), Len(tt) = Len(ss),
                    \A j \in 1 .. Len(ss) : j # i => tt[j] = ss[j]
             PROVE  \E a \in Seq(S), c \in Seq(S) :
                       /\ FlattenSeq(ss) = (a \o ss[i]) \o c
                       /\ FlattenSeq(tt) = (a \o tt[i]) \o c
                       /\ From(a, ss, 1, i - 1) /\ From(c, ss, i + 1, Len(ss))
  BY DEF Around, SameBut
<1> DEFINE n == Len(ss)
<1>1. n \in Nat /\ n >= 1 /\ i \in Nat /\ i >= 1 /\ i <= n /\ ss # <<>> /\ tt # <<>>
  OBVIOUS
<1>2. PICK f : Joins(ss, f, S) /\ FlattenSeq(ss) = f[n]
  BY <1>1, FlattenIs
<1>3. PICK g : Joins(tt, g, S) /\ FlattenSeq(tt) = g[n]
  BY <1>1, FlattenIs
<1>4. \A j \in 1 .. n : ss[j] \in Seq(S) /\ tt[j] \in Seq(S) /\ f[j] \in Seq(S)
  <2>1. \A j \in 1 .. n : f[j] \in Seq(S)
    BY <1>2 DEF Joins
  <2> QED
    BY <2>1, ElementOfSeq
<1> DEFINE a == IF i = 1 THEN <<>> ELSE f[i - 1]
<1>5. a \in Seq(S) /\ f[i] = a \o ss[i] /\ g[i] = a \o tt[i] /\ From(a, ss, 1, i - 1)
  <2>1. CASE i = 1
    <3>1. a = <<>> /\ f[i] = ss[i] /\ g[i] = tt[i]
      BY <1>2, <1>3, <2>1 DEF Joins
    <3>2. <<>> \in Seq(S) /\ From(<<>>, ss, 1, i - 1)
      BY DEF From
    <3>3. <<>> \o ss[i] = ss[i] /\ <<>> \o tt[i] = tt[i]
      BY <1>4, ConcatEmptySeq
    <3> QED
      BY <3>1, <3>2, <3>3
  <2>2. CASE i # 1
    <3>1. i - 1 \in Nat /\ i - 1 \in 1 .. n /\ i \in 2 .. n /\ i - 1 \in 1 .. i - 1
      BY <1>1, <2>2
    <3>2. f[i - 1] = g[i - 1]
      <4>1. \A m \in 1 .. Len(ss) : (\A j \in 1 .. m : ss[j] = tt[j]) => f[m] = g[m]
        <5>1. Len(ss) <= Len(tt)
          BY <1>1
        <5> QED
          BY <1>2, <1>3, <1>b, <5>1, Zenon
      <4>2. \A j \in 1 .. i - 1 : ss[j] = tt[j]
        BY <1>1
      <4> QED
        BY <3>1, <4>1, <4>2
    <3>3. f[i] = f[i - 1] \o ss[i] /\ g[i] = g[i - 1] \o tt[i]
      BY <1>2, <1>3, <3>1 DEF Joins
    <3>4. From(f[i - 1], ss, 1, i - 1)
      BY <1>2, <3>1, JoinsFrom
    <3> QED
      BY <1>4, <2>2, <3>1, <3>2, <3>3, <3>4
  <2> QED
    BY <2>1, <2>2
<1> HIDE DEF a
<1> DEFINE Rest(k, c) == /\ f[k] = (a \o ss[i]) \o c
                         /\ g[k] = (a \o tt[i]) \o c
                         /\ From(c, ss, i + 1, k)
           Split == {k \in Nat : k <= n => \E c \in Seq(S) : Rest(k, c)}
<1>6. a \o ss[i] \in Seq(S) /\ a \o tt[i] \in Seq(S)
  BY <1>4, <1>5, ConcatProperties
<1>7. i \in Split
  <2>1. f[i] = (a \o ss[i]) \o <<>> /\ g[i] = (a \o tt[i]) \o <<>>
    BY <1>5, <1>6, ConcatEmptySeq
  <2>2. <<>> \in Seq(S) /\ From(<<>>, ss, i + 1, i)
    BY DEF From
  <2> QED
    BY <1>1, <2>1, <2>2
<1>8. ASSUME NEW k \in Nat, k >= i, k \in Split
      PROVE  k + 1 \in Split
  <2> SUFFICES ASSUME k + 1 <= n PROVE \E c \in Seq(S) : Rest(k + 1, c)
    <3> HIDE DEF Rest
    <3> QED
      OBVIOUS
  <2>1. k <= n /\ k + 1 \in 2 .. n /\ (k + 1) - 1 = k /\ k + 1 \in 1 .. n /\ k + 1 # i
        /\ i + 1 <= k + 1 /\ i + 1 \in Nat
    BY <1>1, <1>8
  <2>2. PICK c \in Seq(S) : Rest(k, c)
    BY <1>8, <2>1
  <2>3. f[k + 1] = f[k] \o ss[k + 1] /\ g[k + 1] = g[k] \o ss[k + 1] /\ ss[k + 1] \in Seq(S)
    BY <1>2, <1>3, <1>4, <2>1 DEF Joins
  <2>4. ((a \o ss[i]) \o c) \o ss[k + 1] = (a \o ss[i]) \o (c \o ss[k + 1])
    BY <1>0, <1>6, <2>3, Zenon
  <2>5. ((a \o tt[i]) \o c) \o ss[k + 1] = (a \o tt[i]) \o (c \o ss[k + 1])
    BY <1>0, <1>6, <2>3, Zenon
  <2>6. c \o ss[k + 1] \in Seq(S)
    BY <2>3, ConcatProperties
  <2>7. From(c \o ss[k + 1], ss, i + 1, k + 1)
    BY <2>1, <2>2, FromConcat
  <2>8. Rest(k + 1, c \o ss[k + 1])
    BY <2>2, <2>3, <2>4, <2>5, <2>7
  <2> QED
    BY <2>6, <2>8
<1>9. n \in Split
  <2>1. \A k \in Nat : k >= i => k \in Split
    <3> HIDE DEF Split
    <3> QED
      BY <1>1, <1>7, <1>8, InductionFrom
  <2> HIDE DEF Split
  <2> QED
    BY <1>1, <2>1
<1>10. PICK c \in Seq(S) : Rest(n, c)
  <2> HIDE DEF Rest
  <2> QED
    BY <1>1, <1>9
<1> QED
  BY <1>2, <1>3, <1>5, <1>10

\* tt has two sequences in the place of number i of ss.
Divided(ss, tt, i) ==
    /\ Len(tt) = Len(ss) + 1
    /\ \A j \in 1 .. i - 1 : tt[j] = ss[j]
    /\ ss[i] = tt[i] \o tt[i + 1]
    /\ \A j \in i + 1 .. Len(ss) : tt[j + 1] = ss[j]

\* To divide one of the sequences does not change the concatenation.
DivisionKeeps(ss, tt) ==
    \A i \in 1 .. Len(ss) : Divided(ss, tt, i) => FlattenSeq(tt) = FlattenSeq(ss)

\* The prefixes of both agree before the division and again behind it.
LEMMA FlattenDivided ==
    ASSUME NEW S, NEW ss \in Seq(Seq(S)), NEW tt \in Seq(Seq(S))
    PROVE  DivisionKeeps(ss, tt)
<1>0. \A r, s, u \in Seq(S) : (r \o s) \o u = r \o (s \o u)
  BY ConcatAssociates
<1>b. ASSUME NEW f, NEW g, Joins(ss, f, S), Joins(tt, g, S), Len(ss) <= Len(tt)
      PROVE  \A m \in 1 .. Len(ss) : (\A j \in 1 .. m : ss[j] = tt[j]) => f[m] = g[m]
  BY <1>b, JoinsPrefix
<1> SUFFICES ASSUME NEW i \in 1 .. Len(ss), Divided(ss, tt, i)
             PROVE  FlattenSeq(tt) = FlattenSeq(ss)
  BY DEF DivisionKeeps
<1> DEFINE n == Len(ss)
<1>1. n \in Nat /\ n >= 1 /\ i \in Nat /\ i >= 1 /\ i <= n /\ Len(tt) = n + 1
      /\ ss # <<>> /\ tt # <<>>
  BY DEF Divided
<1>2. PICK f : Joins(ss, f, S) /\ FlattenSeq(ss) = f[n]
  BY <1>1, FlattenIs
<1>3. PICK g : Joins(tt, g, S) /\ FlattenSeq(tt) = g[n + 1]
  BY <1>1, FlattenIs
<1>4. /\ \A j \in 1 .. n : ss[j] \in Seq(S) /\ f[j] \in Seq(S)
      /\ \A j \in 1 .. n + 1 : tt[j] \in Seq(S) /\ g[j] \in Seq(S)
  <2>1. \A j \in 1 .. n : f[j] \in Seq(S)
    BY <1>2 DEF Joins
  <2>2. \A j \in 1 .. n + 1 : g[j] \in Seq(S)
    BY <1>1, <1>3 DEF Joins
  <2>3. \A j \in 1 .. n : ss[j] \in Seq(S)
    BY ElementOfSeq
  <2>4. \A j \in 1 .. n + 1 : tt[j] \in Seq(S)
    BY <1>1, ElementOfSeq
  <2> QED
    BY <2>1, <2>2, <2>3, <2>4
<1>5. /\ f[1] = ss[1] /\ \A k \in 2 .. n : f[k] = f[k - 1] \o ss[k]
      /\ g[1] = tt[1] /\ \A k \in 2 .. n + 1 : g[k] = g[k - 1] \o tt[k]
  BY <1>1, <1>2, <1>3 DEF Joins
<1>6. ss[i] = tt[i] \o tt[i + 1]
  BY DEF Divided
<1>7. g[i + 1] = f[i]
  <2>0. i + 1 \in 2 .. n + 1 /\ (i + 1) - 1 = i /\ i \in 1 .. n + 1 /\ i + 1 \in 1 .. n + 1
    BY <1>1
  <2>1. g[i + 1] = g[i] \o tt[i + 1]
    BY <1>5, <2>0
  <2>2. CASE i = 1
    BY <1>5, <1>6, <2>1, <2>2
  <2>3. CASE i # 1
    <3>1. i - 1 \in 1 .. n /\ i - 1 \in Nat /\ i \in 2 .. n /\ i \in 2 .. n + 1
      BY <1>1, <2>3
    <3>2. g[i] = g[i - 1] \o tt[i] /\ f[i] = f[i - 1] \o ss[i]
      BY <1>5, <3>1
    <3>3. f[i - 1] = g[i - 1]
      <4>1. Len(ss) <= Len(tt)
        BY <1>1
      <4>2. \A m \in 1 .. Len(ss) : (\A j \in 1 .. m : ss[j] = tt[j]) => f[m] = g[m]
        BY <1>2, <1>3, <1>b, <4>1, Zenon
      <4>3. \A j \in 1 .. i - 1 : ss[j] = tt[j]
        BY DEF Divided
      <4> QED
        BY <3>1, <4>2, <4>3
    <3>4. f[i - 1] \in Seq(S) /\ tt[i] \in Seq(S) /\ tt[i + 1] \in Seq(S)
      BY <1>4, <2>0, <3>1
    <3>5. (f[i - 1] \o tt[i]) \o tt[i + 1] = f[i - 1] \o (tt[i] \o tt[i + 1])
      BY <1>0, <3>4, Zenon
    <3> QED
      BY <1>6, <2>1, <3>2, <3>3, <3>5
  <2> QED
    BY <2>2, <2>3
<1> DEFINE Same == {k \in Nat : k <= n => g[k + 1] = f[k]}
<1>8. ASSUME NEW k \in Nat, k >= i, k \in Same
      PROVE  k + 1 \in Same
  <2> SUFFICES ASSUME k + 1 <= n PROVE g[(k + 1) + 1] = f[k + 1]
    BY <1>8
  <2>1. /\ k <= n /\ k + 1 \in 2 .. n /\ (k + 1) - 1 = k /\ k + 1 \in i + 1 .. n
        /\ (k + 1) + 1 \in 2 .. n + 1 /\ ((k + 1) + 1) - 1 = k + 1
    BY <1>1, <1>8
  <2>2. f[k + 1] = f[k] \o ss[k + 1]
    BY <1>5, <2>1
  <2>3. g[(k + 1) + 1] = g[k + 1] \o tt[(k + 1) + 1]
    BY <1>5, <2>1
  <2>4. tt[(k + 1) + 1] = ss[k + 1]
    BY <2>1 DEF Divided
  <2>5. g[k + 1] = f[k]
    BY <1>8, <2>1
  <2> QED
    BY <2>2, <2>3, <2>4, <2>5
<1>9. \A k \in Nat : k >= i => k \in Same
  <2>1. i \in Same
    BY <1>1, <1>7
  <2> HIDE DEF Same
  <2> QED
    BY <1>1, <1>8, <2>1, InductionFrom
<1> QED
  BY <1>1, <1>2, <1>3, <1>9

\* The concatenation of the first of the sequences is how that of all begins.
Begins(ss, tt, S) ==
    /\ Len(tt) <= Len(ss)
    /\ \A j \in 1 .. Len(tt) : tt[j] = ss[j]
    => \E c \in Seq(S) : FlattenSeq(ss) = FlattenSeq(tt) \o c

\* By induction over the sequences of ss behind those of tt.
LEMMA FlattenBegins ==
    ASSUME NEW S, NEW ss \in Seq(Seq(S)), NEW tt \in Seq(Seq(S))
    PROVE  Begins(ss, tt, S)
<1>0. \A r, s, u \in Seq(S) : (r \o s) \o u = r \o (s \o u)
  BY ConcatAssociates
<1>b. ASSUME NEW f, NEW g, Joins(ss, f, S), Joins(tt, g, S), Len(tt) <= Len(ss)
      PROVE  \A m \in 1 .. Len(tt) : (\A j \in 1 .. m : tt[j] = ss[j]) => g[m] = f[m]
  BY <1>b, JoinsPrefix
<1>a. FlattenSeq(ss) \in Seq(S)
  BY FlattenType
<1> SUFFICES ASSUME Len(tt) <= Len(ss), \A j \in 1 .. Len(tt) : tt[j] = ss[j]
             PROVE  \E c \in Seq(S) : FlattenSeq(ss) = FlattenSeq(tt) \o c
  BY DEF Begins
<1> DEFINE n == Len(ss)
           m == Len(tt)
<1>1. n \in Nat /\ m \in Nat
  OBVIOUS
<1>2. CASE tt = <<>>
  <2>1. FlattenSeq(tt) = <<>>
    BY <1>2, FlattenEmpty
  <2>2. <<>> \o FlattenSeq(ss) = FlattenSeq(ss)
    BY <1>a, ConcatEmptySeq
  <2> QED
    BY <1>a, <2>1, <2>2
<1>3. CASE tt # <<>>
  <2>1. m >= 1 /\ n >= 1 /\ m <= n /\ ss # <<>>
    BY <1>1, <1>3
  <2>2. PICK f : Joins(ss, f, S) /\ FlattenSeq(ss) = f[n]
    BY <2>1, FlattenIs
  <2>3. PICK g : Joins(tt, g, S) /\ FlattenSeq(tt) = g[m]
    BY <1>3, FlattenIs
  <2>4. f[m] = g[m] /\ f[m] \in Seq(S)
    <3>1. \A k \in 1 .. Len(tt) : (\A j \in 1 .. k : tt[j] = ss[j]) => g[k] = f[k]
      BY <1>b, <2>2, <2>3, Zenon
    <3>2. m \in 1 .. Len(tt) /\ m \in 1 .. Len(ss)
      BY <1>1, <2>1
    <3>3. f[m] \in Seq(S)
      BY <2>2, <3>2 DEF Joins
    <3> QED
      BY <3>1, <3>2, <3>3
  <2> DEFINE Longer(k) == \E c \in Seq(S) : f[k] = f[m] \o c
             Good == {k \in Nat : k <= n => Longer(k)}
  <2>5. m \in Good
    <3>1. f[m] = f[m] \o <<>> /\ <<>> \in Seq(S)
      BY <2>4, ConcatEmptySeq
    <3> QED
      BY <1>1, <3>1
  <2>6. ASSUME NEW k \in Nat, k >= m, k \in Good
        PROVE  k + 1 \in Good
    <3> SUFFICES ASSUME k + 1 <= n PROVE Longer(k + 1)
      <4> HIDE DEF Longer
      <4> QED
        BY <2>6
    <3>1. k + 1 \in 2 .. n /\ (k + 1) - 1 = k /\ k <= n /\ k + 1 \in 1 .. n
      BY <1>1, <2>1, <2>6
    <3>2. PICK c \in Seq(S) : f[k] = f[m] \o c
      BY <2>6, <3>1
    <3>3. f[k + 1] = f[k] \o ss[k + 1]
      BY <2>2, <3>1 DEF Joins
    <3>4. ss[k + 1] \in Seq(S)
      BY <3>1, ElementOfSeq
    <3>5. (f[m] \o c) \o ss[k + 1] = f[m] \o (c \o ss[k + 1]) /\ c \o ss[k + 1] \in Seq(S)
      <4>1. (f[m] \o c) \o ss[k + 1] = f[m] \o (c \o ss[k + 1])
        BY <1>0, <2>4, <3>4, Zenon
      <4>2. c \o ss[k + 1] \in Seq(S)
        BY <3>4, ConcatProperties
      <4> QED
        BY <4>1, <4>2
    <3> QED
      BY <3>2, <3>3, <3>5
  <2>7. \A k \in Nat : k >= m => k \in Good
    <3> HIDE DEF Good
    <3> QED
      BY <1>1, <2>5, <2>6, InductionFrom
  <2>8. n \in Good
    BY <1>1, <2>1, <2>7
  <2>9. PICK c \in Seq(S) : f[n] = f[m] \o c
    <3>1. Longer(n)
      <4> HIDE DEF Longer
      <4> QED
        BY <1>1, <2>8
    <3> QED
      BY <3>1
  <2> QED
    BY <2>2, <2>3, <2>4, <2>9
<1> QED
  BY <1>2, <1>3

\* Where each of the sequences begins in the concatenation.
Offsets(ss, off) ==
    /\ off \in [1 .. Len(ss) + 1 -> Nat]
    /\ off[1] = 0
    /\ \A i \in 1 .. Len(ss) : off[i + 1] = off[i] + Len(ss[i])

\* Each sequence is in the concatenation from its offset on, which is the length of the
\* prefix before it.
LEMMA FlattenOffsets ==
    ASSUME NEW S, NEW ss \in Seq(Seq(S))
    PROVE  \E off : /\ Offsets(ss, off)
                    /\ Len(FlattenSeq(ss)) = off[Len(ss) + 1]
                    /\ \A i \in 1 .. Len(ss) : \A l \in 1 .. Len(ss[i]) :
                          /\ off[i] + l \in 1 .. Len(FlattenSeq(ss))
                          /\ FlattenSeq(ss)[off[i] + l] = ss[i][l]
<1> DEFINE n == Len(ss)
           all == FlattenSeq(ss)
<1>1. n \in Nat
  OBVIOUS
<1>2. CASE ss = <<>>
  <2> DEFINE off == [i \in 1 .. 1 |-> 0]
  <2>1. all = <<>> /\ n = 0
    BY <1>2, FlattenEmpty
  <2>2. Offsets(ss, off) /\ off[n + 1] = 0
    BY <2>1 DEF Offsets
  <2> QED
    BY <2>1, <2>2
<1>3. CASE ss # <<>>
  <2>0. n >= 1
    BY <1>1, <1>3
  <2>1. PICK f : Joins(ss, f, S) /\ FlattenSeq(ss) = f[n]
    BY <1>3, FlattenIs
  <2>2. \A i \in 1 .. n : ss[i] \in Seq(S) /\ f[i] \in Seq(S) /\ Len(f[i]) \in Nat /\ Len(ss[i]) \in Nat
    <3>1. \A i \in 1 .. n : f[i] \in Seq(S)
      BY <2>1 DEF Joins
    <3> QED
      BY <3>1, ElementOfSeq
  <2>3. f[1] = ss[1] /\ \A i \in 2 .. n : f[i] = f[i - 1] \o ss[i]
    BY <2>1 DEF Joins
  <2> DEFINE off == [i \in 1 .. n + 1 |-> IF i = 1 THEN 0 ELSE Len(f[i - 1])]
  <2>4. /\ off \in [1 .. n + 1 -> Nat] /\ off[1] = 0
        /\ \A i \in 1 .. n : off[i + 1] = Len(f[i])
    <3>1. \A i \in 1 .. n + 1 : i # 1 => i - 1 \in 1 .. n
      BY <1>1
    <3>2. \A i \in 1 .. n : i + 1 \in 1 .. n + 1 /\ i + 1 # 1 /\ (i + 1) - 1 = i
      BY <1>1
    <3> QED
      BY <1>1, <2>0, <2>2, <3>1, <3>2
  <2> HIDE DEF off
  <2>5. ASSUME NEW i \in 1 .. n
        PROVE  /\ Len(f[i]) = off[i] + Len(ss[i])
               /\ \A l \in 1 .. Len(ss[i]) : off[i] + l \in 1 .. Len(f[i]) /\ f[i][off[i] + l] = ss[i][l]
    <3>0. ss[i] \in Seq(S) /\ Len(ss[i]) \in Nat
      BY <2>2
    <3>1. CASE i = 1
      BY <2>3, <2>4, <3>0, <3>1
    <3>2. CASE i # 1
      <4>1. i \in 2 .. n /\ i - 1 \in 1 .. n /\ (i - 1) + 1 = i
        BY <1>1, <3>2
      <4>2. f[i] = f[i - 1] \o ss[i] /\ off[i] = Len(f[i - 1]) /\ f[i - 1] \in Seq(S)
            /\ Len(f[i - 1]) \in Nat
        BY <2>2, <2>3, <2>4, <4>1
      <4>3. /\ Len(f[i]) = off[i] + Len(ss[i])
            /\ \A x \in 1 .. off[i] + Len(ss[i]) :
                  f[i][x] = IF x <= off[i] THEN f[i - 1][x] ELSE ss[i][x - off[i]]
        <5> DEFINE s == f[i - 1]
                   u == ss[i]
        <5>1. s \in Seq(S) /\ u \in Seq(S)
          BY <3>0, <4>2
        <5> HIDE DEF s, u
        <5>2. /\ Len(s \o u) = Len(s) + Len(u)
              /\ \A x \in 1 .. Len(s) + Len(u) :
                    (s \o u)[x] = IF x <= Len(s) THEN s[x] ELSE u[x - Len(s)]
          BY <5>1, ConcatProperties
        <5>3. f[i] = s \o u /\ off[i] = Len(s)
          BY <4>2 DEF s, u
        <5>4. /\ Len(f[i]) = off[i] + Len(u)
              /\ \A x \in 1 .. off[i] + Len(u) :
                    f[i][x] = IF x <= off[i] THEN s[x] ELSE u[x - off[i]]
          BY <5>2, <5>3, Zenon
        <5> QED
          BY <5>4 DEF s, u
      <4>4. \A l \in 1 .. Len(ss[i]) :
               off[i] + l \in 1 .. off[i] + Len(ss[i]) /\ ~(off[i] + l <= off[i]) /\ (off[i] + l) - off[i] = l
        <5> DEFINE o == off[i]
                   u == Len(ss[i])
        <5>1. o \in Nat /\ u \in Nat
          BY <3>0, <4>2
        <5> HIDE DEF o, u
        <5>2. \A l \in 1 .. u : o + l \in 1 .. o + u /\ ~(o + l <= o) /\ (o + l) - o = l
          BY <5>1
        <5> QED
          BY <5>2 DEF o, u
      <4> QED
        BY <4>3, <4>4
    <3> QED
      BY <3>1, <3>2
  <2>6. ASSUME NEW i \in 1 .. n
        PROVE  Len(f[n]) >= Len(f[i]) /\ \A x \in 1 .. Len(f[i]) : f[n][x] = f[i][x]
    <3> DEFINE Good == {k \in Nat : k <= n =>
                            Len(f[k]) >= Len(f[i]) /\ \A x \in 1 .. Len(f[i]) : f[k][x] = f[i][x]}
    <3>1. i \in Good
      BY <1>1, <2>2
    <3>2. ASSUME NEW k \in Nat, k >= i, k \in Good
          PROVE  k + 1 \in Good
      <4> SUFFICES ASSUME k + 1 <= n
                   PROVE  /\ Len(f[k + 1]) >= Len(f[i])
                          /\ \A x \in 1 .. Len(f[i]) : f[k + 1][x] = f[i][x]
        OBVIOUS
      <4>1. k + 1 \in 2 .. n /\ (k + 1) - 1 = k /\ k \in 1 .. n /\ k + 1 \in 1 .. n
        BY <1>1, <3>2
      <4>2. f[k + 1] = f[k] \o ss[k + 1] /\ f[k] \in Seq(S) /\ ss[k + 1] \in Seq(S)
            /\ Len(f[k]) \in Nat /\ Len(ss[k + 1]) \in Nat /\ Len(f[i]) \in Nat
        BY <2>2, <2>3, <4>1
      <4> DEFINE s == f[k]
                 u == ss[k + 1]
                 v == f[k + 1]
      <4>6. s \in Seq(S) /\ u \in Seq(S) /\ v = s \o u
        BY <4>2
      <4> HIDE DEF s, u, v
      <4>3. /\ Len(v) = Len(s) + Len(u) /\ Len(s) \in Nat /\ Len(u) \in Nat
            /\ \A x \in 1 .. Len(s) + Len(u) :
                  v[x] = IF x <= Len(s) THEN s[x] ELSE u[x - Len(s)]
        BY <4>6, ConcatProperties
      <4> DEFINE w == f[i]
      <4>7. w \in Seq(S)
        BY <2>2
      <4>4. Len(s) >= Len(w) /\ \A x \in 1 .. Len(w) : s[x] = w[x]
        BY <3>2, <4>1 DEF s
      <4> HIDE DEF w
      <4>5. Len(v) >= Len(w) /\ \A x \in 1 .. Len(w) : v[x] = w[x]
        <5>1. Len(w) \in Nat
          BY <4>7
        <5>2. \A x \in 1 .. Len(w) : x <= Len(s) /\ x \in 1 .. Len(s) + Len(u)
          BY <4>3, <4>4, <5>1
        <5>3. Len(v) >= Len(w)
          BY <4>3, <4>4, <5>1
        <5>4. \A x \in 1 .. Len(w) : v[x] = s[x]
          BY <4>3, <5>2
        <5> QED
          BY <4>4, <5>3, <5>4
      <4> QED
        BY <4>5 DEF v, w
    <3>3. \A k \in Nat : k >= i => k \in Good
      <4>1. i \in Nat
        BY <1>1
      <4> HIDE DEF Good
      <4> QED
        BY <3>1, <3>2, <4>1, InductionFrom
    <3> QED
      BY <1>1, <3>3
  <2>7. Offsets(ss, off)
    BY <2>4, <2>5 DEF Offsets
  <2>8. n \in 1 .. n /\ Len(all) = off[n + 1]
    <3>1. n \in 1 .. n
      BY <1>1, <2>0
    <3> QED
      BY <2>1, <2>4, <3>1
  <2>9. ASSUME NEW i \in 1 .. n, NEW l \in 1 .. Len(ss[i])
        PROVE  off[i] + l \in 1 .. Len(all) /\ all[off[i] + l] = ss[i][l]
    <3>1. off[i] + l \in 1 .. Len(f[i]) /\ f[i][off[i] + l] = ss[i][l]
      BY <2>5
    <3>2. Len(f[n]) >= Len(f[i]) /\ \A x \in 1 .. Len(f[i]) : f[n][x] = f[i][x]
      BY <2>6
    <3>3. Len(f[n]) \in Nat /\ Len(f[i]) \in Nat
      BY <2>2, <2>8
    <3> QED
      BY <2>1, <3>1, <3>2, <3>3
  <2> QED
    BY <2>7, <2>8, <2>9, SMTT(30), ZenonT(30)
<1> QED
  BY <1>2, <1>3

-----------------------------------------------------------------------------
\* Max of the community modules is the greatest element of a bounded set.
LEMMA MaxIs ==
    ASSUME NEW n \in Nat, NEW T \in SUBSET (1 .. n), T # {}
    PROVE  Max(T) \in T /\ \A m \in T : m <= Max(T)
<1> DEFINE Above == {b \in Nat : \A m \in T : m <= b}
<1>1. n \in Above
  OBVIOUS
<1>2. PICK b \in Above : \A c \in Above : b <= c
  BY <1>1, NatMin
<1>3. b \in T
  <2> SUFFICES ASSUME b \notin T PROVE FALSE
    OBVIOUS
  <2>1. PICK x \in T : TRUE
    OBVIOUS
  <2>2. \A m \in T : m \in Nat /\ m >= 1 /\ m <= b /\ m # b
    OBVIOUS
  <2>3. b \in Nat /\ b >= 1
    BY <2>1, <2>2
  <2>4. b - 1 \in Above
    BY <2>2, <2>3
  <2> QED
    BY <1>2, <2>3, <2>4
<1>4. \A m \in T : b >= m
  BY <1>2
<1> DEFINE IsMax(x) == x \in T /\ \A m \in T : x >= m
<1>5. IsMax(Max(T))
  <2>1. \E x \in T : \A m \in T : x >= m
    BY <1>3, <1>4
  <2> QED
    BY <2>1 DEF Max
<1> QED
  BY <1>5

\* What a fold over 1 .. n does, written as the recursive function of the
\* community modules: the greatest element is folded in last.
Folds(it, n, base, step) ==
    \A s \in SUBSET (1 .. n) :
        it[s] = IF s = {} THEN base ELSE step[<<Max(s), it[s \ {Max(s)}]>>]

\* The recursive function of a fold exists, and its values stay in V.
LEMMA FoldExists ==
    ASSUME NEW n \in Nat, NEW V, NEW base \in V,
           NEW step \in [(1 .. n) \X V -> V]
    PROVE  \E it \in [SUBSET (1 .. n) -> V] : Folds(it, n, base, step)
<1> DEFINE Exists(k) == \E it \in [SUBSET (1 .. k) -> V] : Folds(it, k, base, step)
           Some == {k \in Nat : k <= n => Exists(k)}
<1> HIDE DEF Exists
<1>1. 0 \in Some
  <2> DEFINE it == [s \in SUBSET (1 .. 0) |-> base]
  <2>1. \A s \in SUBSET (1 .. 0) : s = {}
    OBVIOUS
  <2>2. it \in [SUBSET (1 .. 0) -> V] /\ Folds(it, 0, base, step)
    BY <2>1 DEF Folds
  <2> QED
    BY <2>2 DEF Exists
<1>2. ASSUME NEW k \in Nat, k >= 0, k \in Some
      PROVE  k + 1 \in Some
  <2> SUFFICES ASSUME k + 1 <= n
               PROVE  Exists(k + 1)
    OBVIOUS
  <2>0. Exists(k)
    <3>1. k <= n
      BY <1>2
    <3> QED
      BY <1>2, <3>1
  <2>1. PICK g \in [SUBSET (1 .. k) -> V] : Folds(g, k, base, step)
    BY <2>0 DEF Exists
  <2> DEFINE less(s) == s \ {k + 1}
             it == [s \in SUBSET (1 .. k + 1) |->
                       IF k + 1 \in s THEN step[<<k + 1, g[less(s)]>>] ELSE g[s]]
  <2>2. ASSUME NEW s \in SUBSET (1 .. k + 1)
        PROVE  less(s) \in SUBSET (1 .. k) /\ (k + 1 \notin s => s \in SUBSET (1 .. k))
    OBVIOUS
  <2>3. it \in [SUBSET (1 .. k + 1) -> V]
    <3> SUFFICES ASSUME NEW s \in SUBSET (1 .. k + 1)
                 PROVE  (IF k + 1 \in s THEN step[<<k + 1, g[less(s)]>>] ELSE g[s]) \in V
      OBVIOUS
    <3>1. CASE k + 1 \in s
      <4>1. g[less(s)] \in V /\ k + 1 \in 1 .. n
        BY <2>2
      <4> HIDE DEF less
      <4> QED
        BY <3>1, <4>1
    <3>2. CASE k + 1 \notin s
      BY <2>2, <3>2
    <3> QED
      BY <3>1, <3>2
  <2>4. ASSUME NEW s \in SUBSET (1 .. k + 1)
        PROVE  it[s] = IF s = {} THEN base ELSE step[<<Max(s), it[s \ {Max(s)}]>>]
    <3>1. CASE k + 1 \in s
      <4>1. s # {} /\ k + 1 \in Nat
        BY <3>1
      <4>2. Max(s) \in s /\ \A m \in s : m <= Max(s)
        BY <4>1, MaxIs
      <4>3. Max(s) = k + 1
        <5>1. Max(s) \in 1 .. k + 1
          BY <4>2
        <5>2. k + 1 <= Max(s)
          BY <3>1, <4>2
        <5> QED
          BY <5>1, <5>2
      <4>4. less(s) \in SUBSET (1 .. k + 1) /\ k + 1 \notin less(s)
        OBVIOUS
      <4>5. it[less(s)] = g[less(s)]
        BY <4>4
      <4> QED
        BY <3>1, <4>1, <4>3, <4>5
    <3>2. CASE k + 1 \notin s /\ s # {}
      <4>1. s \in SUBSET (1 .. k)
        BY <3>2
      <4>2. Max(s) \in s
        BY <3>2, <4>1, MaxIs
      <4>3. /\ s \ {Max(s)} \in SUBSET (1 .. k) /\ k + 1 \notin s \ {Max(s)}
            /\ s \ {Max(s)} \in SUBSET (1 .. k + 1)
        BY <3>2, <4>1, Zenon
      <4>4. it[s \ {Max(s)}] = g[s \ {Max(s)}] /\ it[s] = g[s]
        BY <3>2, <4>3
      <4>5. g[s] = step[<<Max(s), g[s \ {Max(s)}]>>]
        BY <2>1, <3>2, <4>1 DEF Folds
      <4> QED
        BY <3>2, <4>4, <4>5
    <3>3. CASE s = {}
      <4>1. {} \in SUBSET (1 .. k) /\ {} \in SUBSET (1 .. k + 1)
        OBVIOUS
      <4>2. g[{}] = base
        BY <2>1, <4>1 DEF Folds
      <4> QED
        BY <3>3, <4>1, <4>2
    <3> QED
      BY <3>1, <3>2, <3>3
  <2>5. Folds(it, k + 1, base, step)
    BY <2>4 DEF Folds
  <2> QED
    BY <2>3, <2>5 DEF Exists
<1>3. \A k \in Nat : k >= 0 => k \in Some
  <2> HIDE DEF Some
  <2> QED
    BY <1>1, <1>2, InductionFrom
<1>4. Exists(n)
  BY <1>3
<1> QED
  BY <1>4 DEF Exists

\* The ranges that a fold goes through.
LEMMA FoldRange ==
    ASSUME NEW n \in Nat, NEW k \in 1 .. n
    PROVE  /\ 1 .. k \in SUBSET (1 .. n) /\ 1 .. k # {}
           /\ Max(1 .. k) = k
           /\ (1 .. k) \ {k} = 1 .. k - 1
<1>1. 1 .. k \in SUBSET (1 .. n) /\ 1 .. k # {} /\ k \in Nat /\ k \in 1 .. k
  OBVIOUS
<1>2. Max(1 .. k) \in 1 .. k /\ \A m \in 1 .. k : m <= Max(1 .. k)
  BY <1>1, MaxIs
<1>3. Max(1 .. k) = k
  BY <1>1, <1>2
<1> QED
  BY <1>1, <1>3

-----------------------------------------------------------------------------
\* A function on trees of height h that takes at e the value D[<<e, f>>], where D
\* looks only at what f is on lower trees, exists, and its values stay in V.
Recurses(D, S, V, h) ==
    /\ V # {} /\ h \in [S -> Nat] /\ D \in [S \X [S -> V] -> V]
    /\ \A e \in S, f, g \in [S -> V] :
          (\A d \in S : h[d] < h[e] => f[d] = g[d]) => D[<<e, f>>] = D[<<e, g>>]

Solves(f, D, S, V) == f \in [S -> V] /\ \A e \in S : f[e] = D[<<e, f>>]

LEMMA TreeRecursion ==
    ASSUME NEW S, NEW V, NEW h, NEW D, Recurses(D, S, V, h)
    PROVE  \E f : Solves(f, D, S, V)
<1>0. /\ V # {} /\ h \in [S -> Nat] /\ D \in [S \X [S -> V] -> V]
      /\ \A e \in S, f, g \in [S -> V] :
            (\A d \in S : h[d] < h[e] => f[d] = g[d]) => D[<<e, f>>] = D[<<e, g>>]
  BY DEF Recurses
<1> DEFINE Good(f, n) == f \in [S -> V] /\ \A e \in S : h[e] < n => f[e] = D[<<e, f>>]
           Some == {n \in Nat : \E f : Good(f, n)}
           Agree == {n \in Nat : \A f, g : Good(f, n) /\ Good(g, n) =>
                                    \A e \in S : h[e] < n => f[e] = g[e]}
<1>1. 0 \in Some
  <2>1. PICK v \in V : TRUE
    BY <1>0
  <2>2. Good([e \in S |-> v], 0)
    BY <1>0
  <2> QED
    BY <2>2
<1>2. ASSUME NEW n \in Nat, n \in Some PROVE n + 1 \in Some
  <2>1. PICK f : Good(f, n)
    BY <1>2
  <2> DEFINE g == [e \in S |-> D[<<e, f>>]]
  <2>2. g \in [S -> V]
    BY <1>0, <2>1
  <2>3. ASSUME NEW e \in S, h[e] < n + 1 PROVE g[e] = D[<<e, g>>]
    <3>1. ASSUME NEW d \in S, h[d] < h[e] PROVE f[d] = g[d]
      <4>1. h[d] < n
        BY <1>0, <2>3, <3>1
      <4> QED
        BY <2>1, <4>1
    <3>2. D[<<e, f>>] = D[<<e, g>>]
      <4> HIDE DEF g
      <4> QED
        BY <1>0, <2>1, <2>2, <3>1
    <3> QED
      BY <3>2
  <2>4. Good(g, n + 1)
    <3> HIDE DEF g
    <3> QED
      BY <2>2, <2>3
  <2> HIDE DEF Good
  <2> QED
    BY <2>4
<1>3. \A n \in Nat : n \in Some
  <2> HIDE DEF Some
  <2>1. \A n \in Nat : n >= 0 => n \in Some
    BY <1>1, <1>2, InductionFrom
  <2> QED
    BY <2>1
<1>4. 0 \in Agree
  BY <1>0
<1>5. ASSUME NEW n \in Nat, n \in Agree PROVE n + 1 \in Agree
  <2> SUFFICES ASSUME NEW f, NEW g, Good(f, n + 1), Good(g, n + 1), NEW e \in S, h[e] < n + 1
               PROVE  f[e] = g[e]
    <3> HIDE DEF Good
    <3> QED
      OBVIOUS
  <2>0. \A d \in S : h[d] < n => h[d] < n + 1
    BY <1>0
  <2>1. Good(f, n) /\ Good(g, n)
    BY <2>0
  <2>2. ASSUME NEW d \in S, h[d] < h[e] PROVE f[d] = g[d]
    <3>1. h[d] < n
      BY <1>0, <2>2
    <3> HIDE DEF Good
    <3> QED
      BY <1>5, <2>1, <3>1
  <2>3. D[<<e, f>>] = D[<<e, g>>]
    BY <1>0, <2>2
  <2> QED
    BY <2>3
<1>6. \A n \in Nat : n \in Agree
  <2> HIDE DEF Agree
  <2>1. \A n \in Nat : n >= 0 => n \in Agree
    BY <1>4, <1>5, InductionFrom
  <2> QED
    BY <2>1
<1> DEFINE at(n) == CHOOSE f : Good(f, n)
           F == [e \in S |-> at(h[e] + 1)[e]]
<1>7. \A n \in Nat : Good(at(n), n)
  <2> HIDE DEF Good
  <2> QED
    BY <1>3
<1>8. ASSUME NEW e \in S PROVE F[e] \in V /\ F[e] = at(h[e] + 1)[e]
  <2>1. Good(at(h[e] + 1), h[e] + 1)
    <3> HIDE DEF at, Good
    <3> QED
      BY <1>0, <1>7
  <2> HIDE DEF at
  <2> QED
    BY <2>1
<1>9. F \in [S -> V]
  <2> HIDE DEF at
  <2> QED
    BY <1>8
<1>10. ASSUME NEW e \in S PROVE F[e] = D[<<e, F>>]
  <2> DEFINE f == at(h[e] + 1)
  <2>1. Good(f, h[e] + 1)
    <3> HIDE DEF at, Good
    <3> QED
      BY <1>0, <1>7
  <2>2. ASSUME NEW d \in S, h[d] < h[e] PROVE f[d] = F[d]
    <3> DEFINE g == at(h[d] + 1)
    <3>1. Good(g, h[d] + 1)
      <4> HIDE DEF at, Good
      <4> QED
        BY <1>0, <1>7
    <3> HIDE DEF at, f, g
    <3>2. Good(f, h[d] + 1)
      <4>1. \A c \in S : h[c] < h[d] + 1 => h[c] < h[e] + 1
        BY <1>0, <2>2
      <4> QED
        BY <2>1, <4>1 DEF f
    <3>3. h[d] + 1 \in Agree /\ h[d] < h[d] + 1
      <4> HIDE DEF Agree
      <4> QED
        BY <1>0, <1>6
    <3>4. f[d] = g[d]
      <4> HIDE DEF Good
      <4> QED
        BY <3>1, <3>2, <3>3
    <3> QED
      BY <1>8, <3>4 DEF g
  <2>3. f[e] = D[<<e, f>>] /\ f \in [S -> V]
    <3>1. h[e] < h[e] + 1
      BY <1>0
    <3> HIDE DEF f
    <3> QED
      BY <2>1, <3>1
  <2>4. D[<<e, f>>] = D[<<e, F>>]
    <3> HIDE DEF f, F
    <3> QED
      BY <1>0, <1>9, <2>2, <2>3
  <2> QED
    BY <1>8, <2>3, <2>4
<1> QED
  <2> HIDE DEF F
  <2> QED
    BY <1>9, <1>10 DEF Solves
=============================================================================
