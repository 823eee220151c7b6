------------------------------ MODULE JpgeProofs ------------------------------
(* Lemmas about the operators of the JPEG encoder: the tables, the loops over   *)
(* sequences, the transform and the code words, for every input the encoder can *)
(* give them.                                                                   *)
(*                                                                              *)
(* The loops are recursive functions.  That such a function exists, and what    *)
(* holds of its values, is proved by induction over a set of numbers; this      *)
(* rests on the natural numbers being well ordered.                             *)
EXTENDS Jpge, WellFoundedInduction, SequenceTheorems, TLAPS

-------------------------------------------------------------------------------
(* Induction. *)

\* A set of natural numbers that is not empty has a least element.
LEMMA LeastElement ==
  ASSUME NEW T, T \subseteq Nat, T # {}
  PROVE  \E m \in T : \A n \in T : m <= n
<1> DEFINE R == {ss \in Nat \X Nat : ss[1] < ss[2]}
<1>1. IsWellFoundedOn(R, Nat)
  BY NatLessThanWellFounded DEF OpToRel
<1>2. PICK m \in T : \A n \in T : ~(<<n, m>> \in R)
  <2> HIDE DEF R
  <2> QED
    BY <1>1, WFMin
<1>3. ASSUME NEW n \in T
      PROVE  m <= n
  <2>1. m \in Nat /\ n \in Nat /\ <<n, m>> \in Nat \X Nat
    OBVIOUS
  <2>2. <<n, m>>[1] = n /\ <<n, m>>[2] = m
    OBVIOUS
  <2> QED
    BY <1>2, <2>1, <2>2
<1> QED
  BY <1>2, <1>3

\* Induction up to n, for the members of a set.
LEMMA InductionUpTo ==
  ASSUME NEW n \in Nat, NEW S, 0 \in S,
         \A k \in 1..n : k - 1 \in S => k \in S
  PROVE  \A k \in 0..n : k \in S
<1> DEFINE T == {k \in 0..n : k \notin S}
<1> SUFFICES ASSUME T # {}
             PROVE  FALSE
  OBVIOUS
<1>1. PICK m \in T : \A k \in T : m <= k
  <2>1. T \subseteq Nat
    OBVIOUS
  <2> HIDE DEF T
  <2> QED
    BY <2>1, LeastElement
<1>2. m \in 1..n /\ m - 1 \in 0..n
  BY <1>1
<1>3. m - 1 \in S
  BY <1>1, <1>2
<1> QED
  BY <1>1, <1>2, <1>3

\* g[k] is what a loop whose k-th turn is F[k] makes of e in k turns.
IsLoop(g, n, e, F) == g[0] = e /\ \A k \in 1..n : g[k] = F[k][g[k - 1]]

\* A loop each of whose turns stays in P has a value in P after each turn.
LEMMA LoopExists ==
  ASSUME NEW n \in Nat, NEW P, NEW e \in P, NEW F \in [1..n -> [P -> P]]
  PROVE  \E g \in [0..n -> P] : IsLoop(g, n, e, F)
<1> DEFINE Good(g, m) == IsLoop(g, m, e, F)
           S == {m \in 0..n : \E g \in [0..m -> P] : Good(g, m)}
<1> USE DEF IsLoop
<1>1. 0 \in S
  <2> DEFINE g == [k \in 0..0 |-> e]
  <2>1. g \in [0..0 -> P] /\ Good(g, 0) /\ 0 \in 0..n
    OBVIOUS
  <2> HIDE DEF g, Good
  <2> QED
    BY <2>1
<1>2. ASSUME NEW m \in 1..n, m - 1 \in S
      PROVE  m \in S
  <2>1. PICK g \in [0..(m - 1) -> P] : Good(g, m - 1)
    BY <1>2
  <2> DEFINE h == [k \in 0..m |-> IF k = m THEN F[m][g[m - 1]] ELSE g[k]]
  <2>2. h \in [0..m -> P]
    OBVIOUS
  <2>3. h[0] = e
    BY <2>1
  <2>4. ASSUME NEW k \in 1..m
        PROVE  h[k] = F[k][h[k - 1]]
    BY <2>1
  <2>5. Good(h, m)
    BY <2>3, <2>4
  <2> HIDE DEF h, Good
  <2> QED
    BY <2>2, <2>5
<1>3. \A k \in 0..n : k \in S
  <2> HIDE DEF S
  <2> QED
    BY <1>1, <1>2, InductionUpTo
<1> QED
  BY <1>3

\* What holds before a loop and is kept by each turn holds after every turn.
LEMMA LoopInvariant ==
  ASSUME NEW n \in Nat, NEW P, NEW g, g[0] \in P,
         \A k \in 1..n : g[k - 1] \in P => g[k] \in P
  PROVE  \A k \in 0..n : g[k] \in P
<1> DEFINE S == {k \in 0..n : g[k] \in P}
<1>1. 0 \in S /\ \A k \in 1..n : k - 1 \in S => k \in S
  OBVIOUS
<1>2. \A k \in 0..n : k \in S
  <2> HIDE DEF S
  <2> QED
    BY <1>1, InductionUpTo
<1> QED
  BY <1>2

\* Induction over sequences, for the members of a set.
LEMMA SequenceInduction ==
  ASSUME NEW S, NEW Q, <<>> \in Q,
         \A s \in Seq(S), x \in S : s \in Q => s \o <<x>> \in Q
  PROVE  \A s \in Seq(S) : s \in Q
<1> SUFFICES ASSUME NEW s \in Seq(S)
             PROVE  s \in Q
  OBVIOUS
<1> DEFINE n == Len(s)
           part(k) == SubSeq(s, 1, k)
           K == {k \in 0..n : part(k) \in Q}
<1>1. n \in Nat
  BY LenProperties
<1>2. 0 \in K
  <2>1. part(0) = <<>>
    <3>1. 1 \in Int /\ 0 \in Int /\ 0 < 1
      OBVIOUS
    <3> QED
      BY <3>1, SubSeqEmpty
  <2>2. part(0) \in Q
    BY <2>1
  <2> HIDE DEF part
  <2> QED
    BY <1>1, <2>2
<1>3. ASSUME NEW k \in 1..n, k - 1 \in K
      PROVE  k \in K
  <2>1. part(k) = part(k - 1) \o <<s[k]>>
    <3>1. 1 \in 1..n /\ k \in 1..n
      BY <1>1
    <3> QED
      BY <3>1, SubSeqRecursiveSecond
  <2>2. part(k - 1) \in Q /\ k \in 0..n
    BY <1>3
  <2>3. part(k - 1) \in Seq(S) /\ s[k] \in S
    <3>1. \A i \in 1..(k - 1) : s[i] \in S
      BY ElementOfSeq
    <3>2. 1 \in Int /\ k - 1 \in Int
      OBVIOUS
    <3> QED
      BY <3>1, <3>2, SubSeqProperties, ElementOfSeq
  <2> HIDE DEF part
  <2> QED
    BY <2>1, <2>2, <2>3
<1>4. \A k \in 0..n : k \in K
  <2> HIDE DEF K
  <2> QED
    BY <1>1, <1>2, <1>3, InductionUpTo
<1>5. part(n) = s /\ n \in K
  BY <1>1, <1>4, SubSeqFull
<1> QED
  BY <1>5

-------------------------------------------------------------------------------
(* Pieces put one after the other. *)

\* What is put together piece by piece: f[i] is the first i pieces.
IsFlattening(f, seqs) ==
  \A i \in 1..Len(seqs) : f[i] = IF i = 1 THEN seqs[i] ELSE f[i - 1] \o seqs[i]

\* FlattenSeq is the last value of such a loop, whose values are all in P.
LEMMA FlattenSeqLoop ==
  ASSUME NEW P, \A s, t \in P : s \o t \in P,
         NEW seqs \in Seq(P), seqs # <<>>
  PROVE  \E f : /\ IsFlattening(f, seqs)
                /\ \A i \in 1..Len(seqs) : f[i] \in P
                /\ FlattenSeq(seqs) = f[Len(seqs)]
<1> DEFINE n == Len(seqs)
           Body(f) == [i \in 1..n |-> IF i = 1 THEN seqs[i] ELSE f[i - 1] \o seqs[i]]
           flatten == CHOOSE f : f = Body(f)
           m == n - 1
           F == [k \in 1..m |-> [s \in P |-> s \o seqs[k + 1]]]
<1>1. n \in Nat /\ m \in Nat /\ seqs \in [1..n -> P] /\ n = m + 1 /\ n # 0
  BY EmptySeq
<1>2. F \in [1..m -> [P -> P]]
  <2>1. ASSUME NEW k \in 1..m, NEW s \in P
        PROVE  s \o seqs[k + 1] \in P
    <3>1. seqs[k + 1] \in P
      BY <1>1
    <3> QED
      BY <3>1
  <2> QED
    BY <2>1
<1>3. seqs[1] \in P
  BY <1>1
<1>4. PICK g \in [0..m -> P] : IsLoop(g, m, seqs[1], F)
  <2> HIDE DEF F, m
  <2> QED
    BY <1>1, <1>2, <1>3, LoopExists
<1> DEFINE h == [i \in 1..n |-> g[i - 1]]
<1>5. ASSUME NEW i \in 1..n
      PROVE  h[i] = IF i = 1 THEN seqs[i] ELSE h[i - 1] \o seqs[i]
  <2>1. CASE i = 1
    BY <1>1, <1>4, <2>1 DEF IsLoop
  <2>2. CASE i # 1
    <3> DEFINE j == i - 1
    <3>1. j \in 1..m /\ j \in 1..n /\ i = j + 1
      BY <1>1, <2>2
    <3>2. g[j - 1] \in P /\ g[j] = F[j][g[j - 1]]
      <4>1. j - 1 \in 0..m
        BY <3>1
      <4> HIDE DEF F, j, m
      <4> QED
        BY <1>4, <3>1, <4>1 DEF IsLoop
    <3>3. F[j][g[j - 1]] = g[j - 1] \o seqs[i]
      BY <3>1, <3>2
    <3>4. h[i] = g[j] /\ h[j] = g[j - 1]
      BY <3>1
    <3> QED
      BY <2>2, <3>2, <3>3, <3>4
  <2> QED
    BY <2>1, <2>2
<1>6. h = Body(h)
  <2>1. h = [i \in 1..n |-> h[i]]
    OBVIOUS
  <2> HIDE DEF h
  <2> QED
    BY <2>1, <1>5
<1>7. flatten = Body(flatten)
  <2> HIDE DEF Body, h
  <2> QED
    BY <1>6
<1>8. FlattenSeq(seqs) = flatten[n]
  BY <1>1 DEF FlattenSeq
<1> HIDE DEF flatten
<1>9. \A i \in 1..n : flatten[i] = IF i = 1 THEN seqs[i] ELSE flatten[i - 1] \o seqs[i]
  BY <1>7
<1> DEFINE f == [k \in 0..m |-> flatten[k + 1]]
<1>10. \A k \in 0..m : f[k] \in P
  <2>1. f[0] \in P
    BY <1>1, <1>3, <1>9
  <2>2. ASSUME NEW k \in 1..m, f[k - 1] \in P
        PROVE  f[k] \in P
    <3>1. k + 1 \in 1..n /\ k + 1 # 1 /\ (k + 1) - 1 = (k - 1) + 1 /\ k - 1 \in 0..m
      BY <1>1
    <3>2. f[k] = flatten[k + 1] /\ f[k - 1] = flatten[(k + 1) - 1] /\ seqs[k + 1] \in P
      BY <1>1, <3>1
    <3>3. f[k] = f[k - 1] \o seqs[k + 1]
      BY <1>9, <3>1, <3>2
    <3> HIDE DEF f
    <3> QED
      BY <2>2, <3>2, <3>3
  <2> HIDE DEF f, m
  <2> QED
    BY <1>1, <2>1, <2>2, LoopInvariant
<1>11. \A i \in 1..n : flatten[i] \in P
  <2>1. ASSUME NEW i \in 1..n
        PROVE  flatten[i] \in P
    <3>1. i - 1 \in 0..m /\ f[i - 1] = flatten[i]
      BY <1>1
    <3> HIDE DEF f
    <3> QED
      BY <1>10, <3>1
  <2> QED
    BY <2>1
<1> QED
  BY <1>8, <1>9, <1>11 DEF IsFlattening

\* The pieces put one after the other are in any set that is closed under that.
LEMMA FlattenSeqIn ==
  ASSUME NEW P, <<>> \in P, \A s, t \in P : s \o t \in P, NEW seqs \in Seq(P)
  PROVE  FlattenSeq(seqs) \in P
<1>1. CASE seqs = <<>>
  BY <1>1 DEF FlattenSeq
<1>2. CASE seqs # <<>>
  <2>1. PICK f : /\ \A i \in 1..Len(seqs) : f[i] \in P
                 /\ FlattenSeq(seqs) = f[Len(seqs)]
    BY <1>2, FlattenSeqLoop
  <2>2. Len(seqs) \in 1..Len(seqs)
    BY <1>2, EmptySeq
  <2> QED
    BY <2>1, <2>2
<1> QED
  BY <1>1, <1>2

LEMMA FlattenSeqType ==
  ASSUME NEW T, NEW seqs \in Seq(Seq(T))
  PROVE  FlattenSeq(seqs) \in Seq(T)
<1> DEFINE P == Seq(T)
<1>1. <<>> \in P /\ \A s, t \in P : s \o t \in P
  BY EmptySeq, ConcatProperties
<1>2. seqs \in Seq(P)
  OBVIOUS
<1> HIDE DEF P
<1>3. FlattenSeq(seqs) \in P
  BY <1>1, <1>2, FlattenSeqIn
<1> QED
  BY <1>3 DEF P

\* A loop over more pieces does the same as long as the pieces are the same.
LEMMA FlatteningsAgree ==
  ASSUME NEW a, NEW b, NEW f, NEW g, IsFlattening(f, a), IsFlattening(g, b),
         Len(a) \in Nat, Len(b) \in Nat, Len(a) <= Len(b),
         \A i \in 1..Len(a) : a[i] = b[i]
  PROVE  \A i \in 1..Len(a) : f[i] = g[i]
<1> DEFINE n == Len(a)
           S == {k \in 0..n : k # 0 => f[k] = g[k]}
<1>1. 0 \in S
  OBVIOUS
<1>2. ASSUME NEW k \in 1..n, k - 1 \in S
      PROVE  k \in S
  <2>1. k \in 1..Len(a) /\ k \in 1..Len(b)
    OBVIOUS
  <2>2. f[k] = IF k = 1 THEN a[k] ELSE f[k - 1] \o a[k]
    BY <2>1 DEF IsFlattening
  <2>3. g[k] = IF k = 1 THEN b[k] ELSE g[k - 1] \o b[k]
    BY <2>1 DEF IsFlattening
  <2>4. a[k] = b[k]
    OBVIOUS
  <2>5. k # 1 => f[k - 1] = g[k - 1]
    BY <1>2
  <2> QED
    BY <2>2, <2>3, <2>4, <2>5
<1>3. \A k \in 0..n : k \in S
  <2> HIDE DEF S
  <2> QED
    BY <1>1, <1>2, InductionUpTo
<1> QED
  BY <1>3

\* One more piece comes behind the others.
LEMMA FlattenAppend ==
  ASSUME NEW T, NEW seqs \in Seq(Seq(T)), NEW s \in Seq(T)
  PROVE  FlattenSeq(Append(seqs, s)) = FlattenSeq(seqs) \o s
<1> DEFINE P == Seq(T)
           more == Append(seqs, s)
           n == Len(seqs)
<1>1. <<>> \in P /\ \A x, y \in P : x \o y \in P
  BY EmptySeq, ConcatProperties
<1>2. /\ n \in Nat /\ more \in Seq(P) /\ Len(more) = n + 1 /\ more[n + 1] = s
      /\ \A i \in 1..n : more[i] = seqs[i]
  BY AppendProperties, LenProperties
<1>3. seqs \in Seq(P) /\ s \in P
  OBVIOUS
<1> HIDE DEF P, more
<1>4. more # <<>>
  BY <1>2, EmptySeq
<1>5. PICK g : /\ IsFlattening(g, more)
               /\ FlattenSeq(more) = g[Len(more)]
  BY <1>1, <1>2, <1>4, FlattenSeqLoop
<1>6. CASE seqs = <<>>
  <2>1. n = 0
    BY <1>6, EmptySeq
  <2>2. g[1] = s
    BY <1>2, <1>5, <2>1 DEF IsFlattening
  <2>3. FlattenSeq(seqs) = <<>>
    BY <1>6 DEF FlattenSeq
  <2>4. <<>> \o s = s
    BY DEF P
  <2> QED
    BY <1>2, <1>5, <2>1, <2>2, <2>3, <2>4 DEF more
<1>7. CASE seqs # <<>>
  <2>1. PICK f : /\ IsFlattening(f, seqs)
                 /\ FlattenSeq(seqs) = f[Len(seqs)]
    BY <1>1, <1>3, <1>7, FlattenSeqLoop
  <2>2. n >= 1
    BY <1>2, <1>7, EmptySeq
  <2>3. \A i \in 1..n : f[i] = g[i]
    <3>1. Len(more) \in Nat /\ Len(seqs) <= Len(more) /\ Len(seqs) \in Nat
      BY <1>2
    <3>2. \A i \in 1..Len(seqs) : seqs[i] = more[i]
      BY <1>2
    <3> QED
      BY <1>5, <2>1, <3>1, <3>2, FlatteningsAgree
  <2>4. n + 1 \in 1..Len(more) /\ n + 1 # 1 /\ (n + 1) - 1 = n /\ n \in 1..n
    BY <1>2, <2>2
  <2>5. g[n + 1] = g[n] \o s
    BY <1>2, <1>5, <2>4 DEF IsFlattening
  <2> QED
    BY <1>2, <1>5, <2>1, <2>3, <2>4, <2>5 DEF more
<1> QED
  BY <1>6, <1>7

LEMMA FlattenConcat ==
  ASSUME NEW T, NEW a \in Seq(Seq(T)), NEW b \in Seq(Seq(T))
  PROVE  FlattenSeq(a \o b) = FlattenSeq(a) \o FlattenSeq(b)
<1> DEFINE P == Seq(T)
           Good(s) == FlattenSeq(a \o s) = FlattenSeq(a) \o FlattenSeq(s)
           Q == {s \in Seq(P) : Good(s)}
<1>1. /\ <<>> \in Seq(P) /\ \A s \in Seq(P) : s \o <<>> = s
      /\ \A s \in P : s \o <<>> = s
  BY EmptySeq, ConcatEmptySeq
<1>2. \A s \in Seq(P) : FlattenSeq(s) \in P
  BY FlattenSeqType
<1>3. a \in Seq(P) /\ b \in Seq(P)
  OBVIOUS
<1>4. \A s \in Seq(P), x \in P : /\ s \o <<x>> \in Seq(P)
                                 /\ FlattenSeq(s \o <<x>>) = FlattenSeq(s) \o x
  <2>1. ASSUME NEW s \in Seq(P), NEW x \in P
        PROVE  /\ s \o <<x>> \in Seq(P)
               /\ FlattenSeq(s \o <<x>>) = FlattenSeq(s) \o x
    <3>1. Append(s, x) = s \o <<x>> /\ Append(s, x) \in Seq(P)
      BY AppendIsConcat, AppendProperties
    <3>2. FlattenSeq(Append(s, x)) = FlattenSeq(s) \o x
      BY FlattenAppend
    <3> QED
      BY <3>1, <3>2
  <2> QED
    BY <2>1
<1>5. \A r, s, t \in P : (r \o s) \o t = r \o (s \o t)
  BY ConcatAssociative, SMTT(30)
<1>6. \A r, s, t \in Seq(P) : (r \o s) \o t = r \o (s \o t) /\ r \o s \in Seq(P)
  BY ConcatAssociative, ConcatProperties, SMTT(30)
<1> HIDE DEF P
<1>7. <<>> \in Q
  <2>1. FlattenSeq(<<>>) = <<>>
    BY DEF FlattenSeq
  <2> QED
    BY <1>1, <1>2, <1>3, <2>1
<1>8. ASSUME NEW s \in Seq(P), NEW x \in P, s \in Q
      PROVE  s \o <<x>> \in Q
  <2>1. <<x>> \in Seq(P)
    OBVIOUS
  <2>2. a \o (s \o <<x>>) = (a \o s) \o <<x>> /\ a \o s \in Seq(P)
    BY <1>3, <1>6, <2>1
  <2>3. FlattenSeq((a \o s) \o <<x>>) = FlattenSeq(a \o s) \o x
    BY <1>4, <2>2
  <2>4. FlattenSeq(a \o s) = FlattenSeq(a) \o FlattenSeq(s)
    BY <1>8
  <2>5. (FlattenSeq(a) \o FlattenSeq(s)) \o x = FlattenSeq(a) \o (FlattenSeq(s) \o x)
    <3>1. FlattenSeq(a) \in P /\ FlattenSeq(s) \in P
      BY <1>2, <1>3
    <3> QED
      BY <1>5, <3>1
  <2>6. FlattenSeq(s \o <<x>>) = FlattenSeq(s) \o x /\ s \o <<x>> \in Seq(P)
    BY <1>4
  <2>7. Good(s \o <<x>>)
    BY <2>2, <2>3, <2>4, <2>5, <2>6
  <2> HIDE DEF Good
  <2> QED
    BY <2>6, <2>7
<1>9. \A s \in Seq(P) : s \in Q
  <2> HIDE DEF Q
  <2> QED
    BY <1>7, <1>8, SequenceInduction
<1> QED
  BY <1>3, <1>9

\* F of each element, put one after the other.
Joined(F, s) == FlattenSeq([i \in 1..Len(s) |-> F[s[i]]])

LEMMA JoinedOf ==
  ASSUME NEW S, NEW P, NEW F \in [S -> P], NEW s \in Seq(S)
  PROVE  [i \in 1..Len(s) |-> F[s[i]]] \in Seq(P)
<1>1. Len(s) \in Nat /\ \A i \in 1..Len(s) : F[s[i]] \in P
  BY LenProperties, ElementOfSeq
<1> DEFINE n == Len(s)
<1> HIDE DEF n
<1>2. n \in Nat /\ \A i \in 1..n : F[s[i]] \in P
  BY <1>1 DEF n
<1>3. [i \in 1..n |-> F[s[i]]] \in Seq(P)
  BY <1>2
<1> QED
  BY <1>3 DEF n

\* F gives a sequence over T for each element of S.
Spells(F, S, T) == F \in [S -> Seq(T)]

LEMMA SpellsType ==
  ASSUME NEW S, NEW T, NEW F \in [S -> Seq(T)]
  PROVE  Spells(F, S, T)
  BY DEF Spells

LEMMA JoinedConcat ==
  ASSUME NEW S, NEW T, NEW F, Spells(F, S, T), NEW s \in Seq(S), NEW t \in Seq(S)
  PROVE  /\ Joined(F, s) \in Seq(T)
         /\ Joined(F, s \o t) = Joined(F, s) \o Joined(F, t)
<1> USE DEF Spells
<1> DEFINE P == Seq(T)
           of(r) == [i \in 1..Len(r) |-> F[r[i]]]
<1>1. of(s) \in Seq(P) /\ of(t) \in Seq(P)
  BY JoinedOf
<1>2. /\ s \o t \in Seq(S) /\ Len(s \o t) = Len(s) + Len(t)
      /\ \A i \in 1..(Len(s) + Len(t)) :
           (s \o t)[i] = IF i <= Len(s) THEN s[i] ELSE t[i - Len(s)]
  BY ConcatProperties
<1>3. Len(s) \in Nat /\ Len(t) \in Nat
  BY LenProperties
<1>4. of(s \o t) \in Seq(P)
  BY <1>2, JoinedOf
<1>5. Len(of(s)) = Len(s) /\ Len(of(t)) = Len(t) /\ Len(of(s \o t)) = Len(s) + Len(t)
  <2>1. \A n \in Nat : \A f : Len([i \in 1..n |-> f[i]]) = n
    OBVIOUS
  <2> DEFINE m == Len(s)
             k == Len(t)
             l == Len(s \o t)
  <2>2. m \in Nat /\ k \in Nat /\ l \in Nat /\ l = m + k
    BY <1>2, <1>3
  <2> HIDE DEF m, k, l
  <2>3. Len([i \in 1..m |-> F[s[i]]]) = m
    BY <2>2
  <2>4. Len([i \in 1..k |-> F[t[i]]]) = k
    BY <2>2
  <2>5. Len([i \in 1..l |-> F[(s \o t)[i]]]) = l
    <3> DEFINE u == s \o t
    <3> HIDE DEF u
    <3>1. Len([i \in 1..l |-> F[u[i]]]) = l
      BY <2>2
    <3> QED
      BY <3>1 DEF u
  <2> QED
    BY <2>2, <2>3, <2>4, <2>5 DEF m, k, l
<1>6. /\ \A i \in 1..Len(s) : of(s)[i] = F[s[i]]
      /\ \A i \in 1..Len(t) : of(t)[i] = F[t[i]]
      /\ \A i \in 1..(Len(s) + Len(t)) : of(s \o t)[i] = F[(s \o t)[i]]
  BY <1>2
<1> DEFINE os == of(s)
           ot == of(t)
           new == of(s \o t)
<1>7. os \o ot = new
  <2>1. /\ os \in Seq(P) /\ ot \in Seq(P) /\ new \in Seq(P)
        /\ Len(os) = Len(s) /\ Len(ot) = Len(t) /\ Len(new) = Len(s) + Len(t)
    BY <1>1, <1>4, <1>5
  <2>2. /\ \A i \in 1..Len(s) : os[i] = F[s[i]]
        /\ \A i \in 1..Len(t) : ot[i] = F[t[i]]
        /\ \A i \in 1..(Len(s) + Len(t)) : new[i] = F[(s \o t)[i]]
    BY <1>6
  <2> HIDE DEF os, ot, new, P
  <2>3. /\ os \o ot \in Seq(P) /\ Len(os \o ot) = Len(s) + Len(t)
        /\ \A i \in 1..(Len(s) + Len(t)) :
             (os \o ot)[i] = IF i <= Len(s) THEN os[i] ELSE ot[i - Len(s)]
    <3>1. os \in Seq(P) /\ ot \in Seq(P)
      BY <2>1
    <3>2. /\ os \o ot \in Seq(P) /\ Len(os \o ot) = Len(os) + Len(ot)
          /\ \A i \in 1..(Len(os) + Len(ot)) :
               (os \o ot)[i] = IF i <= Len(os) THEN os[i] ELSE ot[i - Len(os)]
      BY <3>1, ConcatProperties
    <3> QED
      BY <2>1, <3>2
  <2>4. ASSUME NEW i \in 1..(Len(s) + Len(t))
        PROVE  (os \o ot)[i] = new[i]
    <3>1. CASE i <= Len(s)
      <4>1. i \in 1..Len(s)
        BY <1>3, <3>1
      <4> QED
        BY <1>2, <2>2, <2>3, <3>1, <4>1
    <3>2. CASE ~(i <= Len(s))
      <4>1. i - Len(s) \in 1..Len(t)
        BY <1>3, <3>2
      <4>2. (os \o ot)[i] = ot[i - Len(s)] /\ (s \o t)[i] = t[i - Len(s)]
        BY <1>2, <2>3, <3>2
      <4>3. ot[i - Len(s)] = F[t[i - Len(s)]] /\ new[i] = F[(s \o t)[i]]
        BY <2>2, <4>1
      <4> QED
        BY <4>2, <4>3
    <3> QED
      BY <3>1, <3>2
  <2> QED
    BY <2>1, <2>3, <2>4, SeqEqual
<1>8. FlattenSeq(os \o ot) = FlattenSeq(os) \o FlattenSeq(ot) /\ FlattenSeq(os) \in Seq(T)
  <2>1. os \in Seq(Seq(T)) /\ ot \in Seq(Seq(T))
    BY <1>1
  <2> HIDE DEF os, ot, new
  <2> QED
    BY <2>1, FlattenConcat, FlattenSeqType
<1> QED
  BY <1>7, <1>8 DEF Joined

LEMMA JoinedShort ==
  ASSUME NEW S, NEW T, NEW F \in [S -> Seq(T)], NEW x \in S
  PROVE  Joined(F, <<x>>) = F[x] /\ Joined(F, <<>>) = <<>>
<1>1. [i \in 1..Len(<<x>>) |-> F[<<x>>[i]]] = <<F[x]>>
  OBVIOUS
<1>2. FlattenSeq(<<F[x]>>) = F[x]
  <2>1. F[x] \in Seq(T) /\ <<>> \in Seq(Seq(T)) /\ Append(<<>>, F[x]) = <<F[x]>>
    OBVIOUS
  <2>2. FlattenSeq(<<>>) = <<>> /\ <<>> \o F[x] = F[x]
    BY <2>1, ConcatEmptySeq DEF FlattenSeq
  <2> QED
    BY <2>1, <2>2, FlattenAppend
<1>3. [i \in 1..Len(<<>>) |-> F[<<>>[i]]] = <<>> /\ FlattenSeq(<<>>) = <<>>
  BY DEF FlattenSeq
<1> QED
  BY <1>1, <1>2, <1>3 DEF Joined

-------------------------------------------------------------------------------
(* Powers of two. *)

LEMMA Powers == \A n \in Nat : 2^n \in Int
  OBVIOUS

\* The powers of two that occur.
PowersOfTwo == <<1, 2, 4, 8, 16, 32, 64, 128, 256, 512, 1024, 2048, 4096, 8192, 16384,
                 32768, 65536>>

LEMMA PowerOfTwo == \A n \in 0..16 : 2^n = PowersOfTwo[n + 1]
<1> SUFFICES ASSUME NEW n \in 0..16
             PROVE  2^n = PowersOfTwo[n + 1]
  OBVIOUS
<1>1. n \in {0, 1, 2, 3, 4, 5, 6, 7, 8, 9, 10, 11, 12, 13, 14, 15, 16}
  OBVIOUS
<1>2. CASE n = 0
  BY <1>2, SMT DEF PowersOfTwo
<1>3. CASE n = 1
  BY <1>3, SMT DEF PowersOfTwo
<1>4. CASE n = 2
  BY <1>4, SMT DEF PowersOfTwo
<1>5. CASE n = 3
  BY <1>5, SMT DEF PowersOfTwo
<1>6. CASE n = 4
  BY <1>6, SMT DEF PowersOfTwo
<1>7. CASE n = 5
  BY <1>7, SMT DEF PowersOfTwo
<1>8. CASE n = 6
  BY <1>8, SMT DEF PowersOfTwo
<1>9. CASE n = 7
  BY <1>9, SMT DEF PowersOfTwo
<1>10. CASE n = 8
  BY <1>10, SMT DEF PowersOfTwo
<1>11. CASE n = 9
  BY <1>11, SMT DEF PowersOfTwo
<1>12. CASE n = 10
  BY <1>12, SMT DEF PowersOfTwo
<1>13. CASE n = 11
  BY <1>13, SMT DEF PowersOfTwo
<1>14. CASE n = 12
  BY <1>14, SMT DEF PowersOfTwo
<1>15. CASE n = 13
  BY <1>15, SMT DEF PowersOfTwo
<1>16. CASE n = 14
  BY <1>16, SMT DEF PowersOfTwo
<1>17. CASE n = 15
  BY <1>17, SMT DEF PowersOfTwo
<1>18. CASE n = 16
  BY <1>18, SMT DEF PowersOfTwo
<1> QED
  BY <1>1, <1>2, <1>3, <1>4, <1>5, <1>6, <1>7, <1>8, <1>9, <1>10, <1>11, <1>12, <1>13, <1>14,
     <1>15, <1>16, <1>17, <1>18

LEMMA PowersGrow ==
  /\ \A n \in 0..16 : 2^n \in Nat /\ 1 <= 2^n
  /\ \A n \in 1..16 : 2^n = 2 * 2^(n - 1)
  /\ \A m, n \in 0..16 : m <= n => 2^m <= 2^n
<1>1. \A n \in 0..16 : PowersOfTwo[n + 1] \in Nat /\ 1 <= PowersOfTwo[n + 1]
  BY SMT DEF PowersOfTwo
<1>2. \A n \in 1..16 : PowersOfTwo[n + 1] = 2 * PowersOfTwo[(n - 1) + 1]
  BY SMT DEF PowersOfTwo
<1>3. \A m, n \in 0..16 : m <= n => PowersOfTwo[m + 1] <= PowersOfTwo[n + 1]
  BY SMT DEF PowersOfTwo
<1>4. \A n \in 1..16 : n \in 0..16 /\ n - 1 \in 0..16
  OBVIOUS
<1> HIDE DEF PowersOfTwo
<1> QED
  BY <1>1, <1>2, <1>3, <1>4, PowerOfTwo, SMT

Power24 == <<1, 2, 4, 8, 16, 32, 64, 128, 256, 512, 1024, 2048, 4096, 8192, 16384,
             32768, 65536, 131072, 262144, 524288, 1048576, 2097152, 4194304, 8388608, 16777216>>

LEMMA PowersUpTo24 == \A n \in 16..24 : 2^n = Power24[n + 1]
<1> SUFFICES ASSUME NEW n \in 16..24
             PROVE  2^n = Power24[n + 1]
  OBVIOUS
<1>1. n \in {16, 17, 18, 19, 20, 21, 22, 23, 24}
  OBVIOUS
<1>2. CASE n = 16
  BY <1>2, SMT DEF Power24
<1>3. CASE n = 17
  BY <1>3, SMT DEF Power24
<1>4. CASE n = 18
  BY <1>4, SMT DEF Power24
<1>5. CASE n = 19
  BY <1>5, SMT DEF Power24
<1>6. CASE n = 20
  BY <1>6, SMT DEF Power24
<1>7. CASE n = 21
  BY <1>7, SMT DEF Power24
<1>8. CASE n = 22
  BY <1>8, SMT DEF Power24
<1>9. CASE n = 23
  BY <1>9, SMT DEF Power24
<1>10. CASE n = 24
  BY <1>10, SMT DEF Power24
<1> QED
  BY <1>1, <1>2, <1>3, <1>4, <1>5, <1>6, <1>7, <1>8, <1>9, <1>10

\* The powers of two up to the width of the bit buffer.
LEMMA PowerStep ==
  /\ \A n \in 0..24 : 2^n \in Nat /\ 1 <= 2^n
  /\ \A n \in 1..24 : 2^n = 2 * 2^(n - 1)
<1>1. \A n \in 16..24 : Power24[n + 1] \in Nat /\ 1 <= Power24[n + 1]
  BY SMT DEF Power24
<1>2. \A n \in 17..24 : Power24[n + 1] = 2 * Power24[(n - 1) + 1]
  BY SMT DEF Power24
<1>3. \A n \in 17..24 : n \in 16..24 /\ n - 1 \in 16..24
  OBVIOUS
<1> HIDE DEF Power24
<1>4. \A n \in 16..24 : 2^n \in Nat /\ 1 <= 2^n
  BY <1>1, PowersUpTo24
<1>5. \A n \in 17..24 : 2^n = 2 * 2^(n - 1)
  BY <1>2, <1>3, PowersUpTo24
<1>6. \A n \in 0..24 : n \in 0..16 \/ n \in 16..24
  OBVIOUS
<1>7. \A n \in 1..24 : n \in 1..16 \/ n \in 17..24
  OBVIOUS
<1> QED
  BY <1>4, <1>5, <1>6, <1>7, PowersGrow

LEMMA PowerSum ==
  ASSUME NEW m \in Nat, NEW n \in Nat, m + n <= 24
  PROVE  2^m * 2^n = 2^(m + n)
<1> DEFINE S == {k \in 0..m : 2^k * 2^n = 2^(k + n)}
<1>1. n \in 0..24 /\ 2^n \in Nat /\ 0 + n = n
  <2>1. n \in 0..24 /\ 0 + n = n
    OBVIOUS
  <2> QED
    BY <2>1, PowerStep
<1>2. 0 \in S
  <2>1. 2^0 = 1 /\ 1 * 2^n = 2^n
    BY <1>1
  <2> QED
    BY <1>1, <2>1
<1>3. ASSUME NEW k \in 1..m, k - 1 \in S
      PROVE  k \in S
  <2>1. /\ k \in 1..24 /\ k - 1 \in 0..24 /\ k + n \in 1..24
        /\ (k + n) - 1 = (k - 1) + n /\ k \in 0..m
    OBVIOUS
  <2>2. 2^k = 2 * 2^(k - 1) /\ 2^(k + n) = 2 * 2^((k + n) - 1) /\ 2^(k - 1) \in Nat
    BY <2>1, PowerStep
  <2>3. 2^(k - 1) * 2^n = 2^((k - 1) + n)
    BY <1>3
  <2>4. \A a, b \in Nat : (2 * a) * b = 2 * (a * b)
    OBVIOUS
  <2>5. 2^k * 2^n = 2 * (2^(k - 1) * 2^n)
    BY <1>1, <2>2, <2>4
  <2> QED
    BY <2>1, <2>2, <2>3, <2>5
<1>4. m \in S
  <2>1. \A k \in 0..m : k \in S
    <3> HIDE DEF S
    <3> QED
      BY <1>2, <1>3, InductionUpTo
  <2> QED
    BY <2>1
<1> QED
  BY <1>4

-------------------------------------------------------------------------------
(* The tables. *)

\* The number of codes of at most l bits, as HuffSize counts them.
UpTo(bits) == CHOOSE f : f = [l \in 0..16 |-> IF l = 0 THEN 0 ELSE f[l - 1] + bits[l]]

LEMMA UpToDef ==
  ASSUME NEW bits, \A l \in 1..16 : bits[l] \in Nat
  PROVE  /\ UpTo(bits)[0] = 0
         /\ \A l \in 1..16 : UpTo(bits)[l] = UpTo(bits)[l - 1] + bits[l]
         /\ \A l \in 0..16 : UpTo(bits)[l] \in Nat
<1> DEFINE Body(f) == [l \in 0..16 |-> IF l = 0 THEN 0 ELSE f[l - 1] + bits[l]]
           F == [l \in 1..16 |-> [s \in Nat |-> s + bits[l]]]
           u == UpTo(bits)
<1>1. F \in [1..16 -> [Nat -> Nat]]
  OBVIOUS
<1>2. PICK g \in [0..16 -> Nat] : IsLoop(g, 16, 0, F)
  <2> HIDE DEF F
  <2> QED
    BY <1>1, LoopExists
<1>3. ASSUME NEW l \in 0..16
      PROVE  g[l] = IF l = 0 THEN 0 ELSE g[l - 1] + bits[l]
  <2>1. CASE l = 0
    BY <1>2, <2>1 DEF IsLoop
  <2>2. CASE l # 0
    <3>1. l \in 1..16 /\ l - 1 \in 0..16
      BY <2>2
    <3>2. g[l] = F[l][g[l - 1]] /\ g[l - 1] \in Nat
      <4> HIDE DEF F
      <4> QED
        BY <1>2, <3>1 DEF IsLoop
    <3> QED
      BY <2>2, <3>1, <3>2
  <2> QED
    BY <2>1, <2>2
<1>4. g = Body(g)
  BY <1>3
<1>5. u = Body(u)
  <2>1. u = CHOOSE f : f = Body(f)
    BY DEF UpTo
  <2> HIDE DEF Body, u
  <2> QED
    BY <1>4, <2>1
<1> HIDE DEF u
<1>6. u[0] = 0 /\ \A l \in 1..16 : u[l] = u[l - 1] + bits[l]
  BY <1>5
<1>7. \A l \in 0..16 : u[l] \in Nat
  <2>1. u[0] \in Nat
    BY <1>6
  <2>2. ASSUME NEW l \in 1..16, u[l - 1] \in Nat
        PROVE  u[l] \in Nat
    BY <1>6, <2>2
  <2> QED
    BY <2>1, <2>2, LoopInvariant
<1> QED
  BY <1>6, <1>7 DEF u

\* It grows with l.
LEMMA UpToMonotone ==
  ASSUME NEW bits, \A l \in 1..16 : bits[l] \in Nat,
         NEW a \in 0..16, NEW b \in 0..16, a <= b
  PROVE  UpTo(bits)[a] <= UpTo(bits)[b]
<1> DEFINE S == {l \in 0..16 : a <= l => UpTo(bits)[a] <= UpTo(bits)[l]}
           u == UpTo(bits)
<1>1. /\ u[0] = 0
      /\ \A l \in 1..16 : u[l] = u[l - 1] + bits[l]
      /\ \A l \in 0..16 : u[l] \in Nat
  BY UpToDef
<1> HIDE DEF u
<1>2. 0 \in S
  BY <1>1 DEF u
<1>3. ASSUME NEW l \in 1..16, l - 1 \in S
      PROVE  l \in S
  <2>1. l - 1 \in 0..16 /\ l \in 0..16 /\ u[l - 1] <= u[l]
    BY <1>1
  <2>2. CASE a = l
    BY <1>1, <2>1, <2>2 DEF u
  <2>3. CASE a # l
    BY <1>1, <1>3, <2>1, <2>3 DEF u
  <2> QED
    BY <2>2, <2>3
<1>4. b \in S
  <2> HIDE DEF S
  <2> QED
    BY <1>2, <1>3, InductionUpTo
<1> QED
  BY <1>4

\* compute_huffman_table's huff_size: a length of 1 to 16 bits for every code,
\* the short ones first.
LEMMA HuffSizeType ==
  ASSUME NEW bits, \A l \in 1..16 : bits[l] \in Nat
  PROVE  /\ HuffSize(bits) \in [1..UpTo(bits)[16] -> 1..16]
         /\ \A p \in 2..UpTo(bits)[16] : HuffSize(bits)[p - 1] <= HuffSize(bits)[p]
         /\ \A p \in 1..UpTo(bits)[16] : /\ UpTo(bits)[HuffSize(bits)[p] - 1] < p
                                         /\ p <= UpTo(bits)[HuffSize(bits)[p]]
<1> DEFINE u == UpTo(bits)
           n == u[16]
           size(p) == CHOOSE l \in 1..16 : u[l - 1] < p /\ p <= u[l]
<1>1. /\ u[0] = 0
      /\ \A l \in 0..16 : u[l] \in Nat
  BY UpToDef
<1>2. HuffSize(bits) = [p \in 1..n |-> size(p)]
  BY DEF HuffSize, UpTo
<1> HIDE DEF u
<1>3. ASSUME NEW p \in 1..n
      PROVE  size(p) \in 1..16 /\ u[size(p) - 1] < p /\ p <= u[size(p)]
  <2> DEFINE T == {l \in 0..16 : p <= u[l]}
  <2>1. 16 \in T
    BY <1>1
  <2>2. PICK l \in T : \A k \in T : l <= k
    <3>1. T \subseteq Nat /\ T # {}
      BY <2>1
    <3> HIDE DEF T
    <3> QED
      BY <3>1, LeastElement
  <2>3. l \in 1..16 /\ l - 1 \in 0..16
    BY <1>1, <2>2
  <2>4. u[l - 1] < p /\ p <= u[l]
    BY <1>1, <2>2, <2>3
  <2> QED
    BY <2>3, <2>4
<1> HIDE DEF size
<1>4. ASSUME NEW p \in 2..n
      PROVE  size(p - 1) <= size(p)
  <2>1. p \in 1..n /\ p - 1 \in 1..n
    BY <1>1
  <2> DEFINE a == size(p)
             b == size(p - 1)
  <2>2. /\ a \in 1..16 /\ p <= u[a]
        /\ b \in 1..16 /\ u[b - 1] < p - 1
    BY <1>3, <2>1
  <2> HIDE DEF a, b
  <2>3. SUFFICES ASSUME a < b
                 PROVE  FALSE
    BY <2>2 DEF a, b
  <2>4. u[a] <= u[b - 1]
    <3>1. a \in 0..16 /\ b - 1 \in 0..16 /\ a <= b - 1
      BY <2>2, <2>3
    <3> QED
      BY <3>1, UpToMonotone DEF u
  <2> QED
    BY <1>1, <2>2, <2>4
<1>5. n \in Nat
  BY <1>1
<1> HIDE DEF n
<1>6. HuffSize(bits) \in [1..n -> 1..16]
  BY <1>2, <1>3
<1>7. \A p \in 2..n : HuffSize(bits)[p - 1] <= HuffSize(bits)[p]
  BY <1>2, <1>4, <1>5
<1>8. \A p \in 1..n : u[HuffSize(bits)[p] - 1] < p /\ p <= u[HuffSize(bits)[p]]
  BY <1>2, <1>3, <1>5
<1> QED
  BY <1>6, <1>7, <1>8 DEF n, u

(* Codes as compute_huffman_table counts them: up within a length, shifted when *)
(* the length grows.                                                            *)
IsCanonical(n, size, code) ==
  /\ size \in [1..n -> 1..16] /\ code \in [1..n -> Int]
  /\ \A p \in 2..n : size[p - 1] <= size[p]
  /\ n >= 1 => code[1] = 0
  /\ \A p \in 2..n : code[p] = (code[p - 1] + 1) * 2^(size[p] - size[p - 1])

\* huff_code: a number for every code.
LEMMA HuffCodeType ==
  ASSUME NEW n \in Nat, NEW size \in [1..n -> 1..16],
         \A p \in 2..n : size[p - 1] <= size[p]
  PROVE  IsCanonical(n, size, HuffCode(size))
<1> DEFINE Body(f) == [p \in 1..n |-> IF p = 1 THEN 0
                                      ELSE (f[p - 1] + 1) * 2^(size[p] - size[p - 1])]
           code == CHOOSE f : f = Body(f)
<1>1. Len(size) = n
  OBVIOUS
<1>2. HuffCode(size) = [p \in 1..n |-> code[p]]
  BY <1>1 DEF HuffCode
<1>3. CASE n = 0
  BY <1>2, <1>3 DEF IsCanonical
<1>4. CASE n # 0
  <2> DEFINE m == n - 1
             shift(k) == 2^(size[k + 1] - size[k])
             F == [k \in 1..m |-> [s \in Int |-> (s + 1) * shift(k)]]
  <2>1. m \in Nat /\ n = m + 1
    BY <1>4
  <2>2. ASSUME NEW k \in 1..m
        PROVE  shift(k) \in Int
    <3>1. k + 1 \in 2..n /\ k \in 1..n /\ (k + 1) - 1 = k
      BY <2>1
    <3>2. size[k] <= size[k + 1] /\ size[k] \in 1..16 /\ size[k + 1] \in 1..16
      BY <3>1
    <3> DEFINE d == size[k + 1] - size[k]
    <3>3. d \in Nat
      <4>1. \A x, y \in 1..16 : x <= y => y - x \in Nat
        OBVIOUS
      <4> QED
        BY <3>2, <4>1, Zenon
    <3> HIDE DEF d
    <3>4. 2^d \in Int
      BY <3>3, Powers
    <3> QED
      BY <3>4 DEF d
  <2> HIDE DEF shift
  <2>3. F \in [1..m -> [Int -> Int]]
    BY <2>2
  <2>4. PICK g \in [0..m -> Int] : IsLoop(g, m, 0, F)
    <3>1. 0 \in Int
      OBVIOUS
    <3> HIDE DEF F, m
    <3> QED
      BY <2>1, <2>3, <3>1, LoopExists, Zenon
  <2> DEFINE h == [p \in 1..n |-> g[p - 1]]
  <2>5. ASSUME NEW p \in 1..n
        PROVE  h[p] = IF p = 1 THEN 0 ELSE (h[p - 1] + 1) * 2^(size[p] - size[p - 1])
    <3>1. CASE p = 1
      BY <2>1, <2>4, <3>1 DEF IsLoop
    <3>2. CASE p # 1
      <4> DEFINE j == p - 1
      <4>1. j \in 1..m /\ j \in 1..n /\ p = j + 1
        BY <2>1, <3>2
      <4>2. g[j - 1] \in Int /\ g[j] = F[j][g[j - 1]]
        <5>1. j - 1 \in 0..m
          BY <4>1
        <5> HIDE DEF F, j, m
        <5> QED
          BY <2>4, <4>1, <5>1 DEF IsLoop
      <4>3. F[j][g[j - 1]] = (g[j - 1] + 1) * shift(j)
        BY <4>1, <4>2
      <4>4. h[p] = g[j] /\ h[j] = g[j - 1]
        BY <4>1
      <4>5. shift(j) = 2^(size[p] - size[j])
        BY <4>1 DEF shift
      <4> QED
        BY <3>2, <4>2, <4>3, <4>4, <4>5
    <3> QED
      BY <3>1, <3>2
  <2>6. h = Body(h)
    <3>1. h = [p \in 1..n |-> h[p]]
      OBVIOUS
    <3> HIDE DEF h
    <3> QED
      BY <3>1, <2>5
  <2>7. code = Body(code)
    <3> HIDE DEF Body, h
    <3> QED
      BY <2>6
  <2> HIDE DEF code
  <2>8. \A p \in 1..n : code[p] = IF p = 1 THEN 0
                                   ELSE (code[p - 1] + 1) * 2^(size[p] - size[p - 1])
    BY <2>7
  <2> DEFINE c == [k \in 0..m |-> code[k + 1]]
  <2>9. \A k \in 0..m : c[k] \in Int
    <3>1. c[0] \in Int
      BY <2>1, <2>8
    <3>2. ASSUME NEW k \in 1..m, c[k - 1] \in Int
          PROVE  c[k] \in Int
      <4>1. k + 1 \in 1..n /\ k + 1 # 1 /\ (k + 1) - 1 = k /\ (k - 1) + 1 = k /\ k - 1 \in 0..m
        BY <2>1
      <4>2. c[k] = code[k + 1] /\ c[k - 1] = code[k]
        BY <4>1
      <4>3. code[k + 1] = (code[k] + 1) * shift(k)
        BY <2>8, <4>1 DEF shift
      <4> HIDE DEF c
      <4> QED
        BY <2>2, <3>2, <4>2, <4>3
    <3> HIDE DEF c, m
    <3> QED
      BY <2>1, <3>1, <3>2, LoopInvariant
  <2>10. ASSUME NEW p \in 1..n
         PROVE  code[p] \in Int
    <3>1. p - 1 \in 0..m /\ c[p - 1] = code[p]
      BY <2>1
    <3> HIDE DEF c, m
    <3> QED
      BY <2>9, <3>1
  <2> HIDE DEF m
  <2>11. HuffCode(size) \in [1..n -> Int]
    BY <1>2, <2>10
  <2>12. \A p \in 1..n : HuffCode(size)[p] = code[p]
    BY <1>2
  <2>13. ASSUME NEW p \in 2..n
         PROVE  HuffCode(size)[p] = (HuffCode(size)[p - 1] + 1) * 2^(size[p] - size[p - 1])
    <3>1. p \in 1..n /\ p - 1 \in 1..n /\ p # 1
      OBVIOUS
    <3> QED
      BY <2>8, <2>12, <3>1
  <2>14. HuffCode(size)[1] = 0
    <3>1. 1 \in 1..n
      BY <1>4
    <3> QED
      BY <2>8, <2>12, <3>1
  <2> QED
    BY <2>11, <2>13, <2>14 DEF IsCanonical
<1> QED
  BY <1>3, <1>4

\* The code words that begin with code[p] are as many as 16 - size[p] bits tell.
Space(size, p) == 2^(16 - size[p])

LEMMA SpaceType ==
  ASSUME NEW n \in Nat, NEW size \in [1..n -> 1..16], NEW p \in 1..n
  PROVE  Space(size, p) \in Nat /\ 1 <= Space(size, p)
<1>1. size[p] \in 1..16
  OBVIOUS
<1>2. 16 - size[p] \in 0..24
  <2>1. \A x \in 1..16 : 16 - x \in 0..24
    OBVIOUS
  <2> QED
    BY <1>1, <2>1, Zenon
<1> QED
  BY <1>2, PowerStep DEF Space

\* The next code begins where the words that begin with this one end.
LEMMA NextCode ==
  ASSUME NEW n \in Nat, NEW size, NEW code, IsCanonical(n, size, code), NEW p \in 2..n
  PROVE  code[p] * Space(size, p) = (code[p - 1] + 1) * Space(size, p - 1)
<1>1. p \in 1..n /\ p - 1 \in 1..n
  OBVIOUS
<1>2. /\ size[p] \in 1..16 /\ size[p - 1] \in 1..16 /\ code[p - 1] \in Int
      /\ size[p - 1] <= size[p]
      /\ code[p] = (code[p - 1] + 1) * 2^(size[p] - size[p - 1])
  BY <1>1 DEF IsCanonical
<1> DEFINE b == size[p]
           a == size[p - 1]
           c == code[p - 1] + 1
           d == b - a
           e == 16 - b
<1>3. d \in Nat /\ e \in Nat /\ d + e = 16 - a /\ d + e <= 24
  <2>1. \A x, y \in 1..16 :
          y <= x => /\ x - y \in Nat /\ 16 - x \in Nat
                    /\ (x - y) + (16 - x) = 16 - y /\ (x - y) + (16 - x) <= 24
    OBVIOUS
  <2> QED
    BY <1>2, <2>1, Zenon
<1>4. 2^d * 2^e = 2^(16 - a)
  <2> HIDE DEF d, e, a
  <2> QED
    BY <1>3, PowerSum
<1>5. c \in Int /\ 2^d \in Int /\ 2^e \in Int
  BY <1>2, <1>3, Powers
<1>6. code[p] = c * 2^d
  BY <1>2
<1>7. Space(size, p) = 2^e /\ Space(size, p - 1) = 2^(16 - a)
  BY DEF Space
<1> HIDE DEF a, b, c, d, e
<1>8. (c * 2^d) * 2^e = c * (2^d * 2^e)
  BY <1>5
<1> QED
  BY <1>4, <1>6, <1>7, <1>8 DEF c

\* The words of a code come before those of every later one.
LEMMA CodesApart ==
  ASSUME NEW n \in Nat, NEW size, NEW code, IsCanonical(n, size, code),
         NEW p \in 1..n, NEW q \in 1..n, p < q
  PROVE  (code[p] + 1) * Space(size, p) <= code[q] * Space(size, q)
<1> DEFINE from(k) == code[k] * Space(size, k)
           to(k) == (code[k] + 1) * Space(size, k)
           S == {k \in 0..n : k > p => to(p) <= from(k)}
<1>1. ASSUME NEW k \in 1..n
      PROVE  from(k) \in Int /\ to(k) \in Int /\ from(k) <= to(k)
  <2>1. code[k] \in Int /\ Space(size, k) \in Nat
    BY SpaceType DEF IsCanonical
  <2>2. \A x \in Int, y \in Nat : x * y \in Int /\ (x + 1) * y \in Int /\ x * y <= (x + 1) * y
    OBVIOUS
  <2> QED
    BY <2>1, <2>2
<1>2. ASSUME NEW k \in 2..n
      PROVE  from(k) = to(k - 1)
  BY NextCode
<1> HIDE DEF from, to
<1>3. 0 \in S
  OBVIOUS
<1>4. ASSUME NEW k \in 1..n, k - 1 \in S
      PROVE  k \in S
  <2>1. CASE k <= p
    BY <2>1
  <2>2. CASE k = p + 1
    <3>1. k \in 2..n /\ k - 1 = p
      BY <2>2
    <3> QED
      BY <1>1, <1>2, <3>1
  <2>3. CASE k > p + 1
    <3>1. k \in 2..n /\ k - 1 \in 1..n /\ k - 1 > p
      BY <2>3
    <3> QED
      BY <1>1, <1>2, <1>4, <3>1
  <2> QED
    BY <2>1, <2>2, <2>3
<1>5. \A k \in 0..n : k \in S
  <2> HIDE DEF S
  <2> QED
    BY <1>3, <1>4, InductionUpTo
<1> QED
  BY <1>5 DEF from, to

\* The words of 16 bits that begin with a code of length l, for all of them.
Weights(bits) == [l \in 1..16 |-> bits[l] * 2^(16 - l)]

LEMMA WeightsType ==
  ASSUME NEW bits, \A l \in 1..16 : bits[l] \in Nat
  PROVE  \A l \in 1..16 : Weights(bits)[l] \in Nat
<1>1. ASSUME NEW l \in 1..16
      PROVE  bits[l] * 2^(16 - l) \in Nat
  <2>1. 16 - l \in 0..24
    OBVIOUS
  <2>2. 2^(16 - l) \in Nat
    BY <2>1, PowerStep
  <2>3. \A a, b \in Nat : a * b \in Nat
    OBVIOUS
  <2> QED
    BY <2>2, <2>3
<1> QED
  BY <1>1 DEF Weights

\* Where no code is added no word is taken.
LEMMA SameWeight ==
  ASSUME NEW bits, \A l \in 1..16 : bits[l] \in Nat,
         NEW a \in 0..16, NEW b \in 0..16, a <= b, UpTo(bits)[a] = UpTo(bits)[b]
  PROVE  UpTo(Weights(bits))[a] = UpTo(Weights(bits))[b]
<1> DEFINE u == UpTo(bits)
           w == UpTo(Weights(bits))
           S == {l \in 0..16 : a <= l /\ l <= b => w[l] = w[a]}
<1>1. /\ \A l \in 1..16 : u[l] = u[l - 1] + bits[l]
      /\ \A l \in 0..16 : u[l] \in Nat
  BY UpToDef
<1>2. /\ \A l \in 1..16 : w[l] = w[l - 1] + Weights(bits)[l]
      /\ \A l \in 0..16 : w[l] \in Nat
  BY WeightsType, UpToDef
<1>3. ASSUME NEW x \in 0..16, NEW y \in 0..16, x <= y
      PROVE  u[x] <= u[y]
  BY <1>3, UpToMonotone
<1>4. u[a] = u[b]
  OBVIOUS
<1> HIDE DEF u, w
<1>5. 0 \in S
  OBVIOUS
<1>6. ASSUME NEW l \in 1..16, l - 1 \in S
      PROVE  l \in S
  <2>1. SUFFICES ASSUME a < l, l <= b
                 PROVE  w[l] = w[a]
    OBVIOUS
  <2>2. l - 1 \in 0..16 /\ l \in 0..16 /\ a <= l - 1 /\ l - 1 <= b
    BY <2>1
  <2>3. u[a] <= u[l - 1] /\ u[l] <= u[b]
    BY <1>3, <2>1, <2>2
  <2>4. bits[l] = 0
    <3>1. /\ u[a] \in Nat /\ u[b] \in Nat /\ u[l] \in Nat /\ u[l - 1] \in Nat
          /\ u[l] = u[l - 1] + bits[l] /\ bits[l] \in Nat
      BY <1>1, <2>2
    <3> HIDE DEF S
    <3> QED
      BY <1>4, <2>3, <3>1
  <2>5. Weights(bits)[l] = 0
    <3>1. 16 - l \in Nat
      OBVIOUS
    <3>2. 2^(16 - l) \in Int
      BY <3>1, Powers
    <3> QED
      BY <2>4, <3>2 DEF Weights
  <2>6. w[l - 1] = w[a]
    BY <1>6, <2>2
  <2> QED
    BY <1>2, <2>2, <2>5, <2>6
<1>7. \A l \in 0..16 : l \in S
  <2> HIDE DEF S
  <2> QED
    BY <1>5, <1>6, InductionUpTo
<1> QED
  BY <1>7 DEF w

\* A code is the room that the shorter codes take and those of its length
\* before it.
LEMMA CodeAt ==
  ASSUME NEW bits, \A l \in 1..16 : bits[l] \in Nat,
         NEW size, NEW code, IsCanonical(UpTo(bits)[16], size, code),
         \A p \in 1..UpTo(bits)[16] : UpTo(bits)[size[p] - 1] < p /\ p <= UpTo(bits)[size[p]],
         NEW q \in 1..UpTo(bits)[16]
  PROVE  /\ size[q] \in 1..16 /\ code[q] \in Int
         /\ code[q] * Space(size, q)
              = UpTo(Weights(bits))[size[q] - 1]
                + (q - 1 - UpTo(bits)[size[q] - 1]) * Space(size, q)
<1> DEFINE n == UpTo(bits)[16]
           u == UpTo(bits)
           w == UpTo(Weights(bits))
           before(p) == u[size[p] - 1]
           below(p) == w[size[p] - 1]
           S == {p \in 0..n : p >= 1 => code[p] * Space(size, p)
                                          = below(p) + (p - 1 - before(p)) * Space(size, p)}
<1>1. /\ u[0] = 0
      /\ \A l \in 1..16 : u[l] = u[l - 1] + bits[l]
      /\ \A l \in 0..16 : u[l] \in Nat
  BY UpToDef
<1>2. /\ w[0] = 0
      /\ \A l \in 1..16 : w[l] = w[l - 1] + Weights(bits)[l]
      /\ \A l \in 0..16 : w[l] \in Nat
  BY WeightsType, UpToDef
<1>3. ASSUME NEW x \in 0..16, NEW y \in 0..16, x <= y
      PROVE  /\ u[x] <= u[y] /\ w[x] <= w[y]
             /\ u[x] = u[y] => w[x] = w[y]
  BY <1>3, UpToMonotone, WeightsType, SameWeight
<1>4. n \in Nat /\ IsCanonical(n, size, code)
  BY <1>1
<1>5. ASSUME NEW p \in 1..n
      PROVE  /\ size[p] \in 1..16 /\ size[p] - 1 \in 0..16 /\ size[p] \in 0..16
             /\ code[p] \in Int /\ Space(size, p) \in Nat
             /\ before(p) < p /\ p <= u[size[p]]
             /\ before(p) \in Nat /\ below(p) \in Nat
             /\ u[size[p]] = before(p) + bits[size[p]] /\ bits[size[p]] \in Nat
             /\ w[size[p]] = below(p) + bits[size[p]] * Space(size, p)
  <2>1. size[p] \in 1..16 /\ code[p] \in Int
    BY <1>4 DEF IsCanonical
  <2>2. size[p] - 1 \in 0..16 /\ size[p] \in 0..16
    BY <2>1
  <2>3. Space(size, p) \in Nat
    BY <1>4, SpaceType DEF IsCanonical
  <2>4. Weights(bits)[size[p]] = bits[size[p]] * Space(size, p)
    BY <2>1 DEF Weights, Space
  <2>5. before(p) < p /\ p <= u[size[p]]
    OBVIOUS
  <2> HIDE DEF u, w, n
  <2> QED
    BY <1>1, <1>2, <2>1, <2>2, <2>3, <2>4, <2>5
<1> HIDE DEF n, u, w, before, below
<1>6. 0 \in S
  BY <1>4
<1>7. ASSUME NEW p \in 1..n, p - 1 \in S
      PROVE  p \in S
  <2>1. CASE p = 1
    <3>1. code[p] = 0 /\ n >= 1
      BY <1>4, <2>1 DEF IsCanonical
    <3>2. before(p) = 0
      BY <1>5, <2>1
    <3>3. below(p) = 0
      <4>1. 0 \in 0..16 /\ size[p] - 1 \in 0..16 /\ 0 <= size[p] - 1
        BY <1>5
      <4>2. u[0] = u[size[p] - 1]
        BY <1>1, <3>2 DEF before
      <4> QED
        BY <1>2, <1>3, <4>1, <4>2 DEF below
    <3>4. (p - 1 - before(p)) * Space(size, p) = 0 /\ code[p] * Space(size, p) = 0
      <4>1. \A x \in Int : 0 * x = 0
        OBVIOUS
      <4>2. p - 1 - before(p) = 0 /\ Space(size, p) \in Int
        BY <1>5, <2>1, <3>2
      <4> QED
        BY <3>1, <4>1, <4>2
    <3> QED
      BY <3>3, <3>4
  <2>2. CASE p # 1
    <3> DEFINE o == p - 1
    <3>1. p \in 2..n /\ o \in 1..n
      BY <1>4, <2>2
    <3>2. code[p] * Space(size, p) = (code[o] + 1) * Space(size, o)
      BY <1>4, <3>1, NextCode
    <3>3. code[o] * Space(size, o) = below(o) + (o - 1 - before(o)) * Space(size, o)
      BY <1>7, <3>1
    <3>4. (code[o] + 1) * Space(size, o) = below(o) + (o - before(o)) * Space(size, o)
      <4>1. \A c, s, v, d \in Int : c * s = v + (d - 1) * s => (c + 1) * s = v + d * s
        OBVIOUS
      <4>2. code[o] \in Int /\ Space(size, o) \in Int /\ below(o) \in Int /\ o - before(o) \in Int
            /\ o - 1 - before(o) = (o - before(o)) - 1
        BY <1>5, <3>1
      <4> HIDE DEF o, S
      <4> QED
        BY <3>3, <4>1, <4>2
    <3>5. size[o] <= size[p]
      BY <1>4, <3>1 DEF IsCanonical
    <3>6. CASE size[o] = size[p]
      <4>1. below(o) = below(p) /\ before(o) = before(p) /\ Space(size, o) = Space(size, p)
        BY <3>6 DEF below, before, Space
      <4> QED
        BY <3>2, <3>4, <4>1
    <3>7. CASE size[o] # size[p]
      <4>1. size[o] \in 0..16 /\ size[p] - 1 \in 0..16 /\ size[o] <= size[p] - 1
        BY <1>5, <3>1, <3>5, <3>7
      <4>2. u[size[o]] <= before(p)
        BY <1>3, <4>1 DEF before
      <4>3. o <= u[size[o]] /\ u[size[o]] \in Nat /\ before(p) \in Nat /\ before(p) < p
        BY <1>1, <1>5, <3>1, <4>1
      <4>4. o = u[size[o]] /\ o = before(p)
        BY <3>1, <4>2, <4>3
      <4>5. w[size[o]] = below(p)
        <5>1. u[size[o]] = u[size[p] - 1]
          BY <4>4 DEF before
        <5> QED
          BY <1>3, <4>1, <5>1 DEF below
      <4>6. o - before(o) = bits[size[o]]
        BY <1>5, <3>1, <4>4
      <4>7. (code[o] + 1) * Space(size, o) = below(p)
        BY <1>5, <3>1, <3>4, <4>5, <4>6
      <4>8. (p - 1 - before(p)) * Space(size, p) = 0 /\ below(p) \in Nat
        <5>1. p - 1 - before(p) = 0
          BY <1>5, <4>4
        <5> QED
          BY <1>5, <5>1
      <4> HIDE DEF o
      <4> QED
        BY <3>2, <4>7, <4>8
    <3> QED
      BY <3>6, <3>7
  <2> QED
    BY <2>1, <2>2
<1>8. \A p \in 0..n : p \in S
  <2> HIDE DEF S
  <2> QED
    BY <1>4, <1>6, <1>7, InductionUpTo
<1>9. q \in 1..n
  BY DEF n
<1>10. code[q] * Space(size, q) = below(q) + (q - 1 - before(q)) * Space(size, q)
  BY <1>8, <1>9
<1> QED
  BY <1>5, <1>9, <1>10, Zenon DEF n, u, w, before, below

\* A code and the words that begin with it have room in 16 bits when all the
\* codes of its table have.
LEMMA CodesFit ==
  ASSUME NEW bits, \A l \in 1..16 : bits[l] \in Nat,
         NEW size, NEW code, IsCanonical(UpTo(bits)[16], size, code),
         \A p \in 1..UpTo(bits)[16] : UpTo(bits)[size[p] - 1] < p /\ p <= UpTo(bits)[size[p]],
         NEW q \in 1..UpTo(bits)[16]
  PROVE  /\ (code[q] + 1) * Space(size, q) <= UpTo(Weights(bits))[16]
         /\ code[q] >= 0
<1> DEFINE n == UpTo(bits)[16]
           u == UpTo(bits)
           w == UpTo(Weights(bits))
           before(p) == u[size[p] - 1]
           below(p) == w[size[p] - 1]
<1>1. /\ u[0] = 0
      /\ \A l \in 1..16 : u[l] = u[l - 1] + bits[l]
      /\ \A l \in 0..16 : u[l] \in Nat
  BY UpToDef
<1>2. /\ w[0] = 0
      /\ \A l \in 1..16 : w[l] = w[l - 1] + Weights(bits)[l]
      /\ \A l \in 0..16 : w[l] \in Nat
  BY WeightsType, UpToDef
<1>3. ASSUME NEW x \in 0..16, NEW y \in 0..16, x <= y
      PROVE  /\ u[x] <= u[y] /\ w[x] <= w[y]
             /\ u[x] = u[y] => w[x] = w[y]
  BY <1>3, UpToMonotone, WeightsType, SameWeight
<1>4. n \in Nat /\ IsCanonical(n, size, code)
  BY <1>1
<1>5. ASSUME NEW p \in 1..n
      PROVE  /\ size[p] \in 1..16 /\ size[p] - 1 \in 0..16 /\ size[p] \in 0..16
             /\ code[p] \in Int /\ Space(size, p) \in Nat
             /\ before(p) < p /\ p <= u[size[p]]
             /\ before(p) \in Nat /\ below(p) \in Nat
             /\ u[size[p]] = before(p) + bits[size[p]] /\ bits[size[p]] \in Nat
             /\ w[size[p]] = below(p) + bits[size[p]] * Space(size, p)
  <2>1. size[p] \in 1..16 /\ code[p] \in Int
    BY <1>4 DEF IsCanonical
  <2>2. size[p] - 1 \in 0..16 /\ size[p] \in 0..16
    BY <2>1
  <2>3. Space(size, p) \in Nat
    BY <1>4, SpaceType DEF IsCanonical
  <2>4. Weights(bits)[size[p]] = bits[size[p]] * Space(size, p)
    BY <2>1 DEF Weights, Space
  <2>5. before(p) < p /\ p <= u[size[p]]
    OBVIOUS
  <2> HIDE DEF u, w, n
  <2> QED
    BY <1>1, <1>2, <2>1, <2>2, <2>3, <2>4, <2>5
<1>10. code[q] * Space(size, q) = below(q) + (q - 1 - before(q)) * Space(size, q)
  BY CodeAt
<1> HIDE DEF n, u, w, before, below
<1>9. q \in 1..n
  BY DEF n
<1>11. (code[q] + 1) * Space(size, q) <= w[size[q]]
  <2> DEFINE c == code[q]
             s == Space(size, q)
             v == below(q)
             d == before(q)
             b == bits[size[q]]
  <2>1. /\ c \in Int /\ s \in Nat /\ v \in Nat /\ d \in Nat /\ b \in Nat
        /\ q <= d + b /\ w[size[q]] = v + b * s /\ q \in Nat
    BY <1>5, <1>9
  <2>2. c * s = v + (q - 1 - d) * s
    BY <1>10
  <2> HIDE DEF c, s, v, d, b
  <2>3. (c + 1) * s = v + (q - d) * s
    BY <2>1, <2>2
  <2>4. (q - d) * s <= b * s
    <3>1. \A x, y \in Int, z \in Nat : x <= y => x * z <= y * z
      OBVIOUS
    <3> QED
      BY <2>1, <3>1
  <2> QED
    BY <2>1, <2>3, <2>4 DEF c, s
<1>12. w[size[q]] <= w[16]
  <2>1. size[q] \in 0..16 /\ 16 \in 0..16 /\ size[q] <= 16
    BY <1>5, <1>9
  <2> QED
    BY <1>3, <2>1
<1>13. code[q] >= 0
  <2>1. below(q) + (q - 1 - before(q)) * Space(size, q) >= 0
    <3>1. \A x, y, z \in Nat : x + y * z >= 0
      OBVIOUS
    <3>2. q - 1 - before(q) \in Nat
      BY <1>5, <1>9
    <3> QED
      BY <1>5, <1>9, <3>1, <3>2
  <2>2. code[q] \in Int /\ Space(size, q) \in Nat /\ 1 <= Space(size, q)
    BY <1>4, <1>5, <1>9, SpaceType DEF IsCanonical
  <2>3. \A x \in Int, y \in Nat : 1 <= y /\ x * y >= 0 => x >= 0
    OBVIOUS
  <2> QED
    BY <1>10, <2>1, <2>2, <2>3
<1>14. (code[q] + 1) * Space(size, q) \in Int /\ w[size[q]] \in Nat /\ w[16] \in Nat
  <2>1. code[q] \in Int /\ Space(size, q) \in Int /\ size[q] \in 0..16
    BY <1>5, <1>9
  <2> QED
    BY <1>2, <2>1
<1> QED
  BY <1>11, <1>12, <1>13, <1>14 DEF w

(* A code word: some bits and how many of them are to be written; the bits are  *)
(* no more than that.                                                           *)
CodeWord == {w \in [bits : Int, size : 0..16] : 0 <= w.bits /\ w.bits < 2^w.size}

LEMMA CodeWordOf ==
  ASSUME NEW b \in Int, 0 <= b, NEW l \in 0..16, b < 2^l
  PROVE  [bits |-> b, size |-> l] \in CodeWord
<1> DEFINE w == [bits |-> b, size |-> l]
<1>1. w.bits = b /\ w.size = l
  OBVIOUS
<1>2. w \in [bits : Int, size : 0..16]
  OBVIOUS
<1> QED
  BY <1>1, <1>2 DEF CodeWord

\* A code of a table, not one of ones only.
IsCode(w) == w \in CodeWord /\ w.size >= 1 /\ w.bits + 1 < 2^w.size

\* A reader that expects w finds it where v has been written.
BeginsWith(v, w) == w.size <= v.size /\ v.bits \div 2^(v.size - w.size) = w.bits

\* The table has the codes of its list and no others.
TableWord(size, code, p) == [bits |-> code[p], size |-> size[p]]
IsTableOf(table, n, val, size, code) ==
  /\ table = [v \in 0..255 |-> table[v]]
  /\ \A p \in 1..n : val[p] \in 0..255 => table[val[p]].size # 0
  /\ \A v \in 0..255 : \/ table[v] = [bits |-> 0, size |-> 0]
                       \/ \E p \in 1..n : val[p] = v /\ table[v] = TableWord(size, code, p)

LEMMA HuffmanTableOf ==
  ASSUME NEW n \in Nat, NEW size, NEW code, IsCanonical(n, size, code),
         NEW val, Len(val) = n, NEW bits, HuffSize(bits) = size, HuffCode(size) = code
  PROVE  IsTableOf(compute_huffman_table(bits, val), n, val, size, code)
<1> DEFINE at == [v \in {val[p] : p \in 1..n} |-> CHOOSE p \in 1..n : val[p] = v]
           table == [v \in 0..255 |-> IF v \in DOMAIN at
                                   THEN [bits |-> code[at[v]], size |-> size[at[v]]]
                                   ELSE [bits |-> 0, size |-> 0]]
<1>1. compute_huffman_table(bits, val) = table
  BY DEF compute_huffman_table
<1>2. ASSUME NEW v \in {val[p] : p \in 1..n}
      PROVE  at[v] \in 1..n /\ val[at[v]] = v
  <2>1. \E p \in 1..n : val[p] = v
    OBVIOUS
  <2> QED
    BY <2>1
<1>3. DOMAIN at = {val[p] : p \in 1..n}
  OBVIOUS
<1> HIDE DEF at
<1>4. \A p \in 1..n : size[p] \in 1..16
  BY DEF IsCanonical
<1>5. ASSUME NEW v \in 0..255, v \in DOMAIN at
      PROVE  /\ table[v] = TableWord(size, code, at[v])
             /\ at[v] \in 1..n /\ val[at[v]] = v /\ table[v].size # 0
  <2>1. table[v] = TableWord(size, code, at[v])
    BY <1>5 DEF TableWord
  <2>2. at[v] \in 1..n /\ val[at[v]] = v
    BY <1>2, <1>3, <1>5
  <2>3. TableWord(size, code, at[v]).size = size[at[v]] /\ size[at[v]] \in 1..16
    BY <1>4, <2>2 DEF TableWord
  <2>4. 0 \notin 1..16
    OBVIOUS
  <2> HIDE DEF table
  <2> QED
    BY <2>1, <2>2, <2>3, <2>4
<1>6. ASSUME NEW v \in 0..255, v \notin DOMAIN at
      PROVE  table[v] = [bits |-> 0, size |-> 0]
  BY <1>6
<1>7. table = [v \in 0..255 |-> table[v]]
  OBVIOUS
<1> HIDE DEF table
<1>8. \A p \in 1..n : val[p] \in 0..255 => table[val[p]].size # 0
  BY <1>3, <1>5
<1> QED
  BY <1>1, <1>5, <1>6, <1>7, <1>8, Zenon DEF IsTableOf

LEMMA CodeBounded ==
  ASSUME NEW b \in Nat, NEW l \in Nat, l <= 16, (b + 1) * 2^(16 - l) < 2^16
  PROVE  b + 1 < 2^l
<1> DEFINE m == 16 - l
           s == 2^m
           r == 2^l
           a == 2^16
<1>1. m \in Nat /\ l + m = 16 /\ l + m <= 24
  OBVIOUS
<1> HIDE DEF m
<1>2. 2^l * 2^m = 2^16
  BY <1>1, PowerSum
<1>3. l \in 0..24 /\ m \in 0..24
  BY <1>1
<1>4. r \in Nat /\ s \in Nat
  BY <1>3, PowerStep
<1>5. r * s = a /\ (b + 1) * s < a
  BY <1>2 DEF m
<1> HIDE DEF r, s, a
<1>6. SUFFICES ASSUME ~(b + 1 < r)
               PROVE  FALSE
  BY DEF r
<1>7. r <= b + 1 /\ b + 1 \in Nat
  BY <1>4, <1>6
<1>8. \A x, y, z \in Nat : x <= y => x * z <= y * z
  OBVIOUS
<1>9. r * s <= (b + 1) * s /\ r * s \in Nat /\ (b + 1) * s \in Nat
  BY <1>4, <1>7, <1>8
<1> QED
  BY <1>5, <1>9

LEMMA NotBefore ==
  ASSUME NEW x \in Nat, NEW y \in Nat, NEW d \in Nat, 1 <= d, NEW s \in Nat, 1 <= s,
         (x + 1) * (d * s) <= y * s
  PROVE  y \div d # x
<1>1. (x + 1) * (d * s) = ((x + 1) * d) * s
  OBVIOUS
<1>2. (x + 1) * d \in Nat
  OBVIOUS
<1>3. \A e, f, g \in Nat : 1 <= g /\ e * g <= f * g => e <= f
  OBVIOUS
<1>4. (x + 1) * d <= y
  BY <1>1, <1>2, <1>3
<1>5. \A e, f, g \in Nat : 1 <= g /\ e * g <= f => e <= f \div g
  OBVIOUS
<1>6. x + 1 <= y \div d
  BY <1>4, <1>5
<1>7. y \div d \in Nat
  OBVIOUS
<1> QED
  BY <1>6, <1>7

LEMMA LengthsGrow ==
  ASSUME NEW n \in Nat, NEW size \in [1..n -> 1..16], \A k \in 2..n : size[k - 1] <= size[k],
         NEW p \in 1..n, NEW q \in 1..n, p < q
  PROVE  size[p] <= size[q]
<1> DEFINE S == {k \in 0..n : k > p => size[p] <= size[k]}
<1>1. \A k \in 1..n : size[k] \in Int
  BY SMTT(30)
<1>2. 0 \in S
  OBVIOUS
<1>3. ASSUME NEW k \in 1..n, k - 1 \in S
      PROVE  k \in S
  <2>1. SUFFICES ASSUME k > p
                 PROVE  size[p] <= size[k]
    OBVIOUS
  <2>2. k \in 2..n /\ k - 1 \in 1..n /\ size[k - 1] <= size[k]
    BY <2>1
  <2>3. CASE k - 1 = p
    BY <2>2, <2>3
  <2>4. CASE k - 1 > p
    <3>1. size[p] <= size[k - 1]
      BY <1>3, <2>4
    <3>2. size[p] \in Int /\ size[k - 1] \in Int /\ size[k] \in Int
      BY <1>1, <2>2
    <3> HIDE DEF S
    <3> QED
      BY <2>2, <3>1, <3>2
  <2> QED
    BY <2>1, <2>3, <2>4
<1>4. \A k \in 0..n : k \in S
  <2> HIDE DEF S
  <2> QED
    BY <1>2, <1>3, InductionUpTo
<1> QED
  BY <1>4

\* No code of the list is the beginning of another one.
LEMMA NoBeginning ==
  ASSUME NEW n \in Nat, NEW size, NEW code, IsCanonical(n, size, code),
         \A k \in 1..n : code[k] >= 0,
         NEW p \in 1..n, NEW q \in 1..n, p # q
  PROVE  ~BeginsWith(TableWord(size, code, q), TableWord(size, code, p))
<1> DEFINE x == code[p]
           y == code[q]
           a == size[p]
           b == size[q]
           d == 2^(b - a)
           s == 2^(16 - b)
<1>1. SUFFICES ASSUME a <= b, y \div d = x
               PROVE  FALSE
  BY DEF BeginsWith, TableWord
<1>2. x \in Nat /\ y \in Nat /\ a \in 1..16 /\ b \in 1..16
  BY DEF IsCanonical
<1>4. /\ b - a \in Nat /\ 16 - b \in Nat
      /\ b - a \in 0..24 /\ 16 - b \in 0..24
      /\ (b - a) + (16 - b) = 16 - a /\ (b - a) + (16 - b) <= 24
  <2>1. \A e, f \in 1..16 :
          f <= e => /\ e - f \in Nat /\ 16 - e \in Nat
                    /\ e - f \in 0..24 /\ 16 - e \in 0..24
                    /\ (e - f) + (16 - e) = 16 - f /\ (e - f) + (16 - e) <= 24
    OBVIOUS
  <2> QED
    BY <1>1, <1>2, <2>1, Zenon
<1>5. d \in Nat /\ 1 <= d /\ s \in Nat /\ 1 <= s
  BY <1>4, PowerStep
<1>6. d * s = 2^(16 - a)
  <2> HIDE DEF a, b
  <2> QED
    BY <1>4, PowerSum
<1>7. Space(size, p) = d * s /\ Space(size, q) = s
  BY <1>6 DEF Space
<1>8. CASE p < q
  <2>1. (x + 1) * (d * s) <= y * s
    BY <1>7, <1>8, CodesApart
  <2> HIDE DEF x, y, d, s
  <2> QED
    BY <1>1, <1>2, <1>5, <2>1, NotBefore
<1>9. CASE q < p
  <2>1. size[q] <= size[p]
    BY <1>9, LengthsGrow DEF IsCanonical
  <2>2. a = b
    BY <1>1, <1>2, <2>1
  <2>3. (y + 1) * s <= x * (d * s)
    BY <1>7, <1>9, CodesApart
  <2>4. d = 1
    <3>1. b - a = 0 /\ 2^0 = 1
      BY <1>2, <2>2
    <3> QED
      BY <3>1
  <2> HIDE DEF x, y, a, b, d, s
  <2>5. y = x
    BY <1>1, <1>2, <2>4
  <2>6. (x + 1) * s = x * s + s /\ x * s \in Nat /\ d * s = s
    BY <1>2, <1>5, <2>4
  <2> QED
    BY <1>5, <2>3, <2>5, <2>6
<1> QED
  BY <1>8, <1>9

\* compute_huffman_table has a word for every symbol.  Those of its list have a
\* code, and no code is the beginning of another one: a reader knows where it ends.
IsPrefixFree(table) ==
  \A x, y \in 0..255 : x # y /\ table[x].size # 0 => ~BeginsWith(table[y], table[x])

LEMMA HuffmanTableType ==
  ASSUME NEW bits, \A l \in 1..16 : bits[l] \in Nat,
         NEW val, Len(val) = UpTo(bits)[16],
         UpTo(Weights(bits))[16] < 2^16
  PROVE  LET table == compute_huffman_table(bits, val)
         IN  /\ table \in [0..255 -> CodeWord]
             /\ \A v \in 0..255 : table[v].size # 0 => IsCode(table[v])
             /\ \A p \in 1..Len(val) : val[p] \in 0..255 => IsCode(table[val[p]])
             /\ IsPrefixFree(table)
<1> DEFINE n == UpTo(bits)[16]
           total == UpTo(Weights(bits))[16]
           size == HuffSize(bits)
           code == HuffCode(size)
           table == compute_huffman_table(bits, val)
           word(p) == TableWord(size, code, p)
<1>1. n \in Nat
  BY UpToDef
<1>2. total \in Nat
  <2>1. \A l \in 1..16 : Weights(bits)[l] \in Nat
    BY WeightsType
  <2> HIDE DEF n
  <2>2. \A l \in 0..16 : UpTo(Weights(bits))[l] \in Nat
    BY <2>1, UpToDef
  <2> QED
    BY <2>2
<1>3. total < 2^16
  OBVIOUS
<1> HIDE DEF total
<1>4. /\ size \in [1..n -> 1..16]
      /\ \A p \in 2..n : size[p - 1] <= size[p]
      /\ \A p \in 1..n : UpTo(bits)[size[p] - 1] < p /\ p <= UpTo(bits)[size[p]]
  BY HuffSizeType, Zenon
<1> HIDE DEF size
<1>5. IsCanonical(n, size, code)
  <2> HIDE DEF n
  <2> QED
    BY <1>1, <1>4, HuffCodeType, Zenon
<1>6. IsTableOf(table, n, val, size, code)
  <2>1. Len(val) = n
    OBVIOUS
  <2> HIDE DEF n
  <2> QED
    BY <1>1, <1>5, <2>1, HuffmanTableOf, Zenon DEF size
<1>7. ASSUME NEW p \in 1..n
      PROVE  (code[p] + 1) * Space(size, p) <= total /\ code[p] >= 0
  BY <1>4, <1>5, CodesFit, Zenon DEF total
<1> HIDE DEF code, table
<1>8. Len(val) = n
  OBVIOUS
<1> HIDE DEF n
<1>9. ASSUME NEW p \in 1..n
      PROVE  IsCode(word(p))
  <2> DEFINE b == code[p]
             l == size[p]
             s == 2^(16 - l)
  <2>1. b \in Nat /\ l \in Nat /\ 1 <= l /\ l <= 16
    <3>1. b \in Int /\ l \in 1..16
      BY <1>5 DEF IsCanonical
    <3> HIDE DEF b, l
    <3>2. b >= 0
      BY <1>7 DEF b
    <3> QED
      BY <3>1, <3>2
  <2>2. (b + 1) * s <= total
    BY <1>7 DEF Space
  <2> HIDE DEF b, l
  <2>3. (b + 1) * s \in Int
    <3>1. 16 - l \in Nat
      BY <2>1
    <3>2. s \in Int
      BY <3>1, Powers
    <3> QED
      BY <2>1, <3>2
  <2>4. 2^16 \in Int
    <3>1. 16 \in Nat
      OBVIOUS
    <3> QED
      BY <3>1, Powers
  <2>5. (b + 1) * s < 2^16
    <3> HIDE DEF s
    <3>1. \A x, y, z \in Int : x <= y /\ y < z => x < z
      OBVIOUS
    <3> QED
      BY <1>2, <1>3, <2>2, <2>3, <2>4, <3>1
  <2>6. b + 1 < 2^l
    BY <2>1, <2>5, CodeBounded
  <2>7. word(p) = [bits |-> b, size |-> l]
    BY DEF TableWord, b, l
  <2>8. l \in 0..16 /\ l \in Nat
    BY <2>1
  <2>9. 2^l \in Int
    BY <2>8, Powers
  <2>10. b < 2^l
    BY <2>1, <2>6, <2>9
  <2> HIDE DEF word
  <2>11. word(p) \in CodeWord /\ word(p).bits = b /\ word(p).size = l
    <3>1. b \in Int /\ 0 <= b
      BY <2>1
    <3>2. [bits |-> b, size |-> l] \in CodeWord
      BY <2>8, <2>10, <3>1, CodeWordOf
    <3>3. [bits |-> b, size |-> l].bits = b /\ [bits |-> b, size |-> l].size = l
      OBVIOUS
    <3> QED
      BY <2>7, <3>2, <3>3
  <2> QED
    BY <2>1, <2>6, <2>11 DEF IsCode
<1>10. ASSUME NEW p \in 1..n, NEW q \in 1..n, p # q
       PROVE  ~BeginsWith(word(q), word(p))
  BY <1>1, <1>5, <1>7, <1>10, NoBeginning
<1> DEFINE none == [bits |-> 0, size |-> 0]
<1>11. none \in CodeWord /\ none.size = 0
  <2>1. 0 < 2^0 /\ 0 \in 0..16 /\ 0 \in Int /\ 0 <= 0
    BY SMT
  <2>2. none \in CodeWord
    BY <2>1, CodeWordOf
  <2>3. none.size = 0
    OBVIOUS
  <2> QED
    BY <2>2, <2>3
<1> HIDE DEF none, word
<1>12. /\ \A p \in 1..n : val[p] \in 0..255 => table[val[p]].size # 0
       /\ \A v \in 0..255 : table[v] = none \/ \E p \in 1..n : val[p] = v /\ table[v] = word(p)
  BY <1>6, Zenon DEF IsTableOf, none, word
<1>13. ASSUME NEW v \in 0..255
       PROVE  table[v] \in CodeWord /\ (table[v].size # 0 => IsCode(table[v]))
  <2>1. \A w : IsCode(w) => w \in CodeWord
    BY DEF IsCode
  <2> QED
    BY <1>9, <1>11, <1>12, <2>1, ZenonT(40)
<1>14. ASSUME NEW p \in 1..Len(val), val[p] \in 0..255
       PROVE  IsCode(table[val[p]])
  BY <1>8, <1>12, <1>13, <1>14, Zenon
<1>15. ASSUME NEW x \in 0..255, NEW y \in 0..255, x # y, table[x].size # 0
       PROVE  ~BeginsWith(table[y], table[x])
  <2>1. PICK p \in 1..n : val[p] = x /\ table[x] = word(p)
    BY <1>11, <1>12, <1>15, Zenon
  <2>2. CASE table[y] = none
    <3>1. IsCode(table[x]) /\ table[x] \in CodeWord
      BY <1>13, <1>15
    <3> DEFINE a == table[x].size
    <3>2. a >= 1 /\ a \in 0..16
      BY <3>1 DEF IsCode, CodeWord
    <3> HIDE DEF a
    <3>3. ~(a <= 0)
      BY <3>2
    <3> QED
      BY <1>11, <2>2, <3>3, Zenon DEF BeginsWith, a
  <2>3. CASE \E q \in 1..n : val[q] = y /\ table[y] = word(q)
    BY <1>10, <1>15, <2>1, <2>3, Zenon
  <2> QED
    BY <1>12, <2>2, <2>3, Zenon
<1>16. table \in [0..255 -> CodeWord]
  <2>1. table = [v \in 0..255 |-> table[v]]
    BY <1>6, Zenon DEF IsTableOf
  <2> QED
    BY <1>13, <2>1, Zenon
<1> QED
  BY <1>13, <1>14, <1>15, <1>16, Zenon DEF table, IsPrefixFree

\* How many codes there are, and how many words of 16 bits begin with one of them.
Total(b) == b[1] + b[2] + b[3] + b[4] + b[5] + b[6] + b[7] + b[8]
            + b[9] + b[10] + b[11] + b[12] + b[13] + b[14] + b[15] + b[16]
Weight(b) == b[1] * 32768 + b[2] * 16384 + b[3] * 8192 + b[4] * 4096 + b[5] * 2048 + b[6] * 1024
             + b[7] * 512 + b[8] * 256 + b[9] * 128 + b[10] * 64 + b[11] * 32 + b[12] * 16
             + b[13] * 8 + b[14] * 4 + b[15] * 2 + b[16]

LEMMA UpToSum ==
  ASSUME NEW b, \A l \in 1..16 : b[l] \in Nat
  PROVE  UpTo(b)[16] = Total(b)
<1> DEFINE u == UpTo(b)
<1>1. u[0] = 0 /\ \A l \in 1..16 : u[l] = u[l - 1] + b[l] /\ b[l] \in Nat
  BY UpToDef
<1> HIDE DEF u
<1>2. /\ u[1] = b[1] /\ u[2] = u[1] + b[2] /\ u[3] = u[2] + b[3] /\ u[4] = u[3] + b[4]
      /\ u[5] = u[4] + b[5] /\ u[6] = u[5] + b[6] /\ u[7] = u[6] + b[7] /\ u[8] = u[7] + b[8]
  BY <1>1
<1>3. /\ u[9] = u[8] + b[9] /\ u[10] = u[9] + b[10] /\ u[11] = u[10] + b[11]
      /\ u[12] = u[11] + b[12] /\ u[13] = u[12] + b[13] /\ u[14] = u[13] + b[14]
      /\ u[15] = u[14] + b[15] /\ u[16] = u[15] + b[16]
  BY <1>1
<1> QED
  BY <1>2, <1>3 DEF u, Total

LEMMA WeightSum ==
  ASSUME NEW b, \A l \in 1..16 : b[l] \in Nat
  PROVE  UpTo(Weights(b))[16] = Weight(b)
<1> DEFINE w == Weights(b)
<1>1. \A l \in 1..16 : w[l] \in Nat
  BY WeightsType
<1>2. \A l \in 1..16 : w[l] = b[l] * 2^(16 - l)
  BY DEF Weights
<1>3. /\ w[1] = b[1] * 32768 /\ w[2] = b[2] * 16384 /\ w[3] = b[3] * 8192
      /\ w[4] = b[4] * 4096 /\ w[5] = b[5] * 2048 /\ w[6] = b[6] * 1024
  BY <1>2, SMT
<1>4. /\ w[7] = b[7] * 512 /\ w[8] = b[8] * 256 /\ w[9] = b[9] * 128 /\ w[10] = b[10] * 64
      /\ w[11] = b[11] * 32 /\ w[12] = b[12] * 16
  BY <1>2, SMT
<1>5. w[13] = b[13] * 8 /\ w[14] = b[14] * 4 /\ w[15] = b[15] * 2 /\ w[16] = b[16]
  BY <1>2, SMT
<1> HIDE DEF w
<1>6. UpTo(w)[16] = Total(w)
  BY <1>1, UpToSum
<1> QED
  BY <1>3, <1>4, <1>5, <1>6 DEF w, Total, Weight

\* A table as JPEG has them: how many codes of each length there are, as many
\* symbols, and room for the codes in 16 bits.
IsHuffmanSpec(b, v, n) == /\ b \in Seq(0..255) /\ v \in Seq(0..255)
                          /\ Len(b) = 16 /\ Len(v) = n /\ n \in {12, 162}
                          /\ Total(b) = n /\ Weight(b) < 65536

LEMMA StandardTables ==
  ASSUME NEW class \in {"DC", "AC"}, NEW t \in 1..2
  PROVE  \E n : IsHuffmanSpec(m_huff_bits[class][t], m_huff_val[class][t], n)
<1>1. IsHuffmanSpec(s_dc_lum_bits, s_dc_lum_val, 12)
  BY DEF IsHuffmanSpec, Total, Weight, s_dc_lum_bits, s_dc_lum_val
<1>2. IsHuffmanSpec(s_dc_chroma_bits, s_dc_chroma_val, 12)
  BY DEF IsHuffmanSpec, Total, Weight, s_dc_chroma_bits, s_dc_chroma_val
<1>3. IsHuffmanSpec(s_ac_lum_bits, s_ac_lum_val, 162)
  BY DEF IsHuffmanSpec, Total, Weight, s_ac_lum_bits, s_ac_lum_val
<1>4. IsHuffmanSpec(s_ac_chroma_bits, s_ac_chroma_val, 162)
  BY DEF IsHuffmanSpec, Total, Weight, s_ac_chroma_bits, s_ac_chroma_val
<1>5. t = 1 \/ t = 2
  OBVIOUS
<1>6. CASE class = "DC"
  <2>1. /\ m_huff_bits[class][1] = s_dc_lum_bits /\ m_huff_bits[class][2] = s_dc_chroma_bits
        /\ m_huff_val[class][1] = s_dc_lum_val /\ m_huff_val[class][2] = s_dc_chroma_val
    BY <1>6 DEF m_huff_bits, m_huff_val
  <2> QED
    BY <1>1, <1>2, <1>5, <2>1
<1>7. CASE class = "AC"
  <2>1. /\ m_huff_bits[class][1] = s_ac_lum_bits /\ m_huff_bits[class][2] = s_ac_chroma_bits
        /\ m_huff_val[class][1] = s_ac_lum_val /\ m_huff_val[class][2] = s_ac_chroma_val
    BY <1>7 DEF m_huff_bits, m_huff_val
  <2> QED
    BY <1>3, <1>4, <1>5, <2>1
<1> QED
  BY <1>6, <1>7

\* The encoder's codes: one for each symbol of the lists, and no code is the
\* beginning of another one.
LEMMA HuffmanCodes ==
  ASSUME NEW class \in {"DC", "AC"}, NEW t \in 1..2
  PROVE  /\ m_huff_codes[class][t] \in [0..255 -> CodeWord]
         /\ \A v \in 0..255 : m_huff_codes[class][t][v].size # 0
                              => IsCode(m_huff_codes[class][t][v])
         /\ \A p \in 1..Len(m_huff_val[class][t]) :
              IsCode(m_huff_codes[class][t][m_huff_val[class][t][p]])
         /\ IsPrefixFree(m_huff_codes[class][t])
<1> DEFINE b == m_huff_bits[class][t]
           v == m_huff_val[class][t]
           table == compute_huffman_table(b, v)
<1>1. m_huff_codes[class][t] = table
  BY DEF m_huff_codes
<1>2. PICK n : IsHuffmanSpec(b, v, n)
  BY StandardTables
<1> HIDE DEF b, v
<1>3. b \in Seq(0..255) /\ Len(b) = 16
  BY <1>2 DEF IsHuffmanSpec
<1>4. \A l \in 1..16 : b[l] \in Nat
  <2>1. ASSUME NEW l \in 1..16
        PROVE  b[l] \in Nat
    <3>1. b[l] \in 0..255
      BY <1>3, ElementOfSeq
    <3>2. 0..255 \subseteq Nat
      OBVIOUS
    <3> QED
      BY <3>1, <3>2, Zenon
  <2> QED
    BY <2>1
<1>5. Len(v) = UpTo(b)[16]
  <2>1. UpTo(b)[16] = Total(b)
    BY <1>4, UpToSum
  <2> QED
    BY <1>2, <2>1 DEF IsHuffmanSpec
<1>6. UpTo(Weights(b))[16] < 2^16
  <2>1. UpTo(Weights(b))[16] = Weight(b)
    BY <1>4, WeightSum
  <2>2. Weight(b) < 65536
    BY <1>2 DEF IsHuffmanSpec
  <2>3. 2^16 = 65536
    BY SMT
  <2> QED
    BY <2>1, <2>2, <2>3
<1>7. /\ table \in [0..255 -> CodeWord]
      /\ \A x \in 0..255 : table[x].size # 0 => IsCode(table[x])
      /\ \A p \in 1..Len(v) : v[p] \in 0..255 => IsCode(table[v[p]])
      /\ IsPrefixFree(table)
  BY <1>4, <1>5, <1>6, HuffmanTableType, Zenon
<1>8. ASSUME NEW p \in 1..Len(v)
      PROVE  v[p] \in 0..255
  <2>1. v \in Seq(0..255)
    BY <1>2 DEF IsHuffmanSpec
  <2> QED
    BY <2>1, ElementOfSeq
<1> HIDE DEF table
<1> QED
  BY <1>1, <1>7, <1>8, Zenon DEF v

(* compute_huffman_table and the tables of jpge.cpp: every symbol that has a     *)
(* code has one of 1 to 16 bits that are not all ones, and no code is the       *)
(* beginning of the code of another symbol, so that a decoder knows where it    *)
(* ends.                                                                        *)
THEOREM CodesAreDecodable ==
  ASSUME NEW class \in {"DC", "AC"}, NEW t \in 1..2,
         NEW x \in 0..255, m_huff_codes[class][t][x].size # 0
  PROVE  /\ IsCode(m_huff_codes[class][t][x])
         /\ \A y \in 0..255 :
              y # x => ~BeginsWith(m_huff_codes[class][t][y], m_huff_codes[class][t][x])
<1> DEFINE table == m_huff_codes[class][t]
<1>1. /\ \A v \in 0..255 : table[v].size # 0 => IsCode(table[v])
      /\ IsPrefixFree(table)
  BY HuffmanCodes, ZenonT(40)
<1> HIDE DEF table
<1> QED
  BY <1>1, Zenon DEF IsPrefixFree, table

\* Every difference of DC coefficients and every run of zeros before a
\* coefficient has a code, and so have 16 zeros and the end of a block.
LEMMA CodesExist ==
  ASSUME NEW t \in 1..2
  PROVE  /\ \A n \in 0..11 : m_huff_codes["DC"][t][n].size >= 1
         /\ \A r \in 0..15, n \in 1..10 : m_huff_codes["AC"][t][16 * r + n].size >= 1
         /\ m_huff_codes["AC"][t][240].size >= 1
         /\ m_huff_codes["AC"][t][0].size >= 1
<1>1. t = 1 \/ t = 2
  OBVIOUS
<1>2. ASSUME NEW n \in 0..11
      PROVE  m_huff_codes["DC"][t][n].size >= 1
  <2> DEFINE v == m_huff_val["DC"][t]
  <2>1. PICK p \in 1..12 : v[p] = n
    <3>1. \E p \in 1..12 : s_dc_lum_val[p] = n
      BY DEF s_dc_lum_val
    <3>2. \E p \in 1..12 : s_dc_chroma_val[p] = n
      BY DEF s_dc_chroma_val
    <3> QED
      BY <1>1, <3>1, <3>2 DEF m_huff_val
  <2>2. Len(v) = 12
    BY <1>1 DEF m_huff_val, s_dc_lum_val, s_dc_chroma_val
  <2> HIDE DEF v
  <2>3. m_huff_codes["DC"][t][v[p]].size >= 1
    <3>1. \A k \in 1..Len(v) : IsCode(m_huff_codes["DC"][t][v[k]])
      BY HuffmanCodes, Zenon DEF v
    <3>2. \A w : IsCode(w) => w.size >= 1
      BY DEF IsCode
    <3> QED
      BY <2>2, <3>1, <3>2, Zenon
  <2> QED
    BY <2>1, <2>3
<1>3. ASSUME NEW x \in 0..255, x % 16 \in 1..10 \/ x \in {0, 240}
      PROVE  m_huff_codes["AC"][t][x].size >= 1
  <2> DEFINE v == m_huff_val["AC"][t]
  <2>1. PICK p \in 1..162 : v[p] = x
    <3>1. \E p \in 1..162 : s_ac_lum_val[p] = x
      BY <1>3, SMTT(60) DEF s_ac_lum_val
    <3>2. \E p \in 1..162 : s_ac_chroma_val[p] = x
      BY <1>3, SMTT(60) DEF s_ac_chroma_val
    <3> QED
      BY <1>1, <3>1, <3>2 DEF m_huff_val
  <2>2. Len(v) = 162
    BY <1>1 DEF m_huff_val, s_ac_lum_val, s_ac_chroma_val
  <2> HIDE DEF v
  <2>3. m_huff_codes["AC"][t][v[p]].size >= 1
    <3>1. \A k \in 1..Len(v) : IsCode(m_huff_codes["AC"][t][v[k]])
      BY HuffmanCodes, Zenon DEF v
    <3>2. \A w : IsCode(w) => w.size >= 1
      BY DEF IsCode
    <3>3. p \in 1..Len(v)
      BY <2>1, <2>2
    <3> QED
      BY <3>1, <3>2, <3>3, Zenon
  <2> QED
    BY <2>1, <2>3
<1>4. \A r \in 0..15, n \in 1..10 : 16 * r + n \in 0..255 /\ (16 * r + n) % 16 = n
  OBVIOUS
<1>5. 0 \in 0..255 /\ 240 \in 0..255
  OBVIOUS
<1> QED
  BY <1>2, <1>3, <1>4, <1>5, ZenonT(40)

\* compute_quant_table: every step fits a byte and is not 0, the divisor of
\* load_quantized_coefficients.
LEMMA QuantTableType ==
  ASSUME NEW quality \in 1..100, NEW std, \A i \in 1..64 : std[i] \in Int
  PROVE  compute_quant_table(quality, std) \in [1..64 -> 1..255]
<1> DEFINE q == IF quality < 50 THEN 5000 \div quality ELSE 200 - quality * 2
           scaled(j) == (j * q + 50) \div 100
           step(j) == IF scaled(j) < 1 THEN 1 ELSE IF scaled(j) > 255 THEN 255 ELSE scaled(j)
<1>1. q \in Int
  OBVIOUS
<1> HIDE DEF q
<1>2. ASSUME NEW i \in 1..64
      PROVE  step(std[i]) \in 1..255
  <2>1. scaled(std[i]) \in Int
    BY <1>1
  <2> HIDE DEF scaled
  <2> QED
    BY <2>1
<1>3. compute_quant_table(quality, std) = [i \in 1..64 |-> step(std[i])]
  BY DEF compute_quant_table, q
<1> HIDE DEF step
<1>4. [i \in 1..64 |-> step(std[i])] \in [1..64 -> 1..255]
  BY <1>2, Zenon
<1> QED
  BY <1>3, <1>4

LEMMA QuantizationTablesType ==
  ASSUME NEW quality \in 1..100
  PROVE  quantization_tables(quality) \in [1..2 -> [1..64 -> 1..255]]
<1>1. \A i \in 1..64 : s_std_lum_quant[i] \in Int
  BY DEF s_std_lum_quant
<1>2. \A i \in 1..64 : s_std_croma_quant[i] \in Int
  BY DEF s_std_croma_quant
<1>3. /\ compute_quant_table(quality, s_std_lum_quant) \in [1..64 -> 1..255]
      /\ compute_quant_table(quality, s_std_croma_quant) \in [1..64 -> 1..255]
  BY <1>1, <1>2, QuantTableType
<1>4. \A S : \A a, b \in S : <<a, b>> \in [1..2 -> S]
  OBVIOUS
<1> HIDE DEF compute_quant_table
<1> QED
  BY <1>3, <1>4, Zenon DEF quantization_tables

-------------------------------------------------------------------------------
(* Pixels. *)

Byte == 0..255

LEMMA ClampType == \A i \in Int : clamp(i) \in Byte
  BY DEF clamp, Byte

LEMMA YuvType ==
  ASSUME NEW y \in Byte, NEW u \in Byte, NEW v \in Byte
  PROVE  yuv2rgb(y, u, v) \in Byte \X Byte \X Byte
<1>1. \A n \in Int, d \in {100000, 1000000} : Trunc(n, d) \in Int
  BY SMT DEF Trunc
<1>2. ASSUME NEW i \in Byte
      PROVE  /\ yuv_table(i).vY \in Int /\ yuv_table(i).vVr \in Int /\ yuv_table(i).vVg \in Int
             /\ yuv_table(i).vUg \in Int /\ yuv_table(i).vUb \in Int
  BY <1>1, SMT DEF yuv_table, Byte
<1>3. /\ yuv_table(y).vY \in Int /\ yuv_table(v).vVr \in Int /\ yuv_table(v).vVg \in Int
      /\ yuv_table(u).vUg \in Int /\ yuv_table(u).vUb \in Int
  BY <1>2
<1> QED
  BY <1>3, ClampType DEF yuv2rgb

LEMMA YccType ==
  ASSUME NEW p \in Byte \X Byte \X Byte
  PROVE  RGB_to_YCC(p) \in Byte \X Byte \X Byte
<1> DEFINE r == p[1]
           g == p[2]
           b == p[3]
<1>1. r \in Byte /\ g \in Byte /\ b \in Byte
  OBVIOUS
<1> HIDE DEF r, g, b
<1>2. (r * 19595 + g * 38470 + b * 7471 + 32768) \div 65536 \in Byte
  BY <1>1, SMT DEF Byte
<1>3. clamp(128 + ((-11059 * r - 21709 * g + 32768 * b + 32768) \div 65536)) \in Byte
  BY <1>1, ClampType, SMT DEF Byte
<1>4. clamp(128 + ((32768 * r - 27439 * g - 5329 * b + 32768) \div 65536)) \in Byte
  BY <1>1, ClampType, SMT DEF Byte
<1> QED
  BY <1>2, <1>3, <1>4 DEF RGB_to_YCC, r, g, b

-------------------------------------------------------------------------------
(* The transform: its casts to 16 bits lose nothing, and no coefficient is so   *)
(* large that the Huffman tables have no code for it.                           *)

\* x is an integer from lo to hi.
Between(x, lo, hi) == x \in Int /\ lo <= x /\ x <= hi

LEMMA Int16Small ==
  ASSUME NEW x \in Int, -32768 <= x, x <= 32767
  PROVE  Int16(x) = x
<1>1. x + 32768 \in Int /\ 0 <= x + 32768 /\ x + 32768 < 65536
  BY SMT
<1>2. \A n \in Int : 0 <= n /\ n < 65536 => n % 65536 = n
  BY SMT
<1> QED
  BY <1>1, <1>2, SMT DEF Int16

\* DCT1D without the casts of DCT_MUL.
WideDCT1D(s0, s1, s2, s3, s4, s5, s6, s7) ==
  LET t3 == s3 + s4    t4 == s3 - s4    t2 == s2 + s5    t5 == s2 - s5
      t1 == s1 + s6    t6 == s1 - s6    t0 == s0 + s7    t7 == s0 - s7
      t10 == t0 + t3   t13 == t0 - t3   t11 == t1 + t2   t12 == t1 - t2
      even == (t12 + t13) * 4433
      z5 == (t4 + t6 + t5 + t7) * 9633
      u1 == (t4 + t7) * (-7373)         u2 == (t5 + t6) * (-20995)
      u3 == (t4 + t6) * (-16069) + z5   u4 == (t5 + t7) * (-3196) + z5
  IN  <<t10 + t11, t7 * 12299 + u1 + u4, even + t13 * 6270, t6 * 25172 + u2 + u3,
        t10 - t11, t5 * 16819 + u2 + u4, even + t12 * (-15137), t4 * 2446 + u1 + u3>>

\* DCT_MUL (jpge.cpp:117) is given no factor that its cast to int16 would change.
LEMMA NoCastLoses ==
  ASSUME NEW s0, NEW s1, NEW s2, NEW s3, NEW s4, NEW s5, NEW s6, NEW s7,
         Between(s0, -4096, 4080), Between(s1, -4096, 4080), Between(s2, -4096, 4080),
         Between(s3, -4096, 4080), Between(s4, -4096, 4080), Between(s5, -4096, 4080),
         Between(s6, -4096, 4080), Between(s7, -4096, 4080)
  PROVE  DCT1D(s0, s1, s2, s3, s4, s5, s6, s7) = WideDCT1D(s0, s1, s2, s3, s4, s5, s6, s7)
<1> DEFINE t3 == s3 + s4    t4 == s3 - s4    t2 == s2 + s5    t5 == s2 - s5
           t1 == s1 + s6    t6 == s1 - s6    t0 == s0 + s7    t7 == s0 - s7
           t10 == t0 + t3   t13 == t0 - t3   t11 == t1 + t2   t12 == t1 - t2
           even == (t12 + t13) * 4433
           z5 == (t4 + t6 + t5 + t7) * 9633
           u1 == (t4 + t7) * (-7373)         u2 == (t5 + t6) * (-20995)
           u3 == (t4 + t6) * (-16069) + z5   u4 == (t5 + t7) * (-3196) + z5
           out == <<t10 + t11, t7 * 12299 + u1 + u4, even + t13 * 6270, t6 * 25172 + u2 + u3,
                    t10 - t11, t5 * 16819 + u2 + u4, even + t12 * (-15137), t4 * 2446 + u1 + u3>>
<1>1. ASSUME NEW x, Between(x, -32704, 32704), NEW c \in Int
      PROVE  DCT_MUL(x, c) = x * c
  <2>1. x \in Int /\ -32768 <= x /\ x <= 32767
    BY <1>1, SMT DEF Between
  <2> QED
    BY <2>1, Int16Small DEF DCT_MUL
<1>2. /\ Between(t12 + t13, -32704, 32704) /\ Between(t4 + t6 + t5 + t7, -32704, 32704)
      /\ Between(t4 + t7, -32704, 32704) /\ Between(t5 + t6, -32704, 32704)
      /\ Between(t4 + t6, -32704, 32704) /\ Between(t5 + t7, -32704, 32704)
      /\ Between(t13, -32704, 32704) /\ Between(t12, -32704, 32704)
      /\ Between(t4, -32704, 32704) /\ Between(t5, -32704, 32704)
      /\ Between(t6, -32704, 32704) /\ Between(t7, -32704, 32704)
  BY SMT DEF Between
<1>3. DCT1D(s0, s1, s2, s3, s4, s5, s6, s7) = out
  <2> DEFINE a == DCT_MUL(t12 + t13, 4433)
             b == DCT_MUL(t4 + t6 + t5 + t7, 9633)
             c1 == DCT_MUL(t4 + t7, -7373)          c2 == DCT_MUL(t5 + t6, -20995)
             c3 == DCT_MUL(t4 + t6, -16069) + b     c4 == DCT_MUL(t5 + t7, -3196) + b
  <2>1. DCT1D(s0, s1, s2, s3, s4, s5, s6, s7) =
          <<t10 + t11, DCT_MUL(t7, 12299) + c1 + c4, a + DCT_MUL(t13, 6270),
            DCT_MUL(t6, 25172) + c2 + c3, t10 - t11, DCT_MUL(t5, 16819) + c2 + c4,
            a + DCT_MUL(t12, -15137), DCT_MUL(t4, 2446) + c1 + c3>>
    BY SMTT(30) DEF DCT1D
  <2>2. /\ a = even /\ b = z5 /\ c1 = u1 /\ c2 = u2
        /\ DCT_MUL(t4 + t6, -16069) = (t4 + t6) * (-16069)
        /\ DCT_MUL(t5 + t7, -3196) = (t5 + t7) * (-3196)
        /\ DCT_MUL(t7, 12299) = t7 * 12299 /\ DCT_MUL(t13, 6270) = t13 * 6270
        /\ DCT_MUL(t6, 25172) = t6 * 25172 /\ DCT_MUL(t5, 16819) = t5 * 16819
        /\ DCT_MUL(t12, -15137) = t12 * (-15137) /\ DCT_MUL(t4, 2446) = t4 * 2446
    BY <1>1, <1>2, SMT
  <2>3. c3 = u3 /\ c4 = u4
    BY <2>2, SMT
  <2> HIDE DEF t0, t1, t2, t3, t4, t5, t6, t7, t10, t11, t12, t13
  <2> HIDE DEF a, b, c1, c2, c3, c4, even, z5, u1, u2, u3, u4
  <2> QED
    BY <2>1, <2>2, <2>3, SMT
<1> QED
  BY <1>3 DEF WideDCT1D

\* What the two passes make of the outputs of DCT1D.
AfterRows(v) == /\ Between(v[1] * 4, -4096, 4064)
                /\ Between(v[5] * 4, -4080, 4080)
                /\ \A i \in 1..8 \ {1, 5} : Between(DCT_DESCALE(v[i], 11), -4080, 4080)
AfterColumns(v, lo) ==
  /\ Between(DCT_DESCALE(v[1], 5), lo \div 4, 1020)
  /\ Between(DCT_DESCALE(v[5], 5), -1023, 1023)
  /\ \A i \in 1..8 \ {1, 5} : Between(DCT_DESCALE(v[i], 18), -1023, 1023)

\* A row of samples, after the first pass.
LEMMA RowRange ==
  ASSUME NEW s0, NEW s1, NEW s2, NEW s3, NEW s4, NEW s5, NEW s6, NEW s7,
         Between(s0, -128, 127), Between(s1, -128, 127), Between(s2, -128, 127),
         Between(s3, -128, 127), Between(s4, -128, 127), Between(s5, -128, 127),
         Between(s6, -128, 127), Between(s7, -128, 127)
  PROVE  AfterRows(DCT1D(s0, s1, s2, s3, s4, s5, s6, s7))
<1> DEFINE v == WideDCT1D(s0, s1, s2, s3, s4, s5, s6, s7)
<1>1. DCT1D(s0, s1, s2, s3, s4, s5, s6, s7) = v
  <2>1. \A x : Between(x, -128, 127) => Between(x, -4096, 4080)
    BY SMT DEF Between
  <2> QED
    BY <2>1, NoCastLoses
<1>2. Between(v[1] * 4, -4096, 4064) /\ Between(v[5] * 4, -4080, 4080)
  BY SMT DEF Between, WideDCT1D
<1>3. /\ Between((v[2] + 1024) \div 2048, -4080, 4080)
      /\ Between((v[3] + 1024) \div 2048, -4080, 4080)
      /\ Between((v[4] + 1024) \div 2048, -4080, 4080)
      /\ Between((v[6] + 1024) \div 2048, -4080, 4080)
      /\ Between((v[7] + 1024) \div 2048, -4080, 4080)
      /\ Between((v[8] + 1024) \div 2048, -4080, 4080)
  BY SMTT(30) DEF Between, WideDCT1D
<1>4. \A x : DCT_DESCALE(x, 11) = (x + 1024) \div 2048
  BY SMT DEF DCT_DESCALE
<1>5. \A i \in 1..8 \ {1, 5} : i \in {2, 3, 4, 6, 7, 8}
  OBVIOUS
<1> HIDE DEF v
<1> QED
  BY <1>1, <1>2, <1>3, <1>4, <1>5, SMT DEF AfterRows

\* A column of what RowRange bounds, after the second pass.
LEMMA ColumnRange ==
  ASSUME NEW lo \in Int, -4096 <= lo,
         NEW s0, NEW s1, NEW s2, NEW s3, NEW s4, NEW s5, NEW s6, NEW s7,
         Between(s0, lo, 4080), Between(s1, lo, 4080), Between(s2, lo, 4080),
         Between(s3, lo, 4080), Between(s4, lo, 4080), Between(s5, lo, 4080),
         Between(s6, lo, 4080), Between(s7, lo, 4080)
  PROVE  AfterColumns(DCT1D(s0, s1, s2, s3, s4, s5, s6, s7), lo)
<1> DEFINE v == WideDCT1D(s0, s1, s2, s3, s4, s5, s6, s7)
<1>1. /\ Between(s0, -4096, 4080) /\ Between(s1, -4096, 4080) /\ Between(s2, -4096, 4080)
      /\ Between(s3, -4096, 4080) /\ Between(s4, -4096, 4080) /\ Between(s5, -4096, 4080)
      /\ Between(s6, -4096, 4080) /\ Between(s7, -4096, 4080)
  BY SMT DEF Between
<1>2. DCT1D(s0, s1, s2, s3, s4, s5, s6, s7) = v
  BY <1>1, NoCastLoses
<1>3. /\ Between((v[1] + 16) \div 32, lo \div 4, 1020)
      /\ Between((v[5] + 16) \div 32, -1023, 1023)
  BY SMT DEF Between, WideDCT1D
<1>4. /\ Between((v[2] + 131072) \div 262144, -1023, 1023)
      /\ Between((v[3] + 131072) \div 262144, -1023, 1023)
      /\ Between((v[4] + 131072) \div 262144, -1023, 1023)
      /\ Between((v[6] + 131072) \div 262144, -1023, 1023)
      /\ Between((v[7] + 131072) \div 262144, -1023, 1023)
      /\ Between((v[8] + 131072) \div 262144, -1023, 1023)
  BY <1>1, SMTT(30) DEF Between, WideDCT1D
<1>5. \A x : /\ DCT_DESCALE(x, 5) = (x + 16) \div 32
             /\ DCT_DESCALE(x, 18) = (x + 131072) \div 262144
  BY SMT DEF DCT_DESCALE
<1>6. \A i \in 1..8 \ {1, 5} : i \in {2, 3, 4, 6, 7, 8}
  OBVIOUS
<1> HIDE DEF v
<1> QED
  BY <1>2, <1>3, <1>4, <1>5, <1>6, SMT DEF AfterColumns

\* Coefficient k of a block.
IsCoefficient(x, k) == Between(x, IF k = 0 THEN -1024 ELSE -1023, IF k = 0 THEN 1020 ELSE 1023)

\* The block between the passes of DCT2D, and between those of the transform
\* without casts.
Rows(p) == LET row == [r \in 0..7 |-> DCT1D(p[8*r], p[8*r + 1], p[8*r + 2], p[8*r + 3],
                                           p[8*r + 4], p[8*r + 5], p[8*r + 6], p[8*r + 7])]
           IN  [n \in 0..63 |-> LET v == row[n \div 8][(n % 8) + 1]
                                IN  IF n % 4 = 0 THEN v * 4 ELSE DCT_DESCALE(v, 11)]
WideRows(p) ==
  LET row == [r \in 0..7 |-> WideDCT1D(p[8*r], p[8*r + 1], p[8*r + 2], p[8*r + 3],
                                       p[8*r + 4], p[8*r + 5], p[8*r + 6], p[8*r + 7])]
  IN  [n \in 0..63 |-> LET v == row[n \div 8][(n % 8) + 1]
                       IN  IF n % 4 = 0 THEN v * 4 ELSE DCT_DESCALE(v, 11)]
WideDCT2D(p) ==
  LET q == WideRows(p)
      col == [c \in 0..7 |-> WideDCT1D(q[c], q[c + 8], q[c + 16], q[c + 24],
                                       q[c + 32], q[c + 40], q[c + 48], q[c + 56])]
  IN  [n \in 0..63 |-> LET v == col[n % 8][n \div 8 + 1]
                       IN  IF (n \div 8) % 4 = 0 THEN DCT_DESCALE(v, 5) ELSE DCT_DESCALE(v, 18)]

\* The least value of column c after the rows.
Low(c) == IF c = 0 THEN -4096 ELSE -4080

LEMMA RowsRange ==
  ASSUME NEW p, \A k \in 0..63 : Between(p[k], -128, 127),
         NEW n \in 0..63
  PROVE  Between(Rows(p)[n], Low(n % 8), 4080)
<1> DEFINE row == [r \in 0..7 |-> DCT1D(p[8*r], p[8*r + 1], p[8*r + 2], p[8*r + 3],
                                        p[8*r + 4], p[8*r + 5], p[8*r + 6], p[8*r + 7])]
           q == Rows(p)
<1>1. q[n] = LET v == row[n \div 8][(n % 8) + 1]
             IN  IF n % 4 = 0 THEN v * 4 ELSE DCT_DESCALE(v, 11)
  BY DEF Rows
<1>2. ASSUME NEW r \in 0..7
      PROVE  AfterRows(row[r])
  <2>1. /\ 8*r \in 0..63 /\ 8*r + 1 \in 0..63 /\ 8*r + 2 \in 0..63 /\ 8*r + 3 \in 0..63
        /\ 8*r + 4 \in 0..63 /\ 8*r + 5 \in 0..63 /\ 8*r + 6 \in 0..63 /\ 8*r + 7 \in 0..63
    OBVIOUS
  <2> DEFINE v == DCT1D(p[8*r], p[8*r + 1], p[8*r + 2], p[8*r + 3],
                        p[8*r + 4], p[8*r + 5], p[8*r + 6], p[8*r + 7])
  <2>2. /\ Between(p[8*r], -128, 127) /\ Between(p[8*r + 1], -128, 127)
        /\ Between(p[8*r + 2], -128, 127) /\ Between(p[8*r + 3], -128, 127)
        /\ Between(p[8*r + 4], -128, 127) /\ Between(p[8*r + 5], -128, 127)
        /\ Between(p[8*r + 6], -128, 127) /\ Between(p[8*r + 7], -128, 127)
    BY <2>1
  <2>3. AfterRows(v)
    BY <2>2, RowRange
  <2>4. row[r] = v
    OBVIOUS
  <2> HIDE DEF v, row
  <2> QED
    BY <2>3, <2>4
<1> HIDE DEF row
<1>3. Between(q[n], Low(n % 8), 4080)
  <2> DEFINE i == (n % 8) + 1
             v == row[n \div 8]
  <2>1. n \div 8 \in 0..7 /\ i \in 1..8 /\ (n % 4 = 0 <=> i \in {1, 5}) /\ (i = 1 <=> n % 8 = 0)
    OBVIOUS
  <2>2. AfterRows(v)
    BY <1>2, <2>1
  <2>3. q[n] = IF n % 4 = 0 THEN v[i] * 4 ELSE DCT_DESCALE(v[i], 11)
    BY <1>1
  <2>4. CASE i = 1
    <3>1. q[n] = v[1] * 4 /\ n % 8 = 0
      BY <2>1, <2>3, <2>4
    <3> HIDE DEF q, v, i
    <3> QED
      BY <2>2, <3>1, SMT DEF AfterRows, Between, Low
  <2>5. CASE i = 5
    <3>1. q[n] = v[5] * 4 /\ ~(n % 8 = 0)
      BY <2>1, <2>3, <2>5
    <3> HIDE DEF q, v, i
    <3> QED
      BY <2>2, <3>1, SMT DEF AfterRows, Between, Low
  <2>6. CASE i \in 1..8 \ {1, 5}
    <3>1. q[n] = DCT_DESCALE(v[i], 11) /\ ~(n % 8 = 0)
      BY <2>1, <2>3, <2>6
    <3>2. Between(DCT_DESCALE(v[i], 11), -4080, 4080)
      <4> HIDE DEF v, i
      <4> QED
        BY <2>2, <2>6 DEF AfterRows
    <3> HIDE DEF q, v, i
    <3> QED
      BY <3>1, <3>2, SMT DEF Between, Low
  <2> QED
    BY <2>1, <2>4, <2>5, <2>6
<1> QED
  BY <1>3

(* DCT2D: the casts of DCT_MUL (jpge.cpp:117) to 16 bits change nothing in the  *)
(* transform of samples of 8 bits, although the columns start from the 13 bits  *)
(* that the rows leave.                                                         *)
THEOREM TransformIsExact ==
  ASSUME NEW p, \A k \in 0..63 : Between(p[k], -128, 127)
  PROVE  DCT2D(p) = WideDCT2D(p)
<1> DEFINE q == Rows(p)
           row(r) == DCT1D(p[8*r], p[8*r + 1], p[8*r + 2], p[8*r + 3],
                           p[8*r + 4], p[8*r + 5], p[8*r + 6], p[8*r + 7])
           wide(r) == WideDCT1D(p[8*r], p[8*r + 1], p[8*r + 2], p[8*r + 3],
                                p[8*r + 4], p[8*r + 5], p[8*r + 6], p[8*r + 7])
           col(c) == DCT1D(q[c], q[c + 8], q[c + 16], q[c + 24],
                           q[c + 32], q[c + 40], q[c + 48], q[c + 56])
           wideCol(c) == WideDCT1D(q[c], q[c + 8], q[c + 16], q[c + 24],
                                   q[c + 32], q[c + 40], q[c + 48], q[c + 56])
<1>1. ASSUME NEW r \in 0..7
      PROVE  row(r) = wide(r)
  <2>1. /\ 8*r \in 0..63 /\ 8*r + 1 \in 0..63 /\ 8*r + 2 \in 0..63 /\ 8*r + 3 \in 0..63
        /\ 8*r + 4 \in 0..63 /\ 8*r + 5 \in 0..63 /\ 8*r + 6 \in 0..63 /\ 8*r + 7 \in 0..63
    OBVIOUS
  <2>2. \A k \in 0..63 : Between(p[k], -4096, 4080)
    BY SMT DEF Between
  <2>3. /\ Between(p[8*r], -4096, 4080) /\ Between(p[8*r + 1], -4096, 4080)
        /\ Between(p[8*r + 2], -4096, 4080) /\ Between(p[8*r + 3], -4096, 4080)
        /\ Between(p[8*r + 4], -4096, 4080) /\ Between(p[8*r + 5], -4096, 4080)
        /\ Between(p[8*r + 6], -4096, 4080) /\ Between(p[8*r + 7], -4096, 4080)
    <3> DEFINE fits(k) == Between(p[k], -4096, 4080)
    <3>1. \A k \in 0..63 : fits(k)
      BY <2>2
    <3> HIDE DEF fits
    <3>2. /\ fits(8*r) /\ fits(8*r + 1) /\ fits(8*r + 2) /\ fits(8*r + 3)
          /\ fits(8*r + 4) /\ fits(8*r + 5) /\ fits(8*r + 6) /\ fits(8*r + 7)
      BY <2>1, <3>1, Zenon
    <3> QED
      BY <3>2 DEF fits
  <2> QED
    BY <2>3, NoCastLoses
<1>2. q = WideRows(p)
  <2>1. [r \in 0..7 |-> row(r)] = [r \in 0..7 |-> wide(r)]
    BY <1>1, Zenon
  <2>2. WideRows(p) = [n \in 0..63 |-> LET v == [r \in 0..7 |-> wide(r)][n \div 8][(n % 8) + 1]
                                       IN  IF n % 4 = 0 THEN v * 4 ELSE DCT_DESCALE(v, 11)]
    BY DEF WideRows
  <2>3. q = [n \in 0..63 |-> LET v == [r \in 0..7 |-> row(r)][n \div 8][(n % 8) + 1]
                             IN  IF n % 4 = 0 THEN v * 4 ELSE DCT_DESCALE(v, 11)]
    BY DEF Rows
  <2> HIDE DEF row, wide, q
  <2> QED
    BY <2>1, <2>2, <2>3, Zenon
<1>3. ASSUME NEW c \in 0..7
      PROVE  col(c) = wideCol(c)
  <2>1. /\ c \in 0..63 /\ c + 8 \in 0..63 /\ c + 16 \in 0..63 /\ c + 24 \in 0..63
        /\ c + 32 \in 0..63 /\ c + 40 \in 0..63 /\ c + 48 \in 0..63 /\ c + 56 \in 0..63
    OBVIOUS
  <2>2. \A n \in 0..63 : Between(q[n], Low(n % 8), 4080)
    <3> TAKE n \in 0..63
    <3> HIDE DEF q
    <3>1. Between(Rows(p)[n], Low(n % 8), 4080)
      BY RowsRange
    <3> QED
      BY <3>1 DEF q
  <2> HIDE DEF q
  <2>3. \A n \in 0..63 : Between(q[n], -4096, 4080)
    BY <2>2, SMT DEF Between, Low
  <2>4. /\ Between(q[c], -4096, 4080) /\ Between(q[c + 8], -4096, 4080)
        /\ Between(q[c + 16], -4096, 4080) /\ Between(q[c + 24], -4096, 4080)
        /\ Between(q[c + 32], -4096, 4080) /\ Between(q[c + 40], -4096, 4080)
        /\ Between(q[c + 48], -4096, 4080) /\ Between(q[c + 56], -4096, 4080)
    BY <2>1, <2>3
  <2> QED
    BY <2>4, NoCastLoses
<1>4. [c \in 0..7 |-> col(c)] = [c \in 0..7 |-> wideCol(c)]
  <2> HIDE DEF col, wideCol
  <2> QED
    BY <1>3, Zenon
<1>5. DCT2D(p) = [n \in 0..63 |-> LET v == [c \in 0..7 |-> col(c)][n % 8][n \div 8 + 1]
                                  IN  IF (n \div 8) % 4 = 0 THEN DCT_DESCALE(v, 5)
                                      ELSE DCT_DESCALE(v, 18)]
  BY DEF DCT2D, Rows
<1>6. WideDCT2D(p) = [n \in 0..63 |-> LET v == [c \in 0..7 |-> wideCol(c)][n % 8][n \div 8 + 1]
                                      IN  IF (n \div 8) % 4 = 0 THEN DCT_DESCALE(v, 5)
                                          ELSE DCT_DESCALE(v, 18)]
  <2> HIDE DEF q
  <2> QED
    BY <1>2 DEF WideDCT2D
<1> HIDE DEF col, wideCol
<1> QED
  BY <1>4, <1>5, <1>6, ZenonT(40)

(* DCT2D: the transform of samples of 8 bits stays within 11 bits, for which    *)
(* the code tables have categories.                                             *)
THEOREM TransformRange ==
  ASSUME NEW p, \A k \in 0..63 : Between(p[k], -128, 127),
         NEW k \in 0..63
  PROVE  IsCoefficient(DCT2D(p)[k], k)
<1> DEFINE q == Rows(p)
           col == [c \in 0..7 |-> DCT1D(q[c], q[c + 8], q[c + 16], q[c + 24],
                                        q[c + 32], q[c + 40], q[c + 48], q[c + 56])]
           out == [n \in 0..63 |-> LET v == col[n % 8][n \div 8 + 1]
                                   IN  IF (n \div 8) % 4 = 0 THEN DCT_DESCALE(v, 5)
                                       ELSE DCT_DESCALE(v, 18)]
<1>1. DCT2D(p) = out
  BY DEF DCT2D, Rows
<1>2. ASSUME NEW n \in 0..63
      PROVE  Between(q[n], Low(n % 8), 4080)
  BY RowsRange
<1> HIDE DEF q
<1>4. ASSUME NEW c \in 0..7
      PROVE  AfterColumns(col[c], Low(c))
  <2>1. /\ c \in 0..63 /\ c + 8 \in 0..63 /\ c + 16 \in 0..63 /\ c + 24 \in 0..63
        /\ c + 32 \in 0..63 /\ c + 40 \in 0..63 /\ c + 48 \in 0..63 /\ c + 56 \in 0..63
        /\ c % 8 = c /\ (c + 8) % 8 = c /\ (c + 16) % 8 = c /\ (c + 24) % 8 = c
        /\ (c + 32) % 8 = c /\ (c + 40) % 8 = c /\ (c + 48) % 8 = c /\ (c + 56) % 8 = c
    OBVIOUS
  <2> DEFINE v == DCT1D(q[c], q[c + 8], q[c + 16], q[c + 24],
                        q[c + 32], q[c + 40], q[c + 48], q[c + 56])
             lo == Low(c)
  <2>2. lo \in Int /\ -4096 <= lo
    BY SMT DEF Low
    <2>3. /\ Between(q[c], lo, 4080) /\ Between(q[c + 8], lo, 4080)
        /\ Between(q[c + 16], lo, 4080) /\ Between(q[c + 24], lo, 4080)
        /\ Between(q[c + 32], lo, 4080) /\ Between(q[c + 40], lo, 4080)
        /\ Between(q[c + 48], lo, 4080) /\ Between(q[c + 56], lo, 4080)
    BY <1>2, <2>1
  <2> HIDE DEF lo
  <2>4. AfterColumns(v, lo)
    BY <2>2, <2>3, ColumnRange
  <2>5. col[c] = v
    OBVIOUS
  <2> HIDE DEF v, col
  <2> QED
    BY <2>4, <2>5 DEF lo
<1> HIDE DEF col
<1> DEFINE i == k \div 8 + 1
           c == k % 8
           v == col[c]
<1>5. c \in 0..7 /\ i \in 1..8 /\ ((k \div 8) % 4 = 0 <=> i \in {1, 5})
      /\ (k = 0 <=> i = 1 /\ c = 0)
  OBVIOUS
<1>6. AfterColumns(v, Low(c))
  BY <1>4, <1>5
<1>7. out[k] = IF (k \div 8) % 4 = 0 THEN DCT_DESCALE(v[i], 5) ELSE DCT_DESCALE(v[i], 18)
  OBVIOUS
<1>8. CASE i = 1
  <2>1. out[k] = DCT_DESCALE(v[1], 5) /\ (k = 0 <=> c = 0)
    BY <1>5, <1>7, <1>8
  <2> HIDE DEF out, v, i, c
  <2>2. Between(out[k], Low(c) \div 4, 1020)
    BY <1>6, <2>1 DEF AfterColumns
  <2>3. Low(c) \div 4 = IF c = 0 THEN -1024 ELSE -1020
    BY SMT DEF Low
    <2> QED
    BY <1>1, <2>1, <2>2, <2>3, SMT DEF IsCoefficient, Between
<1>9. CASE i = 5
  <2>1. out[k] = DCT_DESCALE(v[5], 5) /\ k # 0
    BY <1>5, <1>7, <1>9
  <2> HIDE DEF out, v, i, c
  <2> QED
    BY <1>1, <1>6, <2>1, SMT DEF AfterColumns, IsCoefficient
<1>10. CASE i \in 1..8 \ {1, 5}
  <2>1. out[k] = DCT_DESCALE(v[i], 18) /\ k # 0
    BY <1>5, <1>7, <1>10
  <2> HIDE DEF out, v, i, c
  <2>2. Between(DCT_DESCALE(v[i], 18), -1023, 1023)
    BY <1>6, <1>10 DEF AfterColumns
  <2> QED
    BY <1>1, <2>1, <2>2, SMT DEF IsCoefficient
<1> QED
  BY <1>5, <1>8, <1>9, <1>10

-------------------------------------------------------------------------------
(* Code words. *)

\* v has the category n: n bits tell it from the other values of its size.
IsCategory(v, n) == /\ -(2^n) < v /\ v < 2^n
                    /\ n > 0 => v <= -(2^(n - 1)) \/ 2^(n - 1) <= v

\* Category finds it, and it is no larger than the values need.
LEMMA CategoryOf ==
  ASSUME NEW m \in 0..16, NEW v \in Int, -(2^m) < v, v < 2^m
  PROVE  /\ Category(v) \in 0..m
         /\ IsCategory(v, Category(v))
         /\ Category(v) = 0 <=> v = 0
<1> DEFINE T == {n \in 0..16 : -(2^n) < v /\ v < 2^n}
           c == Category(v)
<1>1. PICK n \in T : \A k \in T : n <= k
  <2>1. T \subseteq Nat /\ T # {}
    BY SMTT(30)
  <2> HIDE DEF T
  <2> QED
    BY <2>1, LeastElement
<1>2. IsCategory(v, n)
  <2>1. CASE n = 0
    BY <1>1, <2>1 DEF IsCategory
  <2>2. CASE n # 0
    <3>1. n - 1 \in 0..16 /\ n - 1 \notin T
      BY <1>1, <2>2
    <3>2. 2^(n - 1) \in Nat
      BY <3>1, PowersGrow
    <3> QED
      BY <1>1, <3>1, <3>2 DEF IsCategory
  <2> QED
    BY <2>1, <2>2
<1>3. c \in 0..16 /\ IsCategory(v, c)
  <2>1. c = CHOOSE k \in 0..16 : IsCategory(v, k)
    BY DEF Category, IsCategory
  <2> HIDE DEF c
  <2> QED
    BY <1>1, <1>2, <2>1
<1> HIDE DEF c
<1>4. c <= m
  <2>1. SUFFICES ASSUME m <= c - 1
                 PROVE  FALSE
    BY <1>3
  <2>2. c - 1 \in 0..16 /\ c > 0
    BY <1>3, <2>1
  <2>3. 2^m <= 2^(c - 1) /\ 2^m \in Nat /\ 2^(c - 1) \in Nat
    BY <2>1, <2>2, PowersGrow
  <2> QED
    BY <1>3, <2>2, <2>3, SMT DEF IsCategory
<1>5. c = 0 <=> v = 0
  <2>1. 2^0 = 1
    OBVIOUS
  <2>2. CASE c = 0
    BY <1>3, <2>1, <2>2, SMT DEF IsCategory
  <2>3. CASE c # 0
    <3>1. c - 1 \in 0..16 /\ c > 0
      BY <1>3, <2>3
    <3>2. 2^(c - 1) \in Nat /\ 1 <= 2^(c - 1)
      BY <3>1, PowersGrow
    <3> QED
      BY <1>3, <2>3, <3>1, <3>2, SMT DEF IsCategory
  <2> QED
    BY <2>2, <2>3
<1> QED
  BY <1>3, <1>4, <1>5 DEF c

\* The bits after the code are as many as the category says and no more, and the
\* decoder gets the value back from them: a first bit 0 means it was negative.
LEMMA MagnitudeOf ==
  ASSUME NEW v \in Int, -(2^15) < v, v < 2^15
  PROVE  /\ Magnitude(v) \in CodeWord
         /\ Magnitude(v).bits \in 0..(2^Magnitude(v).size - 1)
         /\ v # 0 => v = IF Magnitude(v).bits < 2^(Magnitude(v).size - 1)
                         THEN Magnitude(v).bits - 2^Magnitude(v).size + 1
                         ELSE Magnitude(v).bits
<1> DEFINE c == Category(v)
           bits == IF v < 0 THEN v - 1 + 2^c ELSE v
<1>1. c \in 0..15 /\ IsCategory(v, c) /\ (c = 0 <=> v = 0)
  <2>1. 15 \in 0..16
    OBVIOUS
  <2> QED
    BY <2>1, CategoryOf
<1>2. Magnitude(v) = [bits |-> bits, size |-> c]
  BY DEF Magnitude
<1> HIDE DEF c
<1>3. 2^c \in Nat /\ 1 <= 2^c
  <2>1. c \in 0..16
    BY <1>1
  <2> QED
    BY <2>1, PowersGrow
<1>4. bits \in 0..(2^c - 1)
  BY <1>1, <1>3, SMT DEF IsCategory
<1>5. ASSUME v # 0
      PROVE  v = IF bits < 2^(c - 1) THEN bits - 2^c + 1 ELSE bits
  <2>1. c \in 1..16 /\ c - 1 \in 0..16
    BY <1>1, <1>5
  <2>2. 2^c = 2 * 2^(c - 1) /\ 2^(c - 1) \in Nat
    BY <2>1, PowersGrow
  <2>3. v <= -(2^(c - 1)) \/ 2^(c - 1) <= v
    BY <1>1, <2>1 DEF IsCategory
  <2> QED
    BY <1>1, <1>3, <2>2, <2>3, SMT DEF IsCategory
<1> HIDE DEF bits
<1>6. Magnitude(v).bits = bits /\ Magnitude(v).size = c
  BY <1>2
<1>7. bits \in Int /\ 0 <= bits /\ bits < 2^c /\ c \in 0..16
  BY <1>1, <1>3, <1>4
<1>8. Magnitude(v) \in CodeWord
  BY <1>2, <1>7, CodeWordOf
<1> QED
  BY <1>4, <1>5, <1>6, <1>8

\* The numbers of a block: those of the samples it quantises and no larger.
LEMMA QuantizedRange ==
  ASSUME NEW q, \A k \in 1..64 : Between(q[k], 1, 255),
         NEW sample, \A k \in 0..63 : IsCoefficient(sample[k], k),
         NEW i \in 0..63
  PROVE  IsCoefficient(load_quantized_coefficients(q, sample)[i], i)
<1> DEFINE k == s_zag[i + 1]
           s == sample[k]
           n == IF s < 0 THEN -s ELSE s
           d == q[i + 1]
           j == n + d \div 2
           r == j \div d
           out == IF j < d THEN 0 ELSE IF s < 0 THEN -r ELSE r
<1>1. load_quantized_coefficients(q, sample)[i] = out
  BY DEF load_quantized_coefficients
<1>2. k \in 0..63 /\ (k = 0 <=> i = 0)
  BY SMTT(30) DEF s_zag
<1>3. Between(d, 1, 255)
  <2>1. i + 1 \in 1..64
    OBVIOUS
  <2> QED
    BY <2>1
<1> HIDE DEF d, k
<1>4. IsCoefficient(s, k)
  BY <1>2
<1> HIDE DEF s
<1>5. s \in Int
  BY <1>4 DEF IsCoefficient, Between
<1>6. n \in Nat /\ d \in Nat /\ d >= 1 /\ j \in Nat
  BY <1>3, <1>5, SMT DEF Between
<1> HIDE DEF n, r
<1>7. ~(j < d) => r \in Nat /\ r <= n
  <2>1. \A a, b, m \in Nat : b >= 1 /\ a = m + (b \div 2) /\ a >= b
                             => a \div b \in Nat /\ a \div b <= m
    OBVIOUS
  <2>2. ~(j < d) => j >= d
    BY <1>6
  <2> QED
    BY <1>6, <2>1, <2>2 DEF r
<1> HIDE DEF j
<1> QED
  BY <1>1, <1>2, <1>4, <1>5, <1>6, <1>7, SMT DEF IsCoefficient, Between, n

\* A word that is there to be written.
CodedWord == {w \in CodeWord : w.size >= 1}
Coding == [words : Seq(CodedWord), run : Nat]

LEMMA CodeCoefficientType ==
  ASSUME NEW t \in 1..2, NEW s \in Coding, NEW v, Between(v, -1023, 1023)
  PROVE  code_coefficient(m_huff_codes["AC"][t], s, v) \in Coding
<1> DEFINE codes == m_huff_codes["AC"][t]
           c == Category(v)
           m == s.run % 16
           zeros == [z \in 1..(s.run \div 16) |-> codes[240]]
           last == <<codes[16 * m + c], Magnitude(v)>>
<1>1. s.words \in Seq(CodedWord) /\ s.run \in Nat
  BY DEF Coding
<1>2. CASE v = 0
  BY <1>1, <1>2 DEF code_coefficient, Coding
<1>3. CASE v # 0
  <2>1. /\ v \in Int /\ -(2^10) < v /\ v < 2^10 /\ -(2^15) < v /\ v < 2^15
    BY SMT DEF Between
  <2>2. c \in 1..10
    <3>1. c \in 0..10 /\ (c = 0 <=> v = 0)
      BY <2>1, CategoryOf
    <3> HIDE DEF c
    <3> QED
      BY <1>3, <3>1
  <2>3. Magnitude(v) \in CodedWord
    <3>1. Magnitude(v) \in CodeWord
      BY <2>1, MagnitudeOf
    <3>2. Magnitude(v).size = c
      BY DEF Magnitude
    <3> HIDE DEF c
    <3> QED
      BY <2>2, <3>1, <3>2 DEF CodedWord
  <2> HIDE DEF c, m
  <2>4. m \in 0..15 /\ s.run \div 16 \in Nat
    <3>1. \A n \in Nat : n % 16 \in 0..15 /\ n \div 16 \in Nat
      OBVIOUS
    <3> QED
      BY <1>1, <3>1, ZenonT(40) DEF m
  <2>5. 16 * m + c \in 0..255 /\ 240 \in 0..255
    BY <2>2, <2>4
  <2>6. codes \in [0..255 -> CodeWord]
    BY HuffmanCodes, ZenonT(40)
  <2>7. codes[16 * m + c].size >= 1 /\ codes[240].size >= 1
    BY <2>2, <2>4, CodesExist, ZenonT(40)
  <2> HIDE DEF codes
  <2>8. codes[16 * m + c] \in CodedWord /\ codes[240] \in CodedWord
    BY <2>5, <2>6, <2>7 DEF CodedWord
  <2>9. zeros \in Seq(CodedWord)
    BY <2>4, <2>8
  <2>10. last \in Seq(CodedWord)
    BY <2>3, <2>8
  <2>11. code_coefficient(codes, s, v) = [words |-> s.words \o zeros \o last, run |-> 0]
    BY <1>3 DEF code_coefficient, c, m
  <2> HIDE DEF zeros, last
  <2>12. s.words \o zeros \o last \in Seq(CodedWord)
    BY <1>1, <2>9, <2>10, ConcatProperties
  <2> QED
    BY <2>11, <2>12 DEF Coding, codes
<1> QED
  BY <1>2, <1>3

\* A block of coefficients, as load_quantized_coefficients leaves it.
IsBlock(coef) == \A i \in 0..63 : IsCoefficient(coef[i], i)

\* The words of a block: every code is there, and only the bits of a difference 0
\* of DC coefficients may be no bits at all.
IsCodedBlock(block) == \E dc \in CodedWord, bits \in CodeWord, words, end \in Seq(CodedWord) :
                         block = <<dc, bits>> \o words \o end

\* The loop of code_coefficients_pass_two, and the words it leaves with those of
\* the difference d of the first coefficients.
IsPassTwo(after, t, coef) ==
  /\ after[0] = [words |-> <<>>, run |-> 0]
  /\ \A i \in 1..63 : after[i] = code_coefficient(m_huff_codes["AC"][t], after[i - 1], coef[i])
  /\ \A i \in 0..63 : after[i] \in Coding
WordsOfBlock(after, t, d) ==
  <<m_huff_codes["DC"][t][Category(d)], Magnitude(d)>>
  \o after[63].words \o (IF after[63].run = 0 THEN <<>> ELSE <<m_huff_codes["AC"][t][0]>>)

LEMMA PassTwoLoop ==
  ASSUME NEW t \in 1..2, NEW coef, IsBlock(coef), NEW last
  PROVE  \E after : /\ IsPassTwo(after, t, coef)
                    /\ code_coefficients_pass_two(t, coef, last)
                         = WordsOfBlock(after, t, coef[0] - last)
<1> DEFINE codes == m_huff_codes["AC"][t]
           none == [words |-> <<>>, run |-> 0]
           Body(f) == [i \in 0..63 |-> IF i = 0 THEN none
                                       ELSE code_coefficient(codes, f[i - 1], coef[i])]
           after == CHOOSE f : f = Body(f)
           F == [k \in 1..63 |-> [s \in Coding |-> code_coefficient(codes, s, coef[k])]]
<1>1. code_coefficients_pass_two(t, coef, last) = WordsOfBlock(after, t, coef[0] - last)
  BY DEF code_coefficients_pass_two, WordsOfBlock
<1>2. ASSUME NEW k \in 1..63, NEW s \in Coding
      PROVE  code_coefficient(codes, s, coef[k]) \in Coding
  <2>1. k \in 0..63 /\ k # 0
    OBVIOUS
  <2>2. Between(coef[k], -1023, 1023)
    BY <2>1, SMT DEF IsBlock, IsCoefficient
  <2> QED
    BY <2>2, CodeCoefficientType
<1>3. none \in Coding
  BY DEF Coding
<1> HIDE DEF none, codes
<1>4. PICK g \in [0..63 -> Coding] : IsLoop(g, 63, none, F)
  <2>1. F \in [1..63 -> [Coding -> Coding]]
    BY <1>2
  <2> HIDE DEF F
  <2> QED
    BY <1>3, <2>1, LoopExists
<1>5. g = Body(g)
  <2>1. ASSUME NEW i \in 0..63
        PROVE  g[i] = IF i = 0 THEN none ELSE code_coefficient(codes, g[i - 1], coef[i])
    <3>1. CASE i = 0
      BY <1>4, <3>1 DEF IsLoop
    <3>2. CASE i # 0
      <4>1. i \in 1..63 /\ i - 1 \in 0..63
        BY <3>2
      <4>2. g[i] = F[i][g[i - 1]] /\ g[i - 1] \in Coding
        <5> HIDE DEF F
        <5> QED
          BY <1>4, <4>1 DEF IsLoop
      <4> QED
        BY <3>2, <4>1, <4>2
    <3> QED
      BY <3>1, <3>2
  <2> QED
    BY <2>1
<1>6. after = Body(after)
  <2> HIDE DEF Body
  <2> QED
    BY <1>5
<1> HIDE DEF after
<1>7. after[0] = none /\ after[0] \in Coding
  BY <1>3, <1>6
<1>8. ASSUME NEW k \in 1..63
      PROVE  /\ after[k] = code_coefficient(codes, after[k - 1], coef[k])
             /\ after[k - 1] \in Coding => after[k] \in Coding
  <2>1. after[k] = code_coefficient(codes, after[k - 1], coef[k])
    BY <1>6
  <2> QED
    BY <1>2, <2>1
<1>9. \A i \in 0..63 : after[i] \in Coding
  BY <1>7, <1>8, LoopInvariant
<1>10. IsPassTwo(after, t, coef)
  BY <1>7, <1>8, <1>9 DEF IsPassTwo, none, codes
<1> QED
  BY <1>1, <1>10

\* A difference of first coefficients has a code and its bits.
LEMMA DifferenceCoded ==
  ASSUME NEW t \in 1..2, NEW coef, IsBlock(coef), NEW last, IsCoefficient(last, 0)
  PROVE  /\ Between(coef[0] - last, -2047, 2047)
         /\ Category(coef[0] - last) \in 0..11
         /\ m_huff_codes["DC"][t][Category(coef[0] - last)] \in CodedWord
         /\ Magnitude(coef[0] - last) \in CodeWord
<1> DEFINE d == coef[0] - last
<1>1. d \in Int /\ -(2^11) < d /\ d < 2^11 /\ -(2^15) < d /\ d < 2^15 /\ Between(d, -2047, 2047)
  <2>1. IsCoefficient(coef[0], 0)
    BY DEF IsBlock
  <2> QED
    BY <2>1, SMT DEF IsCoefficient, Between
<1> HIDE DEF d
<1>2. Magnitude(d) \in CodeWord
  BY <1>1, MagnitudeOf
<1>3. Category(d) \in 0..11
  BY <1>1, CategoryOf
<1>4. m_huff_codes["DC"][t][Category(d)] \in CodedWord
  <2>1. Category(d) \in 0..255
    BY <1>3
  <2>2. m_huff_codes["DC"][t] \in [0..255 -> CodeWord]
    BY HuffmanCodes
  <2> QED
    BY <1>3, <2>1, <2>2, CodesExist DEF CodedWord
<1> QED
  BY <1>1, <1>2, <1>3, <1>4 DEF d

\* The end of a block has a code.
LEMMA EndCoded ==
  ASSUME NEW t \in 1..2
  PROVE  m_huff_codes["AC"][t][0] \in CodedWord
<1> DEFINE codes == m_huff_codes["AC"][t]
<1>1. 0 \in 0..255
  OBVIOUS
<1>2. codes \in [0..255 -> CodeWord]
  BY HuffmanCodes
<1>3. codes[0].size >= 1
  BY CodesExist
<1> HIDE DEF codes
<1>4. codes[0] \in CodedWord
  BY <1>1, <1>2, <1>3 DEF CodedWord
<1> QED
  BY <1>4 DEF codes

(* code_coefficients_pass_two looks up no code that the tables do not have,     *)
(* whatever the coefficients of this block and the first one of the last.       *)
THEOREM BlockCoded ==
  ASSUME NEW t \in 1..2, NEW coef, IsBlock(coef), NEW last, IsCoefficient(last, 0)
  PROVE  IsCodedBlock(code_coefficients_pass_two(t, coef, last))
<1> DEFINE d == coef[0] - last
           dc == m_huff_codes["DC"][t][Category(d)]
           bits == Magnitude(d)
<1>1. PICK after : /\ IsPassTwo(after, t, coef)
                   /\ code_coefficients_pass_two(t, coef, last) = WordsOfBlock(after, t, d)
  BY PassTwoLoop
<1> DEFINE words == after[63].words
           end == IF after[63].run = 0 THEN <<>> ELSE <<m_huff_codes["AC"][t][0]>>
<1>2. dc \in CodedWord /\ bits \in CodeWord
  BY DifferenceCoded
<1>3. words \in Seq(CodedWord)
  <2>1. after[63] \in Coding
    BY <1>1 DEF IsPassTwo
  <2> QED
    BY <2>1 DEF Coding
<1>4. end \in Seq(CodedWord)
  BY EndCoded
<1>5. code_coefficients_pass_two(t, coef, last) = <<dc, bits>> \o words \o end
  BY <1>1 DEF WordsOfBlock
<1> HIDE DEF dc, bits, words, end
<1> QED
  BY <1>2, <1>3, <1>4, <1>5 DEF IsCodedBlock

-------------------------------------------------------------------------------
(* The blocks of the lines of an MCU row. *)

Sample == {x \in Int : Between(x, -128, 127)}

LEMMA ByteBounds == \A b \in Byte : Between(b, 0, 255)
  BY SMT DEF Byte, Between

LEMMA SampleOfByte == \A b \in Byte : b - 128 \in Sample
  BY SMT DEF Byte, Sample, Between

\* Where sample k of a block is in the lines.
LEMMA PlaceInBlock ==
  \A k \in 0..63 : /\ k \div 8 \in 0..7 /\ k % 8 \in 0..7
                   /\ k \div 8 + 1 \in 1..8 /\ (k % 8) + 1 \in 1..8
  OBVIOUS

LEMMA GreyBlock ==
  ASSUME NEW w \in Nat, NEW lines, \A r \in 1..8 : lines[r] \in [1..w -> Byte],
         NEW x \in Nat, 8 * x + 8 <= w
  PROVE  load_block_8_8_grey(lines, x) \in [0..63 -> Sample]
<1>1. ASSUME NEW k \in 0..63
      PROVE  lines[k \div 8 + 1][8 * x + (k % 8) + 1] - 128 \in Sample
  <2> DEFINE r == k \div 8 + 1
             j == k % 8
             p == 8 * x + j + 1
  <2>1. r \in 1..8 /\ j \in 0..7
    BY PlaceInBlock
  <2> HIDE DEF r, j
  <2>2. p \in 1..w
    BY <2>1
  <2> HIDE DEF p
  <2>3. lines[r][p] \in Byte
    BY <2>1, <2>2
  <2> QED
    BY <2>3, SampleOfByte DEF r, j, p
<1> QED
  BY <1>1 DEF load_block_8_8_grey

LEMMA ColourBlock ==
  ASSUME NEW w \in Nat, NEW lines, \A r \in 1..16 : lines[r] \in [1..w -> Byte \X Byte \X Byte],
         NEW x \in Nat, 8 * x + 8 <= w, NEW y \in 0..1, NEW c \in 0..2
  PROVE  load_block_8_8(lines, x, y, c) \in [0..63 -> Sample]
<1>1. ASSUME NEW k \in 0..63
      PROVE  lines[8 * y + k \div 8 + 1][8 * x + (k % 8) + 1][c + 1] - 128 \in Sample
  <2> DEFINE i == k \div 8
             r == 8 * y + i + 1
             j == k % 8
             p == 8 * x + j + 1
             pixel == lines[r][p]
  <2>1. i \in 0..7 /\ j \in 0..7
    BY PlaceInBlock
  <2> HIDE DEF i, j
  <2>2. p \in 1..w /\ r \in 1..16 /\ c + 1 \in 1..3
    BY <2>1
  <2> HIDE DEF p, r
  <2>3. pixel \in Byte \X Byte \X Byte
    BY <2>2
  <2> HIDE DEF pixel
  <2>4. pixel[c + 1] \in Byte
    BY <2>2, <2>3
  <2> QED
    BY <2>4, SampleOfByte DEF r, i, j, p, pixel
<1> QED
  BY <1>1 DEF load_block_8_8

LEMMA MeanBlock ==
  ASSUME NEW w \in Nat, NEW lines, \A r \in 1..16 : lines[r] \in [1..w -> Byte \X Byte \X Byte],
         NEW x \in Nat, 16 * x + 16 <= w, NEW c \in 0..2
  PROVE  load_block_16_8(lines, x, c) \in [0..63 -> Sample]
<1> DEFINE r(k) == 2 * (k \div 8) + 1
           p(k) == 16 * x + 2 * (k % 8) + 1
           round(k) == IF (k \div 8 + k) % 2 = 0 THEN 0 ELSE 2
           mean(k) == (lines[r(k)][p(k)][c + 1] + lines[r(k)][p(k) + 1][c + 1]
                       + lines[r(k) + 1][p(k)][c + 1] + lines[r(k) + 1][p(k) + 1][c + 1]
                       + round(k)) \div 4 - 128
<1>1. load_block_16_8(lines, x, c) = [k \in 0..63 |-> mean(k)]
  BY DEF load_block_16_8
<1>2. ASSUME NEW m \in 1..16, NEW n \in 1..w
      PROVE  lines[m][n][c + 1] \in Byte
  <2>1. lines[m][n] \in Byte \X Byte \X Byte
    OBVIOUS
  <2>2. c + 1 \in 1..3
    OBVIOUS
  <2> QED
    BY <2>1, <2>2
<1>3. ASSUME NEW k \in 0..63
      PROVE  mean(k) \in Sample
  <2> DEFINE i == k \div 8
             j == k % 8
             m == 2 * i + 1
             n == 16 * x + 2 * j + 1
             a1 == lines[m][n][c + 1]
             a2 == lines[m][n + 1][c + 1]
             a3 == lines[m + 1][n][c + 1]
             a4 == lines[m + 1][n + 1][c + 1]
             a5 == round(k)
  <2>1. i \in 0..7 /\ j \in 0..7
    BY PlaceInBlock
  <2> HIDE DEF i, j
  <2>2. m \in 1..16 /\ m + 1 \in 1..16 /\ n \in 1..w /\ n + 1 \in 1..w
    BY <2>1
  <2> HIDE DEF m, n
  <2>3. a1 \in Byte /\ a2 \in Byte /\ a3 \in Byte /\ a4 \in Byte
    BY <1>2, <2>2
  <2> HIDE DEF a1, a2, a3, a4
  <2>4. a5 \in {0, 2}
    OBVIOUS
  <2> HIDE DEF a5
  <2>5. (a1 + a2 + a3 + a4 + a5) \div 4 - 128 \in Sample
    <3>1. \A b \in Byte : Between(b, 0, 255)
      BY ByteBounds
    <3>2. /\ a1 \in Int /\ 0 <= a1 /\ a1 <= 255 /\ a2 \in Int /\ 0 <= a2 /\ a2 <= 255
          /\ a3 \in Int /\ 0 <= a3 /\ a3 <= 255 /\ a4 \in Int /\ 0 <= a4 /\ a4 <= 255
      BY <2>3, <3>1 DEF Between
    <3> QED
      BY <2>4, <3>2, SMT DEF Sample, Between
  <2> QED
    BY <2>5 DEF a1, a2, a3, a4, a5, m, n, i, j
<1> HIDE DEF mean
<1> QED
  BY <1>1, <1>3

-------------------------------------------------------------------------------
(* Bits. *)

\* The number up to two bytes stand for.
BytesValue(bytes) == CASE Len(bytes) = 0 -> 0
                   [] Len(bytes) = 1 -> bytes[1]
                   [] OTHER -> 256 * bytes[1] + bytes[2]

CutByte(buffer, i) == (buffer \div 2^(24 - 8 * i)) % 256

(* The first `in' of the 24 bits of a buffer, which are the number `all', leave *)
(* it as whole bytes and the bits of `rest'.                                    *)
IsCut(buffer, in, all, rest) ==
  LET n == in \div 8
      r == in % 8
  IN  /\ rest \in Nat /\ rest < 2^r
      /\ (buffer % 2^(24 - 8 * n)) * 2^(8 * n) = rest * 2^(24 - r)
      /\ \A i \in 1..n : CutByte(buffer, i) \in Byte
      /\ all = BytesValue([i \in 1..n |-> CutByte(buffer, i)]) * 2^r + rest

LEMMA Quotient ==
  ASSUME NEW q \in Nat, NEW x \in Nat
  PROVE  /\ x < 2^16 => (q * 2^16 + x) \div 2^16 = q /\ (q * 2^16 + x) % 2^16 = x
         /\ x < 2^8 => (q * 2^8 + x) \div 2^8 = q /\ (q * 2^8 + x) % 2^8 = x
<1>1. 2^16 = 65536 /\ 2^8 = 256
  BY SMT
<1> QED
  BY <1>1, SMT

LEMMA ProductGrows ==
  ASSUME NEW x \in Nat, NEW a \in Nat, NEW c \in Nat, x < a, 1 <= c
  PROVE  x * c < a * c
<1>1. (x + 1) * c <= a * c
  OBVIOUS
<1>2. (x + 1) * c = x * c + c
  OBVIOUS
<1> QED
  BY <1>1, <1>2

\* A number of 8 + r bits is a byte followed by r bits.
LEMMA TopByte ==
  ASSUME NEW m \in Nat, NEW r \in 0..7, NEW a \in Nat, a < m * 2^r
  PROVE  /\ a = (a \div 2^r) * 2^r + (a % 2^r)
         /\ a \div 2^r \in Nat /\ a \div 2^r < m
         /\ a % 2^r \in Nat /\ a % 2^r < 2^r
<1> DEFINE d == 2^r
<1>1. d \in Nat /\ 1 <= d
  BY PowersGrow
<1> HIDE DEF d
<1>2. /\ a \div d \in Nat /\ a % d \in Nat /\ a % d < d
      /\ a = (a \div d) * d + (a % d)
  BY <1>1, SMT
<1>3. a < m * d
  BY DEF d
<1> DEFINE q == a \div d
<1>4. q < m
  <2> HIDE DEF q
  <2>1. q \in Nat /\ q * d <= a
    BY <1>1, <1>2 DEF q
  <2>2. ASSUME m <= q PROVE FALSE
    <3>1. m * d <= q * d
      BY <1>1, <2>1, <2>2
    <3> QED
      BY <1>3, <2>1, <3>1, <1>1
  <2> QED
    BY <2>1, <2>2
<1> QED
  BY <1>2, <1>4 DEF d, q

LEMMA BitsTogether ==
  ASSUME NEW k \in 0..7, NEW h \in Nat, h < 2^k, NEW l \in 0..16, NEW b \in Nat, b < 2^l
  PROVE  /\ h * 2^l + b \in Nat /\ h * 2^l + b < 2^(k + l)
         /\ h * 2^(24 - k) + b * 2^(24 - (k + l)) = (h * 2^l + b) * 2^(24 - (k + l))
<1> DEFINE p == 2^l
           s == 2^(24 - (k + l))
           t == 2^k
<1>1. p \in Nat /\ s \in Nat /\ t \in Nat /\ 1 <= p /\ 1 <= s
  <2>1. l \in 0..24 /\ k \in 0..24 /\ 24 - (k + l) \in 0..24
    OBVIOUS
  <2> QED
    BY <2>1, PowerStep
<1>2. 2^(24 - k) = p * s
  <2>1. l \in Nat /\ 24 - (k + l) \in Nat /\ l + (24 - (k + l)) <= 24
    OBVIOUS
  <2>2. 2^l * 2^(24 - (k + l)) = 2^(l + (24 - (k + l)))
    BY <2>1, PowerSum
  <2>3. l + (24 - (k + l)) = 24 - k
    OBVIOUS
  <2> QED
    BY <2>2, <2>3
<1>3. 2^(k + l) = t * p
  <2>1. l \in Nat /\ k \in Nat /\ k + l <= 24
    OBVIOUS
  <2> QED
    BY <2>1, PowerSum
<1>4. h < t /\ b < p
  OBVIOUS
<1> HIDE DEF p, s, t
<1>5. h * p + b < t * p
  <2>1. h + 1 <= t
    BY <1>1, <1>4
  <2>2. (h + 1) * p <= t * p
    BY <1>1, <2>1
  <2>3. (h + 1) * p = h * p + p
    BY <1>1
  <2> QED
    BY <1>1, <1>4, <2>2, <2>3
<1>6. h * (p * s) + b * s = (h * p + b) * s
  BY <1>1
<1>7. h * p + b \in Nat
  BY <1>1
<1> QED
  BY <1>2, <1>3, <1>5, <1>6, <1>7 DEF p, s, t

LEMMA CutIntoBytes ==
  ASSUME NEW in \in 0..23, NEW all \in Nat, all < 2^in
  PROVE  \E rest \in Nat : IsCut(all * 2^(24 - in), in, all, rest)
<1> DEFINE n == in \div 8
           r == in % 8
           buffer == all * 2^(24 - in)
           bytes == [i \in 1..n |-> CutByte(buffer, i)]
<1>1. n \in 0..2 /\ r \in 0..7 /\ in = 8 * n + r
  OBVIOUS
<1>2. buffer = all * 2^(24 - in) /\ all < 2^in
  OBVIOUS
<1>3. r \in 0..24 /\ 2^r \in Nat /\ 1 <= 2^r
  <2>1. r \in 0..24
    BY <1>1
  <2> QED
    BY <2>1, PowerStep
<1>4. 16 - r \in 0..24 /\ 8 - r \in 0..24
  BY <1>1
<1> HIDE DEF n, r, buffer
<1>5. CASE n = 0
  <2>1. in = r
    BY <1>1, <1>5
  <2>2. /\ buffer \in Nat /\ buffer < 2^24
    <3>1. 24 - r \in 0..24
      BY <1>1
    <3>2. 2^(24 - r) \in Nat /\ 1 <= 2^(24 - r)
      BY <3>1, PowerStep
    <3>3. 2^r * 2^(24 - r) = 2^24
      <4>1. r \in Nat /\ 24 - r \in Nat /\ r + (24 - r) = 24 /\ r + (24 - r) <= 24
        BY <1>1
      <4>2. 2^r * 2^(24 - r) = 2^(r + (24 - r))
        BY <4>1, PowerSum
      <4> QED
        BY <4>1, <4>2
    <3> DEFINE d == 2^(24 - r)
               t == 2^r
    <3>4. all < t /\ buffer = all * d /\ t * d = 2^24 /\ d \in Nat /\ 1 <= d /\ t \in Nat
      BY <1>2, <1>3, <2>1, <3>2, <3>3
    <3> HIDE DEF d, t
    <3>5. all * d < t * d
      BY <3>4, ProductGrows
    <3> QED
      BY <3>4, <3>5
  <2>3. (buffer % 2^(24 - 8 * n)) * 2^(8 * n) = all * 2^(24 - r)
    <3>1. 24 - 8 * n = 24 /\ 8 * n = 0 /\ 2^0 = 1
      BY <1>5
    <3>2. buffer % 2^24 = buffer
      <4>1. 2^24 = 16777216
        BY SMT
      <4> QED
        BY <2>2, <4>1, SMT
    <3>3. buffer * 1 = buffer /\ buffer = all * 2^(24 - r)
      BY <1>2, <2>1, <2>2
    <3> QED
      BY <3>1, <3>2, <3>3
  <2>4. BytesValue(bytes) = 0
    <3>1. Len(bytes) = 0
      BY <1>5
    <3> HIDE DEF bytes
    <3> QED
      BY <3>1 DEF BytesValue
  <2>5. all = BytesValue(bytes) * 2^r + all
    BY <1>3, <2>4
  <2>6. IsCut(buffer, in, all, all)
    BY <1>2, <1>5, <2>1, <2>3, <2>5 DEF IsCut, n, r
  <2> QED
    BY <2>6 DEF buffer
<1>6. CASE n = 1
  <2> DEFINE q == all \div 2^r
             x == all % 2^r
             y == x * 2^(16 - r)
  <2>1. all < 2^8 * 2^r
    <3>1. 2^in = 2^8 * 2^r
      <4>1. 8 \in Nat /\ r \in Nat /\ 8 + r <= 24 /\ in = 8 + r
        BY <1>1, <1>6
      <4> QED
        BY <4>1, PowerSum
    <3> QED
      BY <1>2, <3>1
  <2>2. /\ all = q * 2^r + x /\ q \in Nat /\ q < 2^8 /\ x \in Nat /\ x < 2^r
    <3>1. 2^8 \in Nat
      OBVIOUS
    <3> QED
      BY <1>1, <2>1, <3>1, TopByte
  <2>3. 2^(16 - r) \in Nat /\ 1 <= 2^(16 - r)
    BY <1>4, PowerStep
  <2>4. 2^r * 2^(16 - r) = 2^16
    <3>1. r \in Nat /\ 16 - r \in Nat /\ r + (16 - r) = 16 /\ r + (16 - r) <= 24
      BY <1>1
    <3>2. 2^r * 2^(16 - r) = 2^(r + (16 - r))
      BY <3>1, PowerSum
    <3> QED
      BY <3>1, <3>2
  <2>5. 24 - in = 16 - r
    BY <1>1, <1>6
  <2> HIDE DEF q, x
  <2>6. y \in Nat /\ y < 2^16
    <3> DEFINE c == 2^(16 - r)
               t == 2^r
    <3>1. c \in Nat /\ 1 <= c /\ t \in Nat /\ t * c = 2^16 /\ x \in Nat /\ x < t
      BY <1>3, <2>2, <2>3, <2>4
    <3> HIDE DEF c, t
    <3>2. x * c < t * c /\ x * c \in Nat
      BY <3>1, ProductGrows
    <3> QED
      BY <3>1, <3>2 DEF c
  <2>7. buffer = q * 2^16 + y
    <3> DEFINE c == 2^(16 - r)
               t == 2^r
    <3>1. c \in Nat /\ t \in Nat /\ t * c = 2^16 /\ all = q * t + x /\ buffer = all * c
      BY <1>2, <1>3, <2>2, <2>3, <2>4, <2>5
    <3> HIDE DEF c, t
    <3>2. (q * t + x) * c = q * (t * c) + x * c
      BY <2>2, <3>1
    <3> QED
      BY <3>1, <3>2 DEF c
  <2> HIDE DEF y
  <2>8. buffer \div 2^16 = q /\ buffer % 2^16 = y
    BY <2>2, <2>6, <2>7, Quotient
  <2>9. CutByte(buffer, 1) = q
    <3>1. 24 - 8 * 1 = 16 /\ 2^8 = 256
      BY SMT
    <3>2. q % 256 = q
      BY <2>2, <3>1, SMT
    <3> QED
      BY <2>8, <3>1, <3>2 DEF CutByte
  <2>10. q \in Byte
    <3>1. 2^8 = 256
      BY SMT
    <3> QED
      BY <2>2, <3>1 DEF Byte
  <2>11. (buffer % 2^(24 - 8 * n)) * 2^(8 * n) = x * 2^(24 - r)
    <3>1. 24 - 8 * n = 16 /\ 8 * n = 8
      BY <1>6
    <3>2. 2^(16 - r) * 2^8 = 2^(24 - r)
      <4>1. 16 - r \in Nat /\ 8 \in Nat /\ (16 - r) + 8 = 24 - r /\ (16 - r) + 8 <= 24
        BY <1>1
      <4> QED
        BY <4>1, PowerSum, ZenonT(40)
    <3> DEFINE c == 2^(16 - r)
               g == 2^8
    <3>3. g \in Nat /\ c \in Nat /\ y = x * c
      BY <2>3 DEF y
    <3>4. c * g = 2^(24 - r)
      BY <3>2
    <3> HIDE DEF c, g
    <3>5. (x * c) * g = x * (c * g)
      BY <2>2, <3>3
    <3> QED
      BY <2>8, <3>1, <3>3, <3>4, <3>5 DEF g
  <2>12. \A i \in 1..n : CutByte(buffer, i) \in Byte
    BY <1>6, <2>9, <2>10
  <2>13. BytesValue(bytes) = q
    <3>1. Len(bytes) = 1 /\ bytes[1] = CutByte(buffer, 1)
      BY <1>6
    <3> HIDE DEF bytes
    <3> QED
      BY <2>9, <3>1 DEF BytesValue
  <2>14. IsCut(buffer, in, all, x)
    BY <2>2, <2>11, <2>12, <2>13 DEF IsCut, n, r
  <2> QED
    BY <2>2, <2>14 DEF buffer
<1>7. CASE n = 2
  <2> DEFINE q == all \div 2^r
             x == all % 2^r
             y == x * 2^(8 - r)
             q1 == q \div 2^8
             q2 == q % 2^8
  <2>1. all < 2^16 * 2^r
    <3>1. 2^in = 2^16 * 2^r
      <4>1. 16 \in Nat /\ r \in Nat /\ 16 + r <= 24 /\ in = 16 + r
        BY <1>1, <1>7
      <4> QED
        BY <4>1, PowerSum
    <3> QED
      BY <1>2, <3>1
  <2>2. /\ all = q * 2^r + x /\ q \in Nat /\ q < 2^16 /\ x \in Nat /\ x < 2^r
    <3>1. 2^16 \in Nat
      OBVIOUS
    <3> QED
      BY <1>1, <2>1, <3>1, TopByte
  <2>3. 2^(8 - r) \in Nat /\ 1 <= 2^(8 - r)
    BY <1>4, PowerStep
  <2>4. 2^r * 2^(8 - r) = 2^8
    <3>1. r \in Nat /\ 8 - r \in Nat /\ r + (8 - r) = 8 /\ r + (8 - r) <= 24
      BY <1>1
    <3>2. 2^r * 2^(8 - r) = 2^(r + (8 - r))
      BY <3>1, PowerSum
    <3> QED
      BY <3>1, <3>2
  <2>5. 24 - in = 8 - r
    BY <1>1, <1>7
  <2> HIDE DEF q, x
  <2>6. y \in Nat /\ y < 2^8
    <3> DEFINE c == 2^(8 - r)
               t == 2^r
    <3>1. c \in Nat /\ 1 <= c /\ t \in Nat /\ t * c = 2^8 /\ x \in Nat /\ x < t
      BY <1>3, <2>2, <2>3, <2>4
    <3> HIDE DEF c, t
    <3>2. x * c < t * c /\ x * c \in Nat
      BY <3>1, ProductGrows
    <3> QED
      BY <3>1, <3>2 DEF c
  <2>7. buffer = q * 2^8 + y
    <3> DEFINE c == 2^(8 - r)
               t == 2^r
    <3>1. c \in Nat /\ t \in Nat /\ t * c = 2^8 /\ all = q * t + x /\ buffer = all * c
      BY <1>2, <1>3, <2>2, <2>3, <2>4, <2>5
    <3> HIDE DEF c, t
    <3>2. (q * t + x) * c = q * (t * c) + x * c
      BY <2>2, <3>1
    <3> QED
      BY <3>1, <3>2 DEF c
  <2> HIDE DEF y
  <2>8. buffer \div 2^8 = q /\ buffer % 2^8 = y
    BY <2>2, <2>6, <2>7, Quotient
  <2>9. /\ q1 \in Byte /\ q2 \in Byte /\ 256 * q1 + q2 = q
        /\ buffer \in Nat /\ buffer \div 2^16 = q1 /\ q1 % 256 = q1
    <3>1. 2^8 = 256 /\ 2^16 = 65536
      BY SMT
    <3>2. q1 = q \div 256 /\ q2 = q % 256 /\ buffer = q * 256 + y
      BY <2>7, <3>1
    <3> HIDE DEF q1, q2
    <3>3. /\ q1 \in Int /\ 0 <= q1 /\ q1 <= 255 /\ q2 \in Int /\ 0 <= q2 /\ q2 <= 255
          /\ 256 * q1 + q2 = q /\ buffer \in Nat /\ buffer \div 65536 = q1 /\ q1 % 256 = q1
      BY <2>2, <2>6, <3>1, <3>2, SMT
    <3> QED
      BY <3>1, <3>3 DEF Byte
  <2>10. CutByte(buffer, 1) = q1 /\ CutByte(buffer, 2) = q2
    <3>1. 24 - 8 * 1 = 16 /\ 24 - 8 * 2 = 8 /\ 2^8 = 256
      BY SMT
    <3> HIDE DEF q1
    <3> QED
      BY <2>8, <2>9, <3>1 DEF CutByte
  <2> HIDE DEF q1, q2
  <2>11. (buffer % 2^(24 - 8 * n)) * 2^(8 * n) = x * 2^(24 - r)
    <3>1. 24 - 8 * n = 8 /\ 8 * n = 16
      BY <1>7
    <3>2. 2^(8 - r) * 2^16 = 2^(24 - r)
      <4>1. 8 - r \in Nat /\ 16 \in Nat /\ (8 - r) + 16 = 24 - r /\ (8 - r) + 16 <= 24
        BY <1>1
      <4> QED
        BY <4>1, PowerSum, ZenonT(40)
    <3> DEFINE c == 2^(8 - r)
               g == 2^16
    <3>3. g \in Nat /\ c \in Nat /\ y = x * c
      BY <2>3 DEF y
    <3>4. c * g = 2^(24 - r)
      BY <3>2
    <3> HIDE DEF c, g
    <3>5. (x * c) * g = x * (c * g)
      BY <2>2, <3>3
    <3> QED
      BY <2>8, <3>1, <3>3, <3>4, <3>5 DEF g
  <2>12. \A i \in 1..n : CutByte(buffer, i) \in Byte
    BY <1>7, <2>9, <2>10
  <2>13. BytesValue(bytes) = q
    <3>1. Len(bytes) = 2 /\ bytes[1] = CutByte(buffer, 1) /\ bytes[2] = CutByte(buffer, 2)
      BY <1>7
    <3> HIDE DEF bytes
    <3> QED
      BY <2>9, <2>10, <3>1 DEF BytesValue
  <2>14. IsCut(buffer, in, all, x)
    BY <2>2, <2>11, <2>12, <2>13 DEF IsCut, n, r
  <2> QED
    BY <2>2, <2>14 DEF buffer
<1> QED
  BY <1>1, <1>5, <1>6, <1>7

Binary == {0, 1}
\* The bits of a number, the highest first.
Bits(v, size) == [i \in 1..size |-> (v \div 2^(size - i)) % 2]

LEMMA QuotientIs ==
  ASSUME NEW x \in Nat, NEW q \in Nat, NEW d \in Nat, NEW y \in Nat, x = q * d + y, y < d
  PROVE  x \div d = q
<1> DEFINE p == x \div d
           z == x % d
<1>1. 1 <= d
  OBVIOUS
<1>2. p \in Nat /\ z \in Nat /\ z < d /\ x = p * d + z
  BY <1>1, SMT
<1> HIDE DEF p, z
<1>3. CASE p < q
  <2>1. (p + 1) * d <= q * d
    BY <1>2, <1>3
  <2>2. (p + 1) * d = p * d + d
    BY <1>2
  <2> QED
    BY <1>2, <2>1, <2>2
<1>4. CASE q < p
  <2>1. (q + 1) * d <= p * d
    BY <1>2, <1>4
  <2>2. (q + 1) * d = q * d + d
    BY <1>2
  <2> QED
    BY <1>2, <2>1, <2>2
<1>5. p = q
  BY <1>2, <1>3, <1>4
<1> QED
  BY <1>5 DEF p

\* The bits in front of the last of a number do not depend on the last.
LEMMA FrontBits ==
  ASSUME NEW a \in Nat, NEW b \in Nat, NEW d \in Nat, NEW e \in Nat, 1 <= e, b < d,
         NEW x, x = a * d + b, NEW f, f = d * e
  PROVE  x \div f = a \div e
<1> DEFINE q == a \div e
           r == a % e
           y == r * d + b
<1>1. q \in Nat /\ r \in Nat /\ r < e /\ a = q * e + r
  BY SMT
<1> HIDE DEF q, r
<1>2. y \in Nat /\ y < d * e
  <2>1. (r + 1) * d <= e * d
    BY <1>1
  <2>2. (r + 1) * d = r * d + d /\ e * d = d * e
    BY <1>1
  <2> QED
    BY <1>1, <2>1, <2>2
<1>3. a * d + b = q * (d * e) + y
  <2>1. (q * e + r) * d = q * (d * e) + r * d
    BY <1>1
  <2> QED
    BY <1>1, <2>1
<1>4. a * d + b \in Nat /\ d * e \in Nat
  OBVIOUS
<1> HIDE DEF y
<1>5. x \div f = q
  <2>1. x \in Nat /\ f \in Nat /\ x = q * f + y /\ y < f /\ q \in Nat /\ y \in Nat
    BY <1>1, <1>2, <1>3, <1>4
  <2> QED
    BY <2>1, QuotientIs
<1> QED
  BY <1>5 DEF q

\* The last bits of a number do not depend on those in front of them.
LEMMA LastBits ==
  ASSUME NEW a \in Nat, NEW b \in Nat, NEW d \in Nat, 1 <= d
  PROVE  ((a * 2) * d + b) \div d % 2 = (b \div d) % 2
<1> DEFINE q == b \div d
           y == b % d
           x == (a * 2) * d + b
           p == a * 2 + q
<1>1. q \in Nat /\ y \in Nat /\ y < d /\ b = q * d + y
  BY SMT
<1> HIDE DEF q, y
<1>2. x = p * d + y /\ x \in Nat /\ p \in Nat
  <2>1. (a * 2 + q) * d = (a * 2) * d + q * d
    BY <1>1
  <2>2. (a * 2) * d \in Nat /\ q * d \in Nat
    BY <1>1
  <2> QED
    BY <1>1, <2>1, <2>2
<1>3. p % 2 = q % 2
  BY <1>1, SMT
<1> HIDE DEF x, p
<1>4. x \div d = p
  BY <1>1, <1>2, QuotientIs
<1> QED
  BY <1>3, <1>4 DEF x, q

LEMMA BitsType ==
  ASSUME NEW v \in Nat, NEW n \in 0..24
  PROVE  Bits(v, n) \in Seq(Binary) /\ Len(Bits(v, n)) = n
<1>1. ASSUME NEW i \in 1..n
      PROVE  (v \div 2^(n - i)) % 2 \in Binary
  <2>1. n - i \in 0..24
    OBVIOUS
  <2>2. 2^(n - i) \in Nat /\ 1 <= 2^(n - i)
    BY <2>1, PowerStep
  <2>3. \A d \in Nat : 1 <= d => (v \div d) % 2 \in Binary
    BY SMT DEF Binary
  <2> QED
    BY <2>2, <2>3
<1>2. n \in Nat
  OBVIOUS
<1> QED
  BY <1>1, <1>2 DEF Bits

\* The bits of v are the n bits of a and then the m bits of b.
SplitsInto(v, size, a, n, b, m) ==
  /\ n \in Nat /\ m \in Nat /\ n + m <= 24 /\ size = n + m
  /\ a \in Nat /\ b \in Nat /\ b < 2^m /\ v = a * 2^m + b

LEMMA BitsConcat ==
  ASSUME NEW v, NEW size, NEW a, NEW n, NEW b, NEW m, SplitsInto(v, size, a, n, b, m)
  PROVE  Bits(v, size) = Bits(a, n) \o Bits(b, m)
<1> USE DEF SplitsInto
<1> SUFFICES Bits(a * 2^m + b, n + m) = Bits(a, n) \o Bits(b, m)
  OBVIOUS
<1> DEFINE s == Bits(a, n)
           t == Bits(b, m)
           d == 2^m
           x == a * d + b
           u == Bits(x, n + m)
<1>1. n \in 0..24 /\ m \in 0..24 /\ n + m \in 0..24
  OBVIOUS
<1>2. d \in Nat /\ 1 <= d /\ b < d
  BY <1>1, PowerStep
<1> HIDE DEF d
<1>3. x \in Nat
  BY <1>2
<1>4. /\ s \in Seq(Binary) /\ Len(s) = n /\ t \in Seq(Binary) /\ Len(t) = m
      /\ u \in Seq(Binary) /\ Len(u) = n + m
  BY <1>1, <1>3, BitsType
<1>5. ASSUME NEW i \in 1..(n + m)
      PROVE  u[i] = IF i <= n THEN s[i] ELSE t[i - n]
  <2>1. u[i] = (x \div 2^((n + m) - i)) % 2
    BY DEF Bits
  <2>2. CASE i <= n
    <3> DEFINE e == 2^(n - i)
    <3>1. n - i \in 0..24 /\ n - i \in Nat /\ m + (n - i) <= 24 /\ m + (n - i) = (n + m) - i
      BY <2>2
    <3>2. e \in Nat /\ 1 <= e
      BY <3>1, PowerStep
    <3>3. 2^((n + m) - i) = d * e
      <4>1. 2^m * 2^(n - i) = 2^(m + (n - i))
        BY <3>1, PowerSum
      <4> QED
        BY <3>1, <4>1 DEF d
    <3>4. s[i] = (a \div e) % 2
      <4>1. i \in 1..n
        BY <2>2
      <4> QED
        BY <4>1 DEF Bits
    <3> HIDE DEF e, s
    <3>5. x \div (d * e) = a \div e
      <4>1. x = a * d + b
        OBVIOUS
      <4> DEFINE f == d * e
      <4>2. f = d * e
        OBVIOUS
      <4> HIDE DEF x, f, u
      <4> QED
        BY <1>2, <3>2, <4>1, <4>2, FrontBits
    <3> QED
      BY <2>1, <2>2, <3>3, <3>4, <3>5
  <2>3. CASE ~(i <= n)
    <3> DEFINE j == i - n
               e == 2^(m - j)
               f == 2^(j - 1)
    <3>1. /\ j \in 1..m /\ m - j \in 0..24 /\ m - j \in Nat /\ j - 1 \in 0..24 /\ j - 1 \in Nat
          /\ (n + m) - i = m - j /\ (j - 1) + (m - j) = m - 1 /\ m - 1 \in 0..24 /\ m \in 1..24
          /\ (j - 1) + (m - j) <= 24
      BY <1>1, <2>3
    <3>2. e \in Nat /\ 1 <= e /\ f \in Nat
      BY <3>1, PowerStep
    <3>3. d = 2 * (f * e)
      <4>1. 2^(j - 1) * 2^(m - j) = 2^((j - 1) + (m - j))
        BY <3>1, PowerSum
      <4>2. 2^m = 2 * 2^(m - 1)
        BY <3>1, PowerStep
      <4> QED
        BY <3>1, <4>1, <4>2 DEF d
    <3>4. t[j] = (b \div e) % 2
      BY <3>1 DEF Bits
    <3>5. u[i] = (x \div e) % 2
      BY <2>1, <3>1
    <3> HIDE DEF e, f, t, u, j
    <3>6. x = ((a * f) * 2) * e + b
      <4>1. a * (2 * (f * e)) = ((a * f) * 2) * e
        BY <3>2
      <4> QED
        BY <3>3, <4>1
    <3>7. (x \div e) % 2 = (b \div e) % 2
      <4>1. a * f \in Nat
        BY <3>2
      <4>2. (((a * f) * 2) * e + b) \div e % 2 = (b \div e) % 2
        BY <3>2, <4>1, LastBits, Zenon
      <4> QED
        BY <3>6, <4>2, Zenon
    <3> QED
      BY <2>3, <3>4, <3>5, <3>7 DEF j
  <2> QED
    BY <2>2, <2>3
<1> HIDE DEF s, t, u
<1>6. /\ s \o t \in Seq(Binary) /\ Len(s \o t) = n + m
      /\ \A i \in 1..(n + m) : (s \o t)[i] = IF i <= n THEN s[i] ELSE t[i - n]
  <2>1. s \in Seq(Binary) /\ t \in Seq(Binary)
    BY <1>4
  <2>2. /\ s \o t \in Seq(Binary) /\ Len(s \o t) = Len(s) + Len(t)
        /\ \A i \in 1..(Len(s) + Len(t)) :
             (s \o t)[i] = IF i <= Len(s) THEN s[i] ELSE t[i - Len(s)]
    BY <2>1, ConcatProperties
  <2> QED
    BY <1>4, <2>2
<1>7. u = s \o t
  BY <1>4, <1>5, <1>6, SeqEqual
<1> QED
  BY <1>7 DEF s, t, u, d

===============================================================================
