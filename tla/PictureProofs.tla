----------------------------- MODULE PictureProofs -----------------------------
(* The picture fmt2jpg hands over is the frame, for frames of every kind, size  *)
(* and content and every quality: a decoder finds the segments of the header,   *)
(* reads back the blocks that have been coded, and each block is the transform  *)
(* of the pixels it covers, to within half a quantiser step.                    *)
(*                                                                              *)
(* The sections: the header; the whole file; the transform and the quantiser;   *)
(* where the blocks lie in the frame; what the encoder has coded at each line,  *)
(* which is the invariant; and the theorem.                                     *)
EXTENDS DecoderProofs

-------------------------------------------------------------------------------
(* The segments of the header, and what a decoder finds in them.                *)

\* A piece of the file, how long it is and where it stands.
Piece(s, n) == s \in Seq(Byte) /\ Len(s) = n /\ n \in Nat
Stands(file, p, s) == \A i \in 1..Len(s) : file[p + i - 1] = s[i]

LEMMA PieceLength == \A s \in Seq(Byte) : Piece(s, Len(s))
  BY LenProperties DEF Piece

Pieces(a, m, b, n) == Piece(a, m) /\ Piece(b, n)

LEMMA PiecesConcat ==
  ASSUME NEW file, NEW p \in Nat, NEW a, NEW m, NEW b, NEW n, Pieces(a, m, b, n)
  PROVE  /\ Piece(a \o b, m + n) /\ p + m \in Nat
         /\ Stands(file, p, a \o b) => Stands(file, p, a) /\ Stands(file, p + m, b)
<1>1. /\ a \in Seq(Byte) /\ b \in Seq(Byte) /\ Len(a) = m /\ Len(b) = n /\ m \in Nat /\ n \in Nat
  BY DEF Pieces, Piece
<1>2. /\ a \o b \in Seq(Byte) /\ Len(a \o b) = m + n
      /\ \A i \in 1..m : (a \o b)[i] = a[i]
      /\ \A i \in 1..n : (a \o b)[m + i] = b[i]
  <2>1. /\ a \o b \in Seq(Byte) /\ Len(a \o b) = Len(a) + Len(b)
        /\ \A i \in 1..Len(a) : (a \o b)[i] = a[i]
        /\ \A i \in 1..Len(b) : (a \o b)[Len(a) + i] = b[i]
    <3>1. a \in Seq(Byte) /\ b \in Seq(Byte)
      BY <1>1
    <3> QED
      BY <3>1, ConcatParts
  <2> QED
    BY <1>1, <2>1, Zenon
<1> DEFINE c == a \o b
<1>3. c \in Seq(Byte) /\ Len(c) = m + n
  BY <1>2
<1>4. (\A i \in 1..m : c[i] = a[i]) /\ (\A i \in 1..n : c[m + i] = b[i])
  BY <1>2
<1> HIDE DEF c
<1>5. ASSUME \A i \in 1..(m + n) : file[p + i - 1] = c[i]
      PROVE  /\ \A i \in 1..m : file[p + i - 1] = a[i]
             /\ \A i \in 1..n : file[(p + m) + i - 1] = b[i]
  <2>1. ASSUME NEW i \in 1..m
        PROVE  file[p + i - 1] = a[i]
    <3>1. i \in 1..(m + n)
      BY <1>1
    <3> QED
      BY <1>4, <1>5, <3>1
  <2>2. ASSUME NEW i \in 1..n
        PROVE  file[(p + m) + i - 1] = b[i]
    <3>1. m + i \in 1..(m + n) /\ (p + m) + i - 1 = p + (m + i) - 1
      BY <1>1
    <3> QED
      BY <1>4, <1>5, <3>1
  <2> QED
    BY <2>1, <2>2
<1>6. Piece(c, m + n)
  BY <1>1, <1>3 DEF Piece
<1>7. Stands(file, p, c) => Stands(file, p, a) /\ Stands(file, p + m, b)
  BY <1>1, <1>3, <1>5, Zenon DEF Stands
<1> QED
  BY <1>1, <1>6, <1>7 DEF c

LEMMA ShortPieces ==
  /\ \A a \in Byte : Piece(<<a>>, 1)
  /\ \A a, b \in Byte : Piece(<<a, b>>, 2)
  /\ \A a, b, c \in Byte : Piece(<<a, b, c>>, 3)
  BY ShortBytes DEF Piece

LEMMA StandShort ==
  ASSUME NEW file, NEW p \in Nat
  PROVE  /\ \A a : Stands(file, p, <<a>>) => file[p] = a
         /\ \A a, b : Stands(file, p, <<a, b>>) => file[p] = a /\ file[p + 1] = b
         /\ \A a, b, c : Stands(file, p, <<a, b, c>>)
                         => file[p] = a /\ file[p + 1] = b /\ file[p + 2] = c
<1>1. ASSUME NEW a, Stands(file, p, <<a>>)
      PROVE  file[p] = a
  <2>1. Len(<<a>>) = 1 /\ <<a>>[1] = a /\ 1 \in 1..1 /\ p + 1 - 1 = p
    OBVIOUS
  <2> QED
    BY <1>1, <2>1 DEF Stands
<1>2. ASSUME NEW a, NEW b, Stands(file, p, <<a, b>>)
      PROVE  file[p] = a /\ file[p + 1] = b
  <2>1. Len(<<a, b>>) = 2 /\ <<a, b>>[1] = a /\ <<a, b>>[2] = b
    OBVIOUS
  <2>2. 1 \in 1..2 /\ 2 \in 1..2 /\ p + 1 - 1 = p /\ p + 2 - 1 = p + 1
    OBVIOUS
  <2> QED
    BY <1>2, <2>1, <2>2 DEF Stands
<1>3. ASSUME NEW a, NEW b, NEW c, Stands(file, p, <<a, b, c>>)
      PROVE  file[p] = a /\ file[p + 1] = b /\ file[p + 2] = c
  <2>1. Len(<<a, b, c>>) = 3 /\ <<a, b, c>>[1] = a /\ <<a, b, c>>[2] = b /\ <<a, b, c>>[3] = c
    OBVIOUS
  <2>2. 1 \in 1..3 /\ 2 \in 1..3 /\ 3 \in 1..3
        /\ p + 1 - 1 = p /\ p + 2 - 1 = p + 1 /\ p + 3 - 1 = p + 2
    OBVIOUS
  <2> QED
    BY <1>3, <2>1, <2>2 DEF Stands
<1> QED
  BY <1>1, <1>2, <1>3

LEMMA MarkerStands ==
  ASSUME NEW m \in Byte, NEW file, NEW p \in Nat
  PROVE  Piece(Marker(m), 2) /\ (Stands(file, p, Marker(m)) => file[p] = 255 /\ file[p + 1] = m)
<1>1. 255 \in Byte
  BY DEF Byte
<1> QED
  BY <1>1, ShortPieces, StandShort DEF Marker

LEMMA WordValue ==
  ASSUME NEW i \in Nat, i < 65536
  PROVE  /\ i \div 256 \in Byte /\ i % 256 \in Byte
         /\ (i \div 256) * 256 + (i % 256) = i
  BY DEF Byte

LEMMA WordStands ==
  ASSUME NEW i \in Nat, i < 65536, NEW file, NEW p \in Nat
  PROVE  Piece(Word(i), 2) /\ (Stands(file, p, Word(i)) => Number(file, p) = i)
<1> DEFINE hi == i \div 256
           lo == i % 256
<1>1. hi \in Byte /\ lo \in Byte /\ hi * 256 + lo = i
  BY WordValue
<1>2. Word(i) = <<hi, lo>>
  BY DEF Word
<1> HIDE DEF hi, lo
<1>3. Piece(<<hi, lo>>, 2)
  BY <1>1, ShortPieces
<1>4. Stands(file, p, <<hi, lo>>) => Number(file, p) = i
  BY <1>1, StandShort DEF Number
<1> QED
  BY <1>2, <1>3, <1>4

\* What every segment begins with: its marker, its length and one byte more.
IsSegment(file, p, kind, length, id) ==
  file[p + 1] = kind /\ Number(file, p + 2) = length /\ file[p + 4] = id
HeadOf(kind, length, id) == (Marker(kind) \o Word(length)) \o <<id>>

LEMMA HeadStands ==
  ASSUME NEW kind \in Byte, NEW length \in Nat, length < 65536, NEW id \in Byte,
         NEW file, NEW p \in Nat
  PROVE  /\ Piece(HeadOf(kind, length, id), 5)
         /\ Stands(file, p, HeadOf(kind, length, id)) => IsSegment(file, p, kind, length, id)
<1> DEFINE a == Marker(kind)
           b == Word(length)
           c == <<id>>
<1>1. Piece(a, 2) /\ Piece(b, 2) /\ Piece(c, 1) /\ p + 2 \in Nat /\ p + 4 \in Nat
  BY MarkerStands, WordStands, ShortPieces
<1>2. /\ Stands(file, p, a) => file[p + 1] = kind
      /\ Stands(file, p + 2, b) => Number(file, p + 2) = length
      /\ Stands(file, p + 4, c) => file[p + 4] = id
  BY <1>1, MarkerStands, WordStands, StandShort
<1> HIDE DEF a, b, c
<1>3. /\ Piece(a \o b, 2 + 2)
      /\ Stands(file, p, a \o b) => Stands(file, p, a) /\ Stands(file, p + 2, b)
  <2>1. Pieces(a, 2, b, 2)
    BY <1>1 DEF Pieces
  <2> QED
    BY <2>1, PiecesConcat
<1>4. /\ Piece((a \o b) \o c, (2 + 2) + 1)
      /\ Stands(file, p, (a \o b) \o c) => Stands(file, p, a \o b) /\ Stands(file, p + (2 + 2), c)
  <2> DEFINE d == a \o b
  <2>1. Pieces(d, 2 + 2, c, 1)
    BY <1>1, <1>3 DEF Pieces
  <2> HIDE DEF d
  <2>2. /\ Piece(d \o c, (2 + 2) + 1)
        /\ Stands(file, p, d \o c) => Stands(file, p, d) /\ Stands(file, p + (2 + 2), c)
    BY <1>1, <2>1, PiecesConcat
  <2> QED
    BY <2>2 DEF d
<1>5. 2 + 2 = 4 /\ 4 + 1 = 5
  OBVIOUS
<1>6. HeadOf(kind, length, id) = (a \o b) \o c
  BY DEF HeadOf, a, b, c
<1>7. Piece((a \o b) \o c, 5)
  BY <1>4, <1>5
<1>8. Stands(file, p, (a \o b) \o c) => IsSegment(file, p, kind, length, id)
  BY <1>2, <1>3, <1>4, <1>5 DEF IsSegment
<1> QED
  BY <1>6, <1>7, <1>8

Pair(file, p, a, m, b, n, k) == p \in Nat /\ Pieces(a, m, b, n) /\ k = m + n

LEMMA PairStands ==
  ASSUME NEW file, NEW p, NEW a, NEW m, NEW b, NEW n, NEW k, Pair(file, p, a, m, b, n, k)
  PROVE  /\ Piece(a \o b, k) /\ p + m \in Nat
         /\ Stands(file, p, a \o b) => Stands(file, p, a) /\ Stands(file, p + m, b)
  BY PiecesConcat DEF Pair

LEMMA App0Stands ==
  ASSUME NEW file, NEW p \in Nat
  PROVE  /\ Piece(emit_jfif_app0, 18)
         /\ Stands(file, p, emit_jfif_app0) => IsSegment(file, p, 224, 16, 74)
<1> DEFINE a == Marker(224)
           b == Word(16)
           c == <<74, 70, 73, 70, 0, 1, 1, 0>>
           d == Word(1)
           e == <<0, 0>>
<1>1. /\ Piece(a, 2) /\ (Stands(file, p, a) => file[p + 1] = 224)
      /\ Piece(b, 2) /\ (Stands(file, p + 2, b) => Number(file, p + 2) = 16)
      /\ Piece(d, 2)
  <2>1. 224 \in Byte /\ p + 2 \in Nat
    BY DEF Byte
  <2> QED
    BY <2>1, MarkerStands, WordStands
<1>2. Piece(c, 8) /\ (Stands(file, p + 4, c) => file[p + 4] = 74)
  <2>1. c \in Seq(Byte) /\ Len(c) = 8 /\ c[1] = 74 /\ 1 \in 1..8 /\ (p + 4) + 1 - 1 = p + 4
    BY DEF Byte
  <2> HIDE DEF c
  <2> QED
    BY <2>1 DEF Piece, Stands
<1>3. Piece(e, 2)
  <2>1. 0 \in Byte
    BY DEF Byte
  <2> QED
    BY <2>1, ShortPieces
<1>4. emit_jfif_app0 = ((((a \o b) \o c) \o d) \o d) \o e
  BY DEF emit_jfif_app0
<1> HIDE DEF a, b, c, d, e
<1> DEFINE ab == a \o b
           abc == ab \o c
           abcd == abc \o d
           abcdd == abcd \o d
<1>5. Piece(ab, 4) /\ (Stands(file, p, ab) => Stands(file, p, a) /\ Stands(file, p + 2, b))
  <2>1. Pair(file, p, a, 2, b, 2, 4)
    BY <1>1 DEF Pair, Pieces
  <2> QED
    BY <2>1, PairStands
<1> HIDE DEF ab
<1>6. Piece(abc, 12) /\ (Stands(file, p, abc) => Stands(file, p, ab) /\ Stands(file, p + 4, c))
  <2>1. Pair(file, p, ab, 4, c, 8, 12)
    BY <1>2, <1>5 DEF Pair, Pieces
  <2> QED
    BY <2>1, PairStands
<1> HIDE DEF abc
<1>7. Piece(abcd, 14) /\ (Stands(file, p, abcd) => Stands(file, p, abc))
  <2>1. Pair(file, p, abc, 12, d, 2, 14)
    BY <1>1, <1>6 DEF Pair, Pieces
  <2> QED
    BY <2>1, PairStands
<1> HIDE DEF abcd
<1>8. Piece(abcdd, 16) /\ (Stands(file, p, abcdd) => Stands(file, p, abcd))
  <2>1. Pair(file, p, abcd, 14, d, 2, 16)
    BY <1>1, <1>7 DEF Pair, Pieces
  <2> QED
    BY <2>1, PairStands
<1> HIDE DEF abcdd
<1>9. Piece(abcdd \o e, 18) /\ (Stands(file, p, abcdd \o e) => Stands(file, p, abcdd))
  <2>1. Pair(file, p, abcdd, 16, e, 2, 18)
    BY <1>3, <1>8 DEF Pair, Pieces
  <2> QED
    BY <2>1, PairStands
<1>10. emit_jfif_app0 = abcdd \o e
  BY <1>4 DEF ab, abc, abcd, abcdd
<1>11. Stands(file, p, abcdd \o e) => IsSegment(file, p, 224, 16, 74)
  BY <1>1, <1>2, <1>5, <1>6, <1>7, <1>8, <1>9 DEF IsSegment
<1> QED
  BY <1>9, <1>10, <1>11

LEMMA FlattenFew ==
  ASSUME NEW T, NEW seqs \in Seq(Seq(T))
  PROVE  /\ Len(seqs) = 1 => FlattenSeq(seqs) = seqs[1]
         /\ Len(seqs) = 2 => FlattenSeq(seqs) = seqs[1] \o seqs[2]
         /\ Len(seqs) = 3 => FlattenSeq(seqs) = (seqs[1] \o seqs[2]) \o seqs[3]
<1>1. ASSUME NEW n \in 1..3, Len(seqs) = n
      PROVE  \E f : /\ FlattenSeq(seqs) = f[n] /\ f[1] = seqs[1]
                    /\ \A i \in 2..n : f[i] = f[i - 1] \o seqs[i]
  <2>1. seqs # <<>>
    BY <1>1
  <2>2. \A s, t \in Seq(T) : s \o t \in Seq(T)
    BY ConcatProperties
  <2>3. PICK f : IsFlattening(f, seqs) /\ FlattenSeq(seqs) = f[Len(seqs)]
    BY <2>1, <2>2, FlattenSeqLoop
  <2>4. 1 \in 1..n /\ \A i \in 2..n : i \in 1..n /\ i # 1
    OBVIOUS
  <2> QED
    BY <1>1, <2>3, <2>4 DEF IsFlattening
<1>2. ASSUME Len(seqs) = 1
      PROVE  FlattenSeq(seqs) = seqs[1]
  BY <1>1, <1>2
<1>3. ASSUME Len(seqs) = 2
      PROVE  FlattenSeq(seqs) = seqs[1] \o seqs[2]
  <2>1. PICK f : /\ FlattenSeq(seqs) = f[2] /\ f[1] = seqs[1]
                 /\ \A i \in 2..2 : f[i] = f[i - 1] \o seqs[i]
    BY <1>1, <1>3, SMTT(30)
  <2>2. 2 \in 2..2 /\ 2 - 1 = 1
    OBVIOUS
  <2> QED
    BY <2>1, <2>2
<1>4. ASSUME Len(seqs) = 3
      PROVE  FlattenSeq(seqs) = (seqs[1] \o seqs[2]) \o seqs[3]
  <2>1. PICK f : /\ FlattenSeq(seqs) = f[3] /\ f[1] = seqs[1]
                 /\ \A i \in 2..3 : f[i] = f[i - 1] \o seqs[i]
    <3>1. 3 \in 1..3
      OBVIOUS
    <3> QED
      BY <1>1, <1>4, <3>1, Zenon
  <2>2. 2 \in 2..3 /\ 3 \in 2..3 /\ 2 - 1 = 1 /\ 3 - 1 = 2
    OBVIOUS
  <2> QED
    BY <2>1, <2>2
<1> QED
  BY <1>2, <1>3, <1>4

LEMMA FunctionPiece ==
  ASSUME NEW n \in Nat, NEW b \in [1..n -> Byte]
  PROVE  Piece(b, n)
  BY DEF Piece

\* emit_dqt for one table: its steps in zigzag order.
DqtOf(tables, i) == ((Marker(219) \o Word(67)) \o <<i - 1>>) \o tables[i]

LEMMA TableStands ==
  ASSUME NEW tables \in Tables, NEW i \in 1..2, NEW file, NEW p \in Nat
  PROVE  /\ Piece(DqtOf(tables, i), 69)
         /\ Stands(file, p, DqtOf(tables, i)) =>
              /\ IsSegment(file, p, 219, 67, i - 1)
              /\ Stands(file, p + 5, tables[i])
<1> DEFINE a == HeadOf(219, 67, i - 1)
           b == tables[i]
<1>1. 219 \in Byte /\ 67 \in Nat /\ 67 < 65536 /\ i - 1 \in Byte
  BY DEF Byte
<1>2. Piece(a, 5) /\ (Stands(file, p, a) => IsSegment(file, p, 219, 67, i - 1))
  BY <1>1, HeadStands
<1>3. Piece(b, 64)
  <2>1. b \in [1..64 -> Byte]
    BY DEF Tables
  <2> HIDE DEF b
  <2> QED
    BY <2>1, FunctionPiece
<1>4. DqtOf(tables, i) = a \o b
  BY DEF DqtOf, HeadOf
<1> HIDE DEF a, b
<1>5. Pair(file, p, a, 5, b, 64, 69)
  BY <1>2, <1>3 DEF Pair, Pieces
<1>6. /\ Piece(a \o b, 69)
      /\ Stands(file, p, a \o b) => Stands(file, p, a) /\ Stands(file, p + 5, b)
  BY <1>5, PairStands
<1> QED
  BY <1>2, <1>4, <1>6 DEF b

LEMMA DqtStands ==
  ASSUME NEW tables \in Tables, NEW file, NEW p \in Nat
  PROVE  /\ Piece(emit_dqt(1, tables), 69)
         /\ Stands(file, p, emit_dqt(1, tables)) => Stands(file, p, DqtOf(tables, 1))
         /\ Piece(emit_dqt(3, tables), 138)
         /\ Stands(file, p, emit_dqt(3, tables)) =>
              Stands(file, p, DqtOf(tables, 1)) /\ Stands(file, p + 69, DqtOf(tables, 2))
<1>1. Piece(DqtOf(tables, 1), 69) /\ Piece(DqtOf(tables, 2), 69)
  BY TableStands
<1> DEFINE D(i) == DqtOf(tables, i)
           one == [i \in 1..1 |-> D(i)]
           two == [i \in 1..2 |-> D(i)]
<1>2. emit_dqt(1, tables) = FlattenSeq(one) /\ emit_dqt(3, tables) = FlattenSeq(two)
  BY DEF emit_dqt, DqtOf
<1> HIDE DEF D
<1>3. one \in Seq(Seq(Byte)) /\ Len(one) = 1 /\ one[1] = D(1)
  <2>1. \A i \in 1..1 : D(i) \in Seq(Byte)
    BY <1>1 DEF Piece, D
  <2> QED
    BY <2>1
<1>4. two \in Seq(Seq(Byte)) /\ Len(two) = 2 /\ two[1] = D(1) /\ two[2] = D(2)
  <2>1. \A i \in 1..2 : D(i) \in Seq(Byte)
    BY <1>1 DEF Piece, D
  <2> QED
    BY <2>1
<1> HIDE DEF one, two
<1>5. emit_dqt(1, tables) = DqtOf(tables, 1)
      /\ emit_dqt(3, tables) = DqtOf(tables, 1) \o DqtOf(tables, 2)
  BY <1>2, <1>3, <1>4, FlattenFew DEF D
<1>6. Pair(file, p, DqtOf(tables, 1), 69, DqtOf(tables, 2), 69, 138)
  BY <1>1 DEF Pair, Pieces
<1>7. /\ Piece(DqtOf(tables, 1) \o DqtOf(tables, 2), 138)
      /\ Stands(file, p, DqtOf(tables, 1) \o DqtOf(tables, 2)) =>
           Stands(file, p, DqtOf(tables, 1)) /\ Stands(file, p + 69, DqtOf(tables, 2))
  BY <1>6, PairStands
<1> QED
  BY <1>1, <1>5, <1>7

\* emit_sof: what it says of each component.
SofPart(comps, i) == <<i, IF comps = 3 /\ i = 1 THEN 34 ELSE 17, IF i > 1 THEN 1 ELSE 0>>
SofParts(comps) == FlattenSeq([i \in 1..comps |-> SofPart(comps, i)])
SofRest(comps, width, height) ==
  (((HeadOf(192, 3 * comps + 2 + 5 + 1, 8) \o Word(height)) \o Word(width)) \o <<comps>>)
  \o SofParts(comps)

LEMMA SofIs ==
  ASSUME NEW comps, NEW width, NEW height
  PROVE  emit_sof(comps, width, height) = SofRest(comps, width, height)
  BY DEF emit_sof, SofRest, HeadOf, SofParts, SofPart

LEMMA SofPartsStand ==
  ASSUME NEW file, NEW p \in Nat
  PROVE  /\ Piece(SofParts(1), 3) /\ (Stands(file, p, SofParts(1)) => file[p + 1] = 17)
         /\ Piece(SofParts(3), 9)
         /\ Stands(file, p, SofParts(3)) =>
              file[p + 1] = 34 /\ file[p + 4] = 17 /\ file[p + 7] = 17
<1> DEFINE a == <<1, 17, 0>>
           b == <<1, 34, 0>>
           c == <<2, 17, 1>>
           d == <<3, 17, 1>>
           one == [i \in 1..1 |-> SofPart(1, i)]
           all == [i \in 1..3 |-> SofPart(3, i)]
<1>1. /\ Piece(a, 3) /\ Piece(b, 3) /\ Piece(c, 3) /\ Piece(d, 3)
      /\ p + 3 \in Nat /\ p + 6 \in Nat
  <2>1. /\ 0 \in Byte /\ 1 \in Byte /\ 2 \in Byte /\ 3 \in Byte /\ 17 \in Byte /\ 34 \in Byte
    BY DEF Byte
  <2> QED
    BY <2>1, ShortPieces
<1>2. /\ Stands(file, p, a) => file[p + 1] = 17
      /\ Stands(file, p, b) => file[p + 1] = 34
      /\ Stands(file, p + 3, c) => file[p + 3 + 1] = 17
      /\ Stands(file, p + 6, d) => file[p + 6 + 1] = 17
  BY <1>1, StandShort
<1>3. SofPart(1, 1) = a /\ SofPart(3, 1) = b /\ SofPart(3, 2) = c /\ SofPart(3, 3) = d
  BY DEF SofPart
<1> HIDE DEF a, b, c, d
<1>4. one \in Seq(Seq(Byte)) /\ Len(one) = 1 /\ one[1] = a
  <2>1. \A i \in 1..1 : SofPart(1, i) \in Seq(Byte)
    BY <1>1, <1>3 DEF Piece
  <2> QED
    BY <1>3, <2>1
<1>5. all \in Seq(Seq(Byte)) /\ Len(all) = 3 /\ all[1] = b /\ all[2] = c /\ all[3] = d
  <2>1. \A i \in 1..3 : SofPart(3, i) \in Seq(Byte)
    <3>1. \A i \in 1..3 : i = 1 \/ i = 2 \/ i = 3
      OBVIOUS
    <3> QED
      BY <1>1, <1>3, <3>1 DEF Piece
  <2> QED
    BY <1>3, <2>1
<1>6. SofParts(1) = FlattenSeq(one) /\ SofParts(3) = FlattenSeq(all)
  BY DEF SofParts
<1> HIDE DEF one, all
<1>7. SofParts(1) = a /\ SofParts(3) = (b \o c) \o d
  BY <1>4, <1>5, <1>6, FlattenFew
<1> DEFINE bc == b \o c
<1>8. Piece(bc, 6) /\ (Stands(file, p, bc) => Stands(file, p, b) /\ Stands(file, p + 3, c))
  <2>1. Pair(file, p, b, 3, c, 3, 6)
    BY <1>1 DEF Pair, Pieces
  <2> QED
    BY <2>1, PairStands
<1> HIDE DEF bc
<1>9. /\ Piece(bc \o d, 9)
      /\ Stands(file, p, bc \o d) => Stands(file, p, bc) /\ Stands(file, p + 6, d)
  <2>1. Pair(file, p, bc, 6, d, 3, 9)
    BY <1>1, <1>8 DEF Pair, Pieces
  <2> QED
    BY <2>1, PairStands
<1>10. SofParts(3) = bc \o d
  BY <1>7 DEF bc
<1>11. p + 3 + 1 = p + 4 /\ p + 6 + 1 = p + 7
  OBVIOUS
<1> QED
  BY <1>1, <1>2, <1>7, <1>8, <1>9, <1>10, <1>11

LEMMA SofStands ==
  ASSUME NEW comps \in {1, 3},
         NEW width \in Nat, width < 65536, NEW height \in Nat, height < 65536,
         NEW file, NEW p \in Nat, NEW n, n = 10 + 3 * comps
  PROVE  /\ Piece(emit_sof(comps, width, height), n)
         /\ Stands(file, p, emit_sof(comps, width, height)) =>
              /\ IsSegment(file, p, 192, 8 + 3 * comps, 8)
              /\ Number(file, p + 5) = height /\ Number(file, p + 7) = width
              /\ file[p + 9] = comps
              /\ Stands(file, p + 10, SofParts(comps))
<1> DEFINE length == 3 * comps + 2 + 5 + 1
           a == HeadOf(192, length, 8)
           b == Word(height)
           c == Word(width)
           d == <<comps>>
           e == SofParts(comps)
<1>1. /\ 192 \in Byte /\ length \in Nat /\ length < 65536 /\ 8 \in Byte /\ comps \in Byte
      /\ length = 8 + 3 * comps
      /\ p + 5 \in Nat /\ p + 7 \in Nat /\ p + 9 \in Nat /\ p + 10 \in Nat
  BY DEF Byte
<1>2. /\ Piece(a, 5) /\ (Stands(file, p, a) => IsSegment(file, p, 192, length, 8))
  <2> HIDE DEF length
  <2> QED
    BY <1>1, HeadStands
<1>3. /\ Piece(b, 2) /\ (Stands(file, p + 5, b) => Number(file, p + 5) = height)
      /\ Piece(c, 2) /\ (Stands(file, p + 7, c) => Number(file, p + 7) = width)
      /\ Piece(d, 1) /\ (Stands(file, p + 9, d) => file[p + 9] = comps)
  BY <1>1, WordStands, ShortPieces, StandShort
<1>4. Piece(e, 3 * comps)
  <2>1. Piece(SofParts(1), 3 * 1) /\ Piece(SofParts(3), 3 * 3)
    BY SofPartsStand
  <2>2. comps = 1 \/ comps = 3
    OBVIOUS
  <2> QED
    BY <2>1, <2>2
<1>5. emit_sof(comps, width, height) = (((a \o b) \o c) \o d) \o e
  <2>1. SofRest(comps, width, height) = (((a \o b) \o c) \o d) \o e
    BY DEF SofRest
  <2> HIDE DEF a, b, c, d, e
  <2>2. emit_sof(comps, width, height) = SofRest(comps, width, height)
    BY SofIs
  <2> QED
    BY <2>1, <2>2
<1> HIDE DEF a, b, c, d, e
<1> DEFINE ab == a \o b
           abc == ab \o c
           abcd == abc \o d
<1>6. Piece(ab, 7) /\ (Stands(file, p, ab) => Stands(file, p, a) /\ Stands(file, p + 5, b))
  <2>1. Pair(file, p, a, 5, b, 2, 7)
    BY <1>2, <1>3 DEF Pair, Pieces
  <2> QED
    BY <2>1, PairStands
<1> HIDE DEF ab
<1>7. Piece(abc, 9) /\ (Stands(file, p, abc) => Stands(file, p, ab) /\ Stands(file, p + 7, c))
  <2>1. Pair(file, p, ab, 7, c, 2, 9)
    BY <1>3, <1>6 DEF Pair, Pieces
  <2> QED
    BY <2>1, PairStands
<1> HIDE DEF abc
<1>8. Piece(abcd, 10) /\ (Stands(file, p, abcd) => Stands(file, p, abc) /\ Stands(file, p + 9, d))
  <2>1. Pair(file, p, abc, 9, d, 1, 10)
    BY <1>3, <1>7 DEF Pair, Pieces
  <2> QED
    BY <2>1, PairStands
<1> HIDE DEF abcd
<1>9. /\ Piece(abcd \o e, n)
      /\ Stands(file, p, abcd \o e) => Stands(file, p, abcd) /\ Stands(file, p + 10, e)
  <2>1. Pair(file, p, abcd, 10, e, 3 * comps, n)
    BY <1>4, <1>8 DEF Pair, Pieces
  <2> QED
    BY <2>1, PairStands
<1>10. emit_sof(comps, width, height) = abcd \o e
  BY <1>5 DEF ab, abc, abcd
<1>11. Stands(file, p, abcd \o e) =>
         /\ IsSegment(file, p, 192, length, 8)
         /\ Number(file, p + 5) = height /\ Number(file, p + 7) = width
         /\ file[p + 9] = comps
         /\ Stands(file, p + 10, e)
  BY <1>2, <1>3, <1>6, <1>7, <1>8, <1>9
<1> QED
  BY <1>1, <1>9, <1>10, <1>11 DEF e

LEMMA SpecLengths ==
  ASSUME NEW class \in {"DC", "AC"}, NEW t \in 1..2
  PROVE  /\ m_huff_bits[class][t] \in Seq(Byte) /\ m_huff_val[class][t] \in Seq(Byte)
         /\ Len(m_huff_bits[class][t]) = 16
         /\ Len(m_huff_val[class][t]) = IF class = "DC" THEN 12 ELSE 162
<1>1. PICK n : IsHuffmanSpec(m_huff_bits[class][t], m_huff_val[class][t], n)
  BY StandardTables
<1>2. /\ m_huff_bits[class][t] \in Seq(Byte) /\ m_huff_val[class][t] \in Seq(Byte)
      /\ Len(m_huff_bits[class][t]) = 16
  BY <1>1 DEF IsHuffmanSpec, Byte
<1>3. Len(m_huff_val[class][t]) = IF class = "DC" THEN 12 ELSE 162
  <2>1. t = 1 \/ t = 2
    OBVIOUS
  <2>2. /\ Len(s_dc_lum_val) = 12 /\ Len(s_dc_chroma_val) = 12
        /\ Len(s_ac_lum_val) = 162 /\ Len(s_ac_chroma_val) = 162
    BY DEF s_dc_lum_val, s_dc_chroma_val, s_ac_lum_val, s_ac_chroma_val
  <2>3. /\ m_huff_val["DC"][1] = s_dc_lum_val /\ m_huff_val["DC"][2] = s_dc_chroma_val
        /\ m_huff_val["AC"][1] = s_ac_lum_val /\ m_huff_val["AC"][2] = s_ac_chroma_val
    BY DEF m_huff_val
  <2>4. CASE class = "DC"
    BY <2>1, <2>2, <2>3, <2>4
  <2>5. CASE class = "AC"
    BY <2>1, <2>2, <2>3, <2>5
  <2> QED
    BY <2>4, <2>5
<1> QED
  BY <1>2, <1>3

TableId(class, t) == (t - 1) + (IF class = "AC" THEN 16 ELSE 0)

\* emit_dht: the table as CodesOf reads it.
LEMMA DhtStands ==
  ASSUME NEW class \in {"DC", "AC"}, NEW t \in 1..2, NEW file, NEW p \in Nat,
         NEW n, n = IF class = "DC" THEN 33 ELSE 183
  PROVE  /\ Piece(emit_dht(class, t), n)
         /\ Stands(file, p, emit_dht(class, t)) =>
              /\ IsSegment(file, p, 196, n - 2, TableId(class, t))
              /\ IsHuffmanTable(file, p, m_huff_bits[class][t], m_huff_val[class][t])
<1> DEFINE b == m_huff_bits[class][t]
           v == m_huff_val[class][t]
           length == Len(v) + 2 + 1 + 16
           id == TableId(class, t)
           a == HeadOf(196, length, id)
<1>1. b \in Seq(Byte) /\ v \in Seq(Byte) /\ Len(b) = 16 /\ Len(v) = n - 21 /\ n \in {33, 183}
  <2>1. CASE class = "DC"
    BY <2>1, SpecLengths
  <2>2. CASE class = "AC"
    BY <2>2, SpecLengths
  <2> QED
    BY <2>1, <2>2
<1>2. Len(v) = UpTo(b)[16]
  <2>1. PICK k : IsHuffmanSpec(b, v, k)
    BY StandardTables
  <2> HIDE DEF b, v
  <2> QED
    BY <2>1, SpecParts
<1>3. emit_dht(class, t) = (a \o b) \o v
  BY Zenon DEF emit_dht, HeadOf, TableId
<1>4. id \in Byte
  BY DEF TableId, Byte
<1> HIDE DEF id, b, v
<1>5. 196 \in Byte /\ length \in Nat /\ length < 65536 /\ length = n - 2
  BY <1>1 DEF Byte
<1> HIDE DEF length
<1>6. Piece(a, 5) /\ (Stands(file, p, a) => IsSegment(file, p, 196, length, id))
  BY <1>4, <1>5, HeadStands
<1> HIDE DEF a
<1> DEFINE ab == a \o b
<1>7. Piece(ab, 21) /\ (Stands(file, p, ab) => Stands(file, p, a) /\ Stands(file, p + 5, b))
  <2>1. Pair(file, p, a, 5, b, 16, 21)
    BY <1>1, <1>6 DEF Pair, Pieces, Piece
  <2> QED
    BY <2>1, PairStands
<1> HIDE DEF ab
<1>8. /\ Piece(ab \o v, n)
      /\ Stands(file, p, ab \o v) => Stands(file, p, ab) /\ Stands(file, p + 21, v)
  <2>1. Pair(file, p, ab, 21, v, n - 21, n)
    BY <1>1, <1>7 DEF Pair, Pieces, Piece
  <2> QED
    BY <2>1, PairStands
<1>9. ASSUME Stands(file, p + 5, b), Stands(file, p + 21, v)
      PROVE  IsHuffmanTable(file, p, b, v)
  <2>1. ASSUME NEW l \in 1..16
        PROVE  file[p + 4 + l] = b[l]
    <3>1. l \in 1..Len(b) /\ p + 5 + l - 1 = p + 4 + l
      BY <1>1
    <3> QED
      BY <1>9, <3>1 DEF Stands
  <2>2. ASSUME NEW k \in 1..Len(v)
        PROVE  file[p + 20 + k] = v[k]
    <3>1. p + 21 + k - 1 = p + 20 + k
      OBVIOUS
    <3> QED
      BY <1>9, <3>1 DEF Stands
  <2> QED
    BY <1>2, <2>1, <2>2 DEF IsHuffmanTable
<1>10. emit_dht(class, t) = ab \o v
  BY <1>3 DEF ab
<1>11. Stands(file, p, ab \o v) =>
         IsSegment(file, p, 196, n - 2, id) /\ IsHuffmanTable(file, p, b, v)
  BY <1>5, <1>6, <1>7, <1>8, <1>9
<1> QED
  BY <1>8, <1>10, <1>11 DEF id, b, v

LEMMA DhtsStand ==
  ASSUME NEW file, NEW p \in Nat
  PROVE  /\ Piece(emit_dhts(1), 216)
         /\ Stands(file, p, emit_dhts(1)) =>
              Stands(file, p, emit_dht("DC", 1)) /\ Stands(file, p + 33, emit_dht("AC", 1))
         /\ Piece(emit_dhts(3), 432)
         /\ Stands(file, p, emit_dhts(3)) =>
              /\ Stands(file, p, emit_dht("DC", 1)) /\ Stands(file, p + 33, emit_dht("AC", 1))
              /\ Stands(file, p + 216, emit_dht("DC", 2))
              /\ Stands(file, p + 249, emit_dht("AC", 2))
<1> DEFINE a == emit_dht("DC", 1)
           b == emit_dht("AC", 1)
           c == emit_dht("DC", 2)
           d == emit_dht("AC", 2)
<1>1. Piece(a, 33) /\ Piece(b, 183) /\ Piece(c, 33) /\ Piece(d, 183)
  BY DhtStands
<1>2. emit_dhts(1) = (a \o b) \o <<>> /\ emit_dhts(3) = (a \o b) \o (c \o d)
  BY DEF emit_dhts
<1> HIDE DEF a, b, c, d
<1> DEFINE ab == a \o b
           cd == c \o d
<1>3. Piece(ab, 216) /\ (Stands(file, p, ab) => Stands(file, p, a) /\ Stands(file, p + 33, b))
  <2>1. Pair(file, p, a, 33, b, 183, 216)
    BY <1>1 DEF Pair, Pieces
  <2> QED
    BY <2>1, PairStands
<1>4. /\ Piece(cd, 216)
      /\ Stands(file, p + 216, cd) =>
           Stands(file, p + 216, c) /\ Stands(file, p + 249, d)
  <2>1. Pair(file, p + 216, c, 33, d, 183, 216)
    BY <1>1 DEF Pair, Pieces
  <2> QED
    BY <2>1, PairStands
<1> HIDE DEF ab, cd
<1>5. /\ Piece(ab \o cd, 432)
      /\ Stands(file, p, ab \o cd) => Stands(file, p, ab) /\ Stands(file, p + 216, cd)
  <2>1. Pair(file, p, ab, 216, cd, 216, 432)
    BY <1>3, <1>4 DEF Pair, Pieces
  <2> QED
    BY <2>1, PairStands
<1>6. emit_dhts(1) = ab
  <2>1. ab \in Seq(Byte)
    BY <1>3 DEF Piece
  <2>2. ab \o <<>> = ab
    BY <2>1, ConcatEmptySeq
  <2> QED
    BY <1>2, <2>2 DEF ab
<1>7. emit_dhts(3) = ab \o cd
  BY <1>2 DEF ab, cd
<1>8. Piece(emit_dhts(1), 216) /\ Piece(emit_dhts(3), 432)
  <2>1. Piece(emit_dhts(1), 216)
    BY <1>3, <1>6
  <2>2. Piece(emit_dhts(3), 432)
    BY <1>5, <1>7
  <2> QED
    BY <2>1, <2>2
<1>9. Stands(file, p, emit_dhts(1)) => Stands(file, p, a) /\ Stands(file, p + 33, b)
  BY <1>3, <1>6
<1>10. Stands(file, p, emit_dhts(3)) =>
         /\ Stands(file, p, a) /\ Stands(file, p + 33, b)
         /\ Stands(file, p + 216, c) /\ Stands(file, p + 249, d)
  BY <1>3, <1>4, <1>5, <1>7
<1> QED
  BY <1>8, <1>9, <1>10, Zenon DEF a, b, c, d

\* emit_sos.
SosParts(comps) == FlattenSeq([i \in 1..comps |-> <<i, IF i = 1 THEN 0 ELSE 17>>])

LEMMA SosPartsType == Piece(SosParts(1), 2) /\ Piece(SosParts(3), 6)
<1> DEFINE a == <<1, 0>>
           b == <<2, 17>>
           c == <<3, 17>>
           part(i) == <<i, IF i = 1 THEN 0 ELSE 17>>
           one == [i \in 1..1 |-> part(i)]
           all == [i \in 1..3 |-> part(i)]
<1>1. Piece(a, 2) /\ Piece(b, 2) /\ Piece(c, 2)
  <2>1. 0 \in Byte /\ 1 \in Byte /\ 2 \in Byte /\ 3 \in Byte /\ 17 \in Byte
    BY DEF Byte
  <2> QED
    BY <2>1, ShortPieces
<1>2. part(1) = a /\ part(2) = b /\ part(3) = c
  OBVIOUS
<1>3. SosParts(1) = FlattenSeq(one) /\ SosParts(3) = FlattenSeq(all)
  BY DEF SosParts
<1> HIDE DEF a, b, c, part
<1>4. one \in Seq(Seq(Byte)) /\ Len(one) = 1 /\ one[1] = a
  <2>1. \A i \in 1..1 : part(i) \in Seq(Byte)
    BY <1>1, <1>2 DEF Piece
  <2> QED
    BY <1>2, <2>1
<1>5. all \in Seq(Seq(Byte)) /\ Len(all) = 3 /\ all[1] = a /\ all[2] = b /\ all[3] = c
  <2>1. \A i \in 1..3 : part(i) \in Seq(Byte)
    <3>1. \A i \in 1..3 : i = 1 \/ i = 2 \/ i = 3
      OBVIOUS
    <3> QED
      BY <1>1, <1>2, <3>1 DEF Piece
  <2> QED
    BY <1>2, <2>1
<1> HIDE DEF one, all
<1>6. SosParts(1) = a /\ SosParts(3) = (a \o b) \o c
  BY <1>3, <1>4, <1>5, FlattenFew
<1> DEFINE ab == a \o b
<1>7. Piece(ab, 4)
  <2>1. Pair(<<>>, 0, a, 2, b, 2, 4)
    BY <1>1 DEF Pair, Pieces
  <2> QED
    BY <2>1, PairStands
<1> HIDE DEF ab
<1>8. Piece(ab \o c, 6)
  <2>1. Pair(<<>>, 0, ab, 4, c, 2, 6)
    BY <1>1, <1>7 DEF Pair, Pieces
  <2> QED
    BY <2>1, PairStands
<1>9. SosParts(3) = ab \o c
  BY <1>6 DEF ab
<1> QED
  BY <1>1, <1>6, <1>8, <1>9

LEMMA SosStands ==
  ASSUME NEW comps \in {1, 3}, NEW file, NEW p \in Nat, NEW n, n = 8 + 2 * comps
  PROVE  /\ Piece(emit_sos(comps), n)
         /\ Stands(file, p, emit_sos(comps)) => IsSegment(file, p, 218, 6 + 2 * comps, comps)
<1> DEFINE length == 2 * comps + 2 + 1 + 3
           a == HeadOf(218, length, comps)
           b == SosParts(comps)
           c == <<0, 63, 0>>
<1>1. 218 \in Byte /\ length \in Nat /\ length < 65536 /\ comps \in Byte /\ length = 6 + 2 * comps
  BY DEF Byte
<1>2. Piece(a, 5) /\ (Stands(file, p, a) => IsSegment(file, p, 218, length, comps))
  <2> HIDE DEF length
  <2> QED
    BY <1>1, HeadStands
<1>3. Piece(b, 2 * comps)
  <2>1. comps = 1 \/ comps = 3
    OBVIOUS
  <2>2. Piece(SosParts(1), 2 * 1) /\ Piece(SosParts(3), 2 * 3)
    BY SosPartsType
  <2> QED
    BY <2>1, <2>2
<1>4. Piece(c, 3)
  <2>1. 0 \in Byte /\ 63 \in Byte
    BY DEF Byte
  <2> QED
    BY <2>1, ShortPieces
<1>5. emit_sos(comps) = (a \o b) \o c
  BY Zenon DEF emit_sos, HeadOf, SosParts
<1> HIDE DEF a, b, c
<1> DEFINE ab == a \o b
<1>6. Piece(ab, 5 + 2 * comps) /\ (Stands(file, p, ab) => Stands(file, p, a))
  <2>1. Pair(file, p, a, 5, b, 2 * comps, 5 + 2 * comps)
    BY <1>2, <1>3 DEF Pair, Pieces
  <2> QED
    BY <2>1, PairStands
<1> HIDE DEF ab
<1>7. Piece(ab \o c, n) /\ (Stands(file, p, ab \o c) => Stands(file, p, ab))
  <2>1. Pair(file, p, ab, 5 + 2 * comps, c, 3, n)
    BY <1>4, <1>6 DEF Pair, Pieces
  <2> QED
    BY <2>1, PairStands
<1>8. emit_sos(comps) = ab \o c
  BY <1>5 DEF ab
<1>9. Stands(file, p, ab \o c) => IsSegment(file, p, 218, length, comps)
  BY <1>2, <1>6, <1>7
<1> QED
  BY <1>1, <1>7, <1>8, <1>9

HeaderOf(a, b, c, d, e, g) == ((((a \o b) \o c) \o d) \o e) \o g
ArePieces(a, b, c, d, e, g, nc, nd, ne, ng) ==
  Piece(a, 2) /\ Piece(b, 18) /\ Piece(c, nc) /\ Piece(d, nd) /\ Piece(e, ne) /\ Piece(g, ng)

LEMMA HeaderPieces ==
  ASSUME NEW a, NEW b, NEW c, NEW d, NEW e, NEW g, NEW nc, NEW nd, NEW ne, NEW ng,
         ArePieces(a, b, c, d, e, g, nc, nd, ne, ng), NEW file
  PROVE  /\ Piece(HeaderOf(a, b, c, d, e, g), 20 + nc + nd + ne + ng)
         /\ Stands(file, 1, HeaderOf(a, b, c, d, e, g)) =>
              /\ Stands(file, 1, a) /\ Stands(file, 3, b) /\ Stands(file, 21, c)
              /\ Stands(file, 21 + nc, d) /\ Stands(file, 21 + nc + nd, e)
              /\ Stands(file, 21 + nc + nd + ne, g)
<1>1. /\ Piece(a, 2) /\ Piece(b, 18) /\ Piece(c, nc) /\ Piece(d, nd) /\ Piece(e, ne)
      /\ Piece(g, ng) /\ nc \in Nat /\ nd \in Nat /\ ne \in Nat /\ ng \in Nat
  BY DEF ArePieces, Piece
<1> DEFINE ab == a \o b
           abc == ab \o c
           abcd == abc \o d
           abcde == abcd \o e
<1>2. Piece(ab, 20) /\ (Stands(file, 1, ab) => Stands(file, 1, a) /\ Stands(file, 3, b))
  <2>1. Pair(file, 1, a, 2, b, 18, 20) /\ 1 + 2 = 3
    BY <1>1 DEF Pair, Pieces
  <2> QED
    BY <2>1, PairStands
<1> HIDE DEF ab
<1>3. Piece(abc, 20 + nc) /\ (Stands(file, 1, abc) => Stands(file, 1, ab) /\ Stands(file, 21, c))
  <2>1. Pair(file, 1, ab, 20, c, nc, 20 + nc) /\ 1 + 20 = 21
    BY <1>1, <1>2 DEF Pair, Pieces
  <2> QED
    BY <2>1, PairStands
<1> HIDE DEF abc
<1>4. /\ Piece(abcd, 20 + nc + nd)
      /\ Stands(file, 1, abcd) => Stands(file, 1, abc) /\ Stands(file, 21 + nc, d)
  <2>1. Pair(file, 1, abc, 20 + nc, d, nd, 20 + nc + nd) /\ 1 + (20 + nc) = 21 + nc
    BY <1>1, <1>3 DEF Pair, Pieces
  <2> QED
    BY <2>1, PairStands
<1> HIDE DEF abcd
<1>5. /\ Piece(abcde, 20 + nc + nd + ne)
      /\ Stands(file, 1, abcde) => Stands(file, 1, abcd) /\ Stands(file, 21 + nc + nd, e)
  <2>1. /\ Pair(file, 1, abcd, 20 + nc + nd, e, ne, 20 + nc + nd + ne)
        /\ 1 + (20 + nc + nd) = 21 + nc + nd
    BY <1>1, <1>4 DEF Pair, Pieces
  <2> QED
    BY <2>1, PairStands
<1> HIDE DEF abcde
<1>6. /\ Piece(abcde \o g, 20 + nc + nd + ne + ng)
      /\ Stands(file, 1, abcde \o g)
           => Stands(file, 1, abcde) /\ Stands(file, 21 + nc + nd + ne, g)
  <2>1. /\ Pair(file, 1, abcde, 20 + nc + nd + ne, g, ng, 20 + nc + nd + ne + ng)
        /\ 1 + (20 + nc + nd + ne) = 21 + nc + nd + ne
    BY <1>1, <1>5 DEF Pair, Pieces
  <2> QED
    BY <2>1, PairStands
<1>7. HeaderOf(a, b, c, d, e, g) = abcde \o g
  BY DEF HeaderOf, ab, abc, abcd, abcde
<1> QED
  BY <1>2, <1>3, <1>4, <1>5, <1>6, <1>7

\* The segments: where they start, their markers, lengths and fifth bytes.  SOS, the
\* last one, is repeated.
IsLayout(file, starts, kinds, lengths, ids) ==
  /\ \A n \in 1..9 : /\ starts[n] \in Nat
                     /\ IsSegment(file, starts[n], kinds[n], lengths[n], ids[n])
  /\ starts[1] = 3
  /\ \A n \in 2..9 : starts[n] = IF kinds[n - 1] = 218 THEN starts[n - 1]
                                 ELSE starts[n - 1] + 2 + lengths[n - 1]

LEMMA SegmentsFound ==
  ASSUME NEW file, NEW starts, NEW kinds, NEW lengths, NEW ids,
         IsLayout(file, starts, kinds, lengths, ids)
  PROVE  SegmentStarts(file) = {starts[n] : n \in 1..9}
<1> DEFINE Following(p) == IF file[p + 1] = 218 THEN p ELSE p + 2 + Number(file, p + 2)
           F(g) == [n \in 1..9 |-> IF n = 1 THEN 3 ELSE Following(g[n - 1])]
           at == CHOOSE g : g = F(g)
           f == [n \in 1..9 |-> starts[n]]
<1>1. SegmentStarts(file) = {at[n] : n \in 1..9}
  BY DEF SegmentStarts
<1>2. \A n \in 2..9 : starts[n] = Following(starts[n - 1])
  <2>1. ASSUME NEW n \in 2..9
        PROVE  starts[n] = Following(starts[n - 1])
    <3>1. n - 1 \in 1..9
      OBVIOUS
    <3>2. IsSegment(file, starts[n - 1], kinds[n - 1], lengths[n - 1], ids[n - 1])
      BY <3>1 DEF IsLayout
    <3>3. starts[n] = IF kinds[n - 1] = 218 THEN starts[n - 1]
                      ELSE starts[n - 1] + 2 + lengths[n - 1]
      BY DEF IsLayout
    <3> QED
      BY <3>2, <3>3 DEF IsSegment
  <2> QED
    BY <2>1
<1>3. starts[1] = 3
  BY DEF IsLayout
<1> HIDE DEF Following
<1>4. f = F(f)
  <2>1. ASSUME NEW n \in 1..9
        PROVE  f[n] = IF n = 1 THEN 3 ELSE Following(f[n - 1])
    <3>1. f[n] = starts[n]
      OBVIOUS
    <3>2. n # 1 => n - 1 \in 1..9 /\ n \in 2..9
      OBVIOUS
    <3>3. n # 1 => f[n - 1] = starts[n - 1]
      BY <3>2
    <3> HIDE DEF f
    <3> QED
      BY <1>2, <1>3, <3>1, <3>2, <3>3
  <2>2. f = [n \in 1..9 |-> f[n]]
    OBVIOUS
  <2> HIDE DEF f
  <2> QED
    BY <2>1, <2>2
<1> HIDE DEF f
<1>5. at = F(at)
  <2> HIDE DEF F
  <2> QED
    BY <1>4
<1> HIDE DEF at
<1>6. at[1] = 3 /\ \A n \in 2..9 : at[n] = Following(at[n - 1])
  <2>1. \A n \in 1..9 : at[n] = IF n = 1 THEN 3 ELSE Following(at[n - 1])
    BY <1>5
  <2>2. \A n \in 2..9 : n \in 1..9 /\ n # 1
    OBVIOUS
  <2>3. 1 \in 1..9
    OBVIOUS
  <2> QED
    BY <2>1, <2>2, <2>3
<1> DEFINE S == {k \in 0..8 : at[k + 1] = starts[k + 1]}
<1>7. 0 \in S
  BY <1>3, <1>6
<1>8. ASSUME NEW k \in 1..8, k - 1 \in S
      PROVE  k \in S
  <2>1. k + 1 \in 2..9 /\ (k + 1) - 1 = k /\ (k - 1) + 1 = k /\ k \in 0..8
    OBVIOUS
  <2>2. at[k] = starts[k]
    BY <1>8, <2>1
  <2>3. at[k + 1] = Following(at[k]) /\ starts[k + 1] = Following(starts[k])
    BY <1>2, <1>6, <2>1
  <2> QED
    BY <2>1, <2>2, <2>3
<1> HIDE DEF S
<1>9. \A k \in 0..8 : k \in S
  BY <1>7, <1>8, InductionUpTo
<1>10. \A n \in 1..9 : at[n] = starts[n]
  <2>1. ASSUME NEW n \in 1..9
        PROVE  at[n] = starts[n]
    <3>1. n - 1 \in 0..8 /\ (n - 1) + 1 = n
      OBVIOUS
    <3> QED
      BY <1>9, <3>1 DEF S
  <2> QED
    BY <2>1
<1> QED
  BY <1>1, <1>10

\* The segment a decoder looks for, when there is one of that kind, or one with that
\* fifth byte.
LEMMA OnlySegment ==
  ASSUME NEW file, NEW starts, NEW kinds, NEW lengths, NEW ids,
         IsLayout(file, starts, kinds, lengths, ids), NEW n \in 1..9
  PROVE  /\ (\A m \in 1..9 : kinds[m] = kinds[n] => starts[m] = starts[n])
              => Segment(file, kinds[n]) = starts[n]
         /\ (\A m \in 1..9 : kinds[m] = kinds[n] /\ ids[m] = ids[n] => starts[m] = starts[n])
              => (CHOOSE s \in OfKind(file, kinds[n]) : file[s + 4] = ids[n]) = starts[n]
<1>1. \A m \in 1..9 : file[starts[m] + 1] = kinds[m] /\ file[starts[m] + 4] = ids[m]
  BY DEF IsLayout, IsSegment
<1> DEFINE K == OfKind(file, kinds[n])
<1>2. \A p : p \in K <=> \E m \in 1..9 : p = starts[m] /\ kinds[m] = kinds[n]
  <2>1. SegmentStarts(file) = {starts[m] : m \in 1..9}
    BY SegmentsFound
  <2> QED
    BY <1>1, <2>1 DEF OfKind
<1> HIDE DEF K
<1>3. starts[n] \in K /\ file[starts[n] + 4] = ids[n]
  BY <1>1, <1>2
<1>4. ASSUME \A m \in 1..9 : kinds[m] = kinds[n] => starts[m] = starts[n]
      PROVE  Segment(file, kinds[n]) = starts[n]
  <2>1. \A p \in K : p = starts[n]
    BY <1>2, <1>4
  <2>2. Segment(file, kinds[n]) = CHOOSE p \in K : TRUE
    BY DEF Segment, K
  <2> QED
    BY <1>3, <2>1, <2>2
<1>5. ASSUME \A m \in 1..9 : kinds[m] = kinds[n] /\ ids[m] = ids[n] => starts[m] = starts[n]
      PROVE  (CHOOSE s \in K : file[s + 4] = ids[n]) = starts[n]
  <2>1. ASSUME NEW p \in K, file[p + 4] = ids[n]
        PROVE  p = starts[n]
    <3>1. PICK m \in 1..9 : p = starts[m] /\ kinds[m] = kinds[n]
      BY <1>2
    <3>2. ids[m] = ids[n]
      BY <1>1, <2>1, <3>1
    <3> QED
      BY <1>5, <3>1, <3>2
  <2> QED
    BY <1>3, <2>1
<1> QED
  BY <1>4, <1>5 DEF K
\* The segments of a picture with one component and of one with three.
StartsOf(comps) == IF comps = 1 THEN <<3, 21, 90, 103, 136, 319, 319, 319, 319>>
                   ELSE <<3, 21, 90, 159, 178, 211, 394, 427, 610>>
KindsOf(comps) == IF comps = 1 THEN <<224, 219, 192, 196, 196, 218, 218, 218, 218>>
                  ELSE <<224, 219, 219, 192, 196, 196, 196, 196, 218>>
LengthsOf(comps) == IF comps = 1 THEN <<16, 67, 11, 31, 181, 8, 8, 8, 8>>
                    ELSE <<16, 67, 67, 17, 31, 181, 31, 181, 12>>
IdsOf(comps) == IF comps = 1 THEN <<74, 0, 8, 0, 16, 1, 1, 1, 1>>
                ELSE <<74, 0, 1, 8, 0, 16, 1, 17, 3>>
IsLaid(file, comps) ==
  IsLayout(file, StartsOf(comps), KindsOf(comps), LengthsOf(comps), IdsOf(comps))

\* What SOF says.
HasSize(file, p, comps, width, height) ==
  /\ Number(file, p + 5) = height /\ Number(file, p + 7) = width /\ file[p + 9] = comps
  /\ file[p + 11] = IF comps = 3 THEN 34 ELSE 17
  /\ comps = 3 => file[p + 14] = 17 /\ file[p + 17] = 17

\* DHT segment p holds a table of the encoder.
HoldsTable(file, p, class, t) ==
  IsHuffmanTable(file, p, m_huff_bits[class][t], m_huff_val[class][t])

LEMMA SofSays ==
  ASSUME NEW comps \in {1, 3},
         NEW width \in Nat, width < 65536, NEW height \in Nat, height < 65536,
         NEW file, NEW p \in Nat, Stands(file, p, emit_sof(comps, width, height))
  PROVE  /\ IsSegment(file, p, 192, 8 + 3 * comps, 8)
         /\ HasSize(file, p, comps, width, height)
<1> DEFINE n == 10 + 3 * comps
<1> n = 10 + 3 * comps
  OBVIOUS
<1> HIDE DEF n
<1>1. /\ IsSegment(file, p, 192, 8 + 3 * comps, 8)
      /\ Number(file, p + 5) = height /\ Number(file, p + 7) = width
      /\ file[p + 9] = comps /\ Stands(file, p + 10, SofParts(comps))
  BY SofStands
<1> DEFINE q == p + 10
<1>2. q \in Nat /\ q + 1 = p + 11 /\ q + 4 = p + 14 /\ q + 7 = p + 17
  OBVIOUS
<1> HIDE DEF q
<1>3. Stands(file, q, SofParts(comps))
  BY <1>1 DEF q
<1>4. CASE comps = 1
  <2>1. file[q + 1] = 17
    BY <1>2, <1>3, <1>4, SofPartsStand
  <2> QED
    BY <1>1, <1>2, <1>4, <2>1 DEF HasSize
<1>5. CASE comps = 3
  <2>1. file[q + 1] = 34 /\ file[q + 4] = 17 /\ file[q + 7] = 17
    BY <1>2, <1>3, <1>5, SofPartsStand
  <2> QED
    BY <1>1, <1>2, <1>5, <2>1 DEF HasSize
<1> QED
  BY <1>4, <1>5

LEMMA GreyLaid ==
  ASSUME NEW file, IsSegment(file, 3, 224, 16, 74), IsSegment(file, 21, 219, 67, 0),
         IsSegment(file, 90, 192, 11, 8), IsSegment(file, 103, 196, 31, 0),
         IsSegment(file, 136, 196, 181, 16), IsSegment(file, 319, 218, 8, 1)
  PROVE  IsLaid(file, 1)
<1> DEFINE S == StartsOf(1)
           K == KindsOf(1)
           L == LengthsOf(1)
           I == IdsOf(1)
<1>1. \A n \in 1..9 : S[n] \in Nat
  BY DEF StartsOf
<1>2. \A n \in 1..9 : IsSegment(file, S[n], K[n], L[n], I[n])
  BY DEF StartsOf, KindsOf, LengthsOf, IdsOf
<1>3. S[1] = 3
  BY DEF StartsOf
<1>4. \A n \in 2..9 : S[n] = IF K[n - 1] = 218 THEN S[n - 1] ELSE S[n - 1] + 2 + L[n - 1]
  BY DEF StartsOf, KindsOf, LengthsOf
<1> HIDE DEF S, K, L, I
<1> QED
  BY <1>1, <1>2, <1>3, <1>4 DEF IsLaid, IsLayout, S, K, L, I

LEMMA ColourLaid ==
  ASSUME NEW file, IsSegment(file, 3, 224, 16, 74), IsSegment(file, 21, 219, 67, 0),
         IsSegment(file, 90, 219, 67, 1), IsSegment(file, 159, 192, 17, 8),
         IsSegment(file, 178, 196, 31, 0), IsSegment(file, 211, 196, 181, 16),
         IsSegment(file, 394, 196, 31, 1), IsSegment(file, 427, 196, 181, 17),
         IsSegment(file, 610, 218, 12, 3)
  PROVE  IsLaid(file, 3)
<1> DEFINE S == StartsOf(3)
           K == KindsOf(3)
           L == LengthsOf(3)
           I == IdsOf(3)
<1>1. \A n \in 1..9 : S[n] \in Nat
  BY DEF StartsOf
<1>2. \A n \in 1..9 : IsSegment(file, S[n], K[n], L[n], I[n])
  BY DEF StartsOf, KindsOf, LengthsOf, IdsOf
<1>3. S[1] = 3
  BY DEF StartsOf
<1>4. \A n \in 2..9 : S[n] = IF K[n - 1] = 218 THEN S[n - 1] ELSE S[n - 1] + 2 + L[n - 1]
  BY DEF StartsOf, KindsOf, LengthsOf
<1> HIDE DEF S, K, L, I
<1> QED
  BY <1>1, <1>2, <1>3, <1>4 DEF IsLaid, IsLayout, S, K, L, I

\* A DHT segment, with its numbers worked out.
LEMMA TableSays ==
  ASSUME NEW file, NEW p \in Nat
  PROVE  /\ Stands(file, p, emit_dht("DC", 1)) =>
              IsSegment(file, p, 196, 31, 0) /\ HoldsTable(file, p, "DC", 1)
         /\ Stands(file, p, emit_dht("AC", 1)) =>
              IsSegment(file, p, 196, 181, 16) /\ HoldsTable(file, p, "AC", 1)
         /\ Stands(file, p, emit_dht("DC", 2)) =>
              IsSegment(file, p, 196, 31, 1) /\ HoldsTable(file, p, "DC", 2)
         /\ Stands(file, p, emit_dht("AC", 2)) =>
              IsSegment(file, p, 196, 181, 17) /\ HoldsTable(file, p, "AC", 2)
<1>1. ASSUME NEW t \in 1..2
      PROVE  /\ Stands(file, p, emit_dht("DC", t)) =>
                  /\ IsSegment(file, p, 196, 33 - 2, TableId("DC", t))
                  /\ HoldsTable(file, p, "DC", t)
             /\ Stands(file, p, emit_dht("AC", t)) =>
                  /\ IsSegment(file, p, 196, 183 - 2, TableId("AC", t))
                  /\ HoldsTable(file, p, "AC", t)
  BY DhtStands DEF HoldsTable
<1>2. 1 \in 1..2 /\ 2 \in 1..2 /\ 33 - 2 = 31 /\ 183 - 2 = 181
  OBVIOUS
<1>3. /\ TableId("DC", 1) = 0 /\ TableId("AC", 1) = 16
      /\ TableId("DC", 2) = 1 /\ TableId("AC", 2) = 17
  BY DEF TableId
<1>4. Stands(file, p, emit_dht("DC", 1)) =>
        IsSegment(file, p, 196, 31, 0) /\ HoldsTable(file, p, "DC", 1)
  BY <1>1, <1>2, <1>3
<1>5. Stands(file, p, emit_dht("AC", 1)) =>
        IsSegment(file, p, 196, 181, 16) /\ HoldsTable(file, p, "AC", 1)
  BY <1>1, <1>2, <1>3
<1>6. Stands(file, p, emit_dht("DC", 2)) =>
        IsSegment(file, p, 196, 31, 1) /\ HoldsTable(file, p, "DC", 2)
  BY <1>1, <1>2, <1>3
<1>7. Stands(file, p, emit_dht("AC", 2)) =>
        IsSegment(file, p, 196, 181, 17) /\ HoldsTable(file, p, "AC", 2)
  BY <1>1, <1>2, <1>3
<1> QED
  BY <1>4, <1>5, <1>6, <1>7

\* A grey picture's header.
LEMMA GreyHeader ==
  ASSUME NEW tables \in Tables,
         NEW width \in Nat, width < 65536, NEW height \in Nat, height < 65536, NEW file
  PROVE  LET header == HeaderOf(Marker(216), emit_jfif_app0, emit_dqt(1, tables),
                                emit_sof(1, width, height), emit_dhts(1), emit_sos(1))
         IN  /\ Piece(header, 328)
             /\ Stands(file, 1, header) =>
                  /\ IsLaid(file, 1) /\ Stands(file, 26, tables[1])
                  /\ HasSize(file, 90, 1, width, height)
                  /\ HoldsTable(file, 103, "DC", 1) /\ HoldsTable(file, 136, "AC", 1)
                  /\ file[1] = 255 /\ file[2] = 216
<1> DEFINE a == Marker(216)
           b == emit_jfif_app0
           c == emit_dqt(1, tables)
           d == emit_sof(1, width, height)
           e == emit_dhts(1)
           g == emit_sos(1)
           header == HeaderOf(a, b, c, d, e, g)
<1>1. 216 \in Byte /\ 1 \in {1, 3} /\ 13 = 10 + 3 * 1 /\ 10 = 8 + 2 * 1
  BY DEF Byte
<1>2. Piece(a, 2)
  BY <1>1, MarkerStands
<1>3. Piece(b, 18)
  BY App0Stands
<1>4. Piece(c, 69)
  BY DqtStands
<1>5. Piece(d, 13)
  BY <1>1, SofStands
<1>6. Piece(e, 216)
  BY DhtsStand
<1>7. Piece(g, 10)
  BY <1>1, SosStands
<1> HIDE DEF a, b, c, d, e, g
<1>8. ArePieces(a, b, c, d, e, g, 69, 13, 216, 10)
  BY <1>2, <1>3, <1>4, <1>5, <1>6, <1>7 DEF ArePieces
<1>9. /\ Piece(header, 20 + 69 + 13 + 216 + 10)
      /\ Stands(file, 1, header) =>
           /\ Stands(file, 1, a) /\ Stands(file, 3, b) /\ Stands(file, 21, c)
           /\ Stands(file, 21 + 69, d) /\ Stands(file, 21 + 69 + 13, e)
           /\ Stands(file, 21 + 69 + 13 + 216, g)
  BY <1>8, HeaderPieces
<1> HIDE DEF header
<1>10. ASSUME Stands(file, 1, header)
       PROVE  /\ IsLaid(file, 1) /\ Stands(file, 26, tables[1])
              /\ HasSize(file, 90, 1, width, height)
              /\ HoldsTable(file, 103, "DC", 1) /\ HoldsTable(file, 136, "AC", 1)
              /\ file[1] = 255 /\ file[2] = 216
  <2>1. /\ Stands(file, 1, a) /\ Stands(file, 3, b) /\ Stands(file, 21, c)
        /\ Stands(file, 90, d) /\ Stands(file, 103, e) /\ Stands(file, 319, g)
    BY <1>9, <1>10
  <2>2. file[1] = 255 /\ file[2] = 216
    BY <1>1, <2>1, MarkerStands DEF a
  <2>3. IsSegment(file, 3, 224, 16, 74)
    BY <2>1, App0Stands DEF b
  <2>4. IsSegment(file, 21, 219, 67, 0) /\ Stands(file, 26, tables[1])
    <3>1. Stands(file, 21, DqtOf(tables, 1))
      BY <2>1, DqtStands DEF c
    <3>2. 1 \in 1..2 /\ 1 - 1 = 0 /\ 21 + 5 = 26
      OBVIOUS
    <3>3. IsSegment(file, 21, 219, 67, 1 - 1) /\ Stands(file, 21 + 5, tables[1])
      BY <3>1, <3>2, TableStands
    <3> QED
      BY <3>2, <3>3
  <2>5. IsSegment(file, 90, 192, 11, 8) /\ HasSize(file, 90, 1, width, height)
    <3>1. IsSegment(file, 90, 192, 8 + 3 * 1, 8) /\ HasSize(file, 90, 1, width, height)
      BY <1>1, <2>1, SofSays DEF d
    <3> QED
      BY <3>1
  <2>6. Stands(file, 103, emit_dht("DC", 1)) /\ Stands(file, 136, emit_dht("AC", 1))
    <3>1. Stands(file, 103, emit_dht("DC", 1)) /\ Stands(file, 103 + 33, emit_dht("AC", 1))
      BY <2>1, DhtsStand DEF e
    <3> QED
      BY <3>1
  <2>7. IsSegment(file, 103, 196, 31, 0) /\ HoldsTable(file, 103, "DC", 1)
    BY <2>6, TableSays
  <2>8. IsSegment(file, 136, 196, 181, 16) /\ HoldsTable(file, 136, "AC", 1)
    BY <2>6, TableSays
  <2>9. IsSegment(file, 319, 218, 8, 1)
    <3>1. IsSegment(file, 319, 218, 6 + 2 * 1, 1)
      BY <1>1, <2>1, SosStands DEF g
    <3> QED
      BY <3>1
  <2>10. IsLaid(file, 1)
    BY <2>3, <2>4, <2>5, <2>7, <2>8, <2>9, GreyLaid
  <2> QED
    BY <2>2, <2>4, <2>5, <2>7, <2>8, <2>10
<1> QED
  <2>1. Piece(header, 328)
    BY <1>9
  <2>2. header = HeaderOf(Marker(216), emit_jfif_app0, emit_dqt(1, tables),
                          emit_sof(1, width, height), emit_dhts(1), emit_sos(1))
    BY DEF header, a, b, c, d, e, g
  <2> QED
    BY <1>10, <2>1, <2>2

\* A colour picture's header.
LEMMA ColourHeader ==
  ASSUME NEW tables \in Tables,
         NEW width \in Nat, width < 65536, NEW height \in Nat, height < 65536, NEW file
  PROVE  LET header == HeaderOf(Marker(216), emit_jfif_app0, emit_dqt(3, tables),
                                emit_sof(3, width, height), emit_dhts(3), emit_sos(3))
         IN  /\ Piece(header, 623)
             /\ Stands(file, 1, header) =>
                  /\ IsLaid(file, 3) /\ Stands(file, 26, tables[1]) /\ Stands(file, 95, tables[2])
                  /\ HasSize(file, 159, 3, width, height)
                  /\ HoldsTable(file, 178, "DC", 1) /\ HoldsTable(file, 211, "AC", 1)
                  /\ HoldsTable(file, 394, "DC", 2) /\ HoldsTable(file, 427, "AC", 2)
                  /\ file[1] = 255 /\ file[2] = 216
<1> DEFINE a == Marker(216)
           b == emit_jfif_app0
           c == emit_dqt(3, tables)
           d == emit_sof(3, width, height)
           e == emit_dhts(3)
           g == emit_sos(3)
           header == HeaderOf(a, b, c, d, e, g)
<1>1. 216 \in Byte /\ 3 \in {1, 3} /\ 19 = 10 + 3 * 3 /\ 14 = 8 + 2 * 3
  BY DEF Byte
<1>2. Piece(a, 2)
  BY <1>1, MarkerStands
<1>3. Piece(b, 18)
  BY App0Stands
<1>4. Piece(c, 138)
  BY DqtStands
<1>5. Piece(d, 19)
  BY <1>1, SofStands
<1>6. Piece(e, 432)
  BY DhtsStand
<1>7. Piece(g, 14)
  BY <1>1, SosStands
<1> HIDE DEF a, b, c, d, e, g
<1>8. ArePieces(a, b, c, d, e, g, 138, 19, 432, 14)
  BY <1>2, <1>3, <1>4, <1>5, <1>6, <1>7 DEF ArePieces
<1>9. /\ Piece(header, 20 + 138 + 19 + 432 + 14)
      /\ Stands(file, 1, header) =>
           /\ Stands(file, 1, a) /\ Stands(file, 3, b) /\ Stands(file, 21, c)
           /\ Stands(file, 21 + 138, d) /\ Stands(file, 21 + 138 + 19, e)
           /\ Stands(file, 21 + 138 + 19 + 432, g)
  BY <1>8, HeaderPieces
<1> HIDE DEF header
<1>10. ASSUME Stands(file, 1, header)
       PROVE  /\ IsLaid(file, 3) /\ Stands(file, 26, tables[1]) /\ Stands(file, 95, tables[2])
              /\ HasSize(file, 159, 3, width, height)
              /\ HoldsTable(file, 178, "DC", 1) /\ HoldsTable(file, 211, "AC", 1)
              /\ HoldsTable(file, 394, "DC", 2) /\ HoldsTable(file, 427, "AC", 2)
              /\ file[1] = 255 /\ file[2] = 216
  <2>1. /\ Stands(file, 1, a) /\ Stands(file, 3, b) /\ Stands(file, 21, c)
        /\ Stands(file, 159, d) /\ Stands(file, 178, e) /\ Stands(file, 610, g)
    BY <1>9, <1>10
  <2>2. file[1] = 255 /\ file[2] = 216
    BY <1>1, <2>1, MarkerStands DEF a
  <2>3. IsSegment(file, 3, 224, 16, 74)
    BY <2>1, App0Stands DEF b
  <2>4. /\ IsSegment(file, 21, 219, 67, 0) /\ Stands(file, 26, tables[1])
        /\ IsSegment(file, 90, 219, 67, 1) /\ Stands(file, 95, tables[2])
    <3>1. Stands(file, 21, DqtOf(tables, 1)) /\ Stands(file, 21 + 69, DqtOf(tables, 2))
      BY <2>1, DqtStands DEF c
    <3>2. /\ 1 \in 1..2 /\ 1 - 1 = 0 /\ 21 + 5 = 26 /\ 21 + 69 = 90
          /\ 2 \in 1..2 /\ 2 - 1 = 1 /\ 90 + 5 = 95
      OBVIOUS
    <3>3. IsSegment(file, 21, 219, 67, 1 - 1) /\ Stands(file, 21 + 5, tables[1])
      BY <3>1, <3>2, TableStands
    <3>4. IsSegment(file, 90, 219, 67, 2 - 1) /\ Stands(file, 90 + 5, tables[2])
      BY <3>1, <3>2, TableStands
    <3> QED
      BY <3>2, <3>3, <3>4
  <2>5. IsSegment(file, 159, 192, 17, 8) /\ HasSize(file, 159, 3, width, height)
    <3>1. IsSegment(file, 159, 192, 8 + 3 * 3, 8) /\ HasSize(file, 159, 3, width, height)
      BY <1>1, <2>1, SofSays DEF d
    <3> QED
      BY <3>1
  <2>6. /\ Stands(file, 178, emit_dht("DC", 1)) /\ Stands(file, 211, emit_dht("AC", 1))
        /\ Stands(file, 394, emit_dht("DC", 2)) /\ Stands(file, 427, emit_dht("AC", 2))
    <3>1. /\ Stands(file, 178, emit_dht("DC", 1)) /\ Stands(file, 178 + 33, emit_dht("AC", 1))
          /\ Stands(file, 178 + 216, emit_dht("DC", 2))
          /\ Stands(file, 178 + 249, emit_dht("AC", 2))
      BY <2>1, DhtsStand DEF e
    <3> QED
      BY <3>1
  <2>7. /\ IsSegment(file, 178, 196, 31, 0) /\ HoldsTable(file, 178, "DC", 1)
        /\ IsSegment(file, 394, 196, 31, 1) /\ HoldsTable(file, 394, "DC", 2)
    BY <2>6, TableSays
  <2>8. /\ IsSegment(file, 211, 196, 181, 16) /\ HoldsTable(file, 211, "AC", 1)
        /\ IsSegment(file, 427, 196, 181, 17) /\ HoldsTable(file, 427, "AC", 2)
    BY <2>6, TableSays
  <2>9. IsSegment(file, 610, 218, 12, 3)
    <3>1. IsSegment(file, 610, 218, 6 + 2 * 3, 3)
      BY <1>1, <2>1, SosStands DEF g
    <3> QED
      BY <3>1
  <2>10. IsLaid(file, 3)
    BY <2>3, <2>4, <2>5, <2>7, <2>8, <2>9, ColourLaid
  <2> QED
    BY <2>2, <2>4, <2>5, <2>7, <2>8, <2>10
<1> QED
  <2>1. Piece(header, 623)
    BY <1>9
  <2>2. header = HeaderOf(Marker(216), emit_jfif_app0, emit_dqt(3, tables),
                          emit_sof(3, width, height), emit_dhts(3), emit_sos(3))
    BY DEF header, a, b, c, d, e, g
  <2> QED
    BY <1>10, <2>1, <2>2


\* What a decoder finds in the header, which ends at byte length.
HasTables(file, t, tables) ==
  /\ LET p == CHOOSE s \in OfKind(file, 219) : file[s + 4] = t
     IN  p \in Nat /\ p + 68 < Len(file) /\ Stands(file, p + 5, tables[t + 1])
  /\ TableAt(file, t) \in Nat /\ HoldsTable(file, TableAt(file, t), "DC", t + 1)
  /\ TableAt(file, 16 + t) \in Nat /\ HoldsTable(file, TableAt(file, 16 + t), "AC", t + 1)
IsHeaded(file, comps, width, height, tables, length) ==
  /\ file[1] = 255 /\ file[2] = 216
  /\ Segment(file, 192) \in Nat /\ HasSize(file, Segment(file, 192), comps, width, height)
  /\ Segment(file, 218) + 2 + Number(file, Segment(file, 218) + 2) = length + 1
  /\ \A t \in 0..(comps \div 2) : HasTables(file, t, tables)

LEMMA GreySegments ==
  ASSUME NEW file, IsLaid(file, 1)
  PROVE  /\ Segment(file, 192) = 90 /\ Segment(file, 218) = 319
         /\ (CHOOSE s \in OfKind(file, 219) : file[s + 4] = 0) = 21
         /\ TableAt(file, 0) = 103 /\ TableAt(file, 16) = 136
         /\ Number(file, 321) = 8
<1> DEFINE S == StartsOf(1)
           K == KindsOf(1)
           L == LengthsOf(1)
           I == IdsOf(1)
<1>1. /\ S[2] = 21 /\ S[3] = 90 /\ S[4] = 103 /\ S[5] = 136 /\ S[6] = 319
      /\ K[2] = 219 /\ K[3] = 192 /\ K[4] = 196 /\ K[5] = 196 /\ K[6] = 218
      /\ I[2] = 0 /\ I[4] = 0 /\ I[5] = 16 /\ L[6] = 8
  BY DEF StartsOf, KindsOf, IdsOf, LengthsOf
<1>2. \A m \in 1..9 : /\ K[m] = 219 => S[m] = 21
                      /\ K[m] = 192 => S[m] = 90
                      /\ K[m] = 218 => S[m] = 319
                      /\ K[m] = 196 /\ I[m] = 0 => S[m] = 103
                      /\ K[m] = 196 /\ I[m] = 16 => S[m] = 136
  BY DEF StartsOf, KindsOf, IdsOf
<1> HIDE DEF S, K, L, I
<1>3. IsLayout(file, S, K, L, I)
  BY DEF IsLaid, S, K, L, I
<1>4. 2 \in 1..9 /\ 3 \in 1..9 /\ 4 \in 1..9 /\ 5 \in 1..9 /\ 6 \in 1..9
  OBVIOUS
<1>5. Segment(file, K[3]) = S[3] /\ Segment(file, K[6]) = S[6]
  BY <1>1, <1>2, <1>3, <1>4, OnlySegment
<1>6. (CHOOSE s \in OfKind(file, K[2]) : file[s + 4] = I[2]) = S[2]
  BY <1>1, <1>2, <1>3, <1>4, OnlySegment
<1>7. (CHOOSE s \in OfKind(file, K[4]) : file[s + 4] = I[4]) = S[4]
  BY <1>1, <1>2, <1>3, <1>4, OnlySegment
<1>8. (CHOOSE s \in OfKind(file, K[5]) : file[s + 4] = I[5]) = S[5]
  BY <1>1, <1>2, <1>3, <1>4, OnlySegment
<1>9. Number(file, S[6] + 2) = L[6]
  BY <1>3, <1>4 DEF IsLayout, IsSegment
<1>10. Segment(file, 192) = 90 /\ Segment(file, 218) = 319
  BY <1>1, <1>5
<1>11. (CHOOSE s \in OfKind(file, 219) : file[s + 4] = 0) = 21
  BY <1>1, <1>6
<1>12. TableAt(file, 0) = 103
  BY <1>1, <1>7 DEF TableAt
<1>13. TableAt(file, 16) = 136
  BY <1>1, <1>8 DEF TableAt
<1>14. Number(file, 321) = 8
  <2>1. S[6] + 2 = 321
    BY <1>1
  <2> QED
    BY <1>1, <1>9, <2>1
<1> QED
  BY <1>10, <1>11, <1>12, <1>13, <1>14

LEMMA ColourSegments ==
  ASSUME NEW file, IsLaid(file, 3)
  PROVE  /\ Segment(file, 192) = 159 /\ Segment(file, 218) = 610
         /\ (CHOOSE s \in OfKind(file, 219) : file[s + 4] = 0) = 21
         /\ (CHOOSE s \in OfKind(file, 219) : file[s + 4] = 1) = 90
         /\ TableAt(file, 0) = 178 /\ TableAt(file, 16) = 211
         /\ TableAt(file, 1) = 394 /\ TableAt(file, 17) = 427
         /\ Number(file, 612) = 12
<1> DEFINE S == StartsOf(3)
           K == KindsOf(3)
           L == LengthsOf(3)
           I == IdsOf(3)
<1>1. /\ S[2] = 21 /\ S[3] = 90 /\ S[4] = 159 /\ S[5] = 178 /\ S[6] = 211
      /\ S[7] = 394 /\ S[8] = 427 /\ S[9] = 610
      /\ K[2] = 219 /\ K[3] = 219 /\ K[4] = 192 /\ K[5] = 196 /\ K[6] = 196
      /\ K[7] = 196 /\ K[8] = 196 /\ K[9] = 218
      /\ I[2] = 0 /\ I[3] = 1 /\ I[5] = 0 /\ I[6] = 16 /\ I[7] = 1 /\ I[8] = 17 /\ L[9] = 12
  BY DEF StartsOf, KindsOf, IdsOf, LengthsOf
<1>2. \A m \in 1..9 : /\ K[m] = 192 => S[m] = 159
                      /\ K[m] = 218 => S[m] = 610
                      /\ K[m] = 219 /\ I[m] = 0 => S[m] = 21
                      /\ K[m] = 219 /\ I[m] = 1 => S[m] = 90
                      /\ K[m] = 196 /\ I[m] = 0 => S[m] = 178
                      /\ K[m] = 196 /\ I[m] = 16 => S[m] = 211
                      /\ K[m] = 196 /\ I[m] = 1 => S[m] = 394
                      /\ K[m] = 196 /\ I[m] = 17 => S[m] = 427
  BY DEF StartsOf, KindsOf, IdsOf
<1> HIDE DEF S, K, L, I
<1>3. IsLayout(file, S, K, L, I)
  BY DEF IsLaid, S, K, L, I
<1>4. /\ 2 \in 1..9 /\ 3 \in 1..9 /\ 4 \in 1..9 /\ 5 \in 1..9 /\ 6 \in 1..9
      /\ 7 \in 1..9 /\ 8 \in 1..9 /\ 9 \in 1..9
  OBVIOUS
<1>5. Segment(file, K[4]) = S[4] /\ Segment(file, K[9]) = S[9]
  BY <1>1, <1>2, <1>3, <1>4, OnlySegment
<1>6. (CHOOSE s \in OfKind(file, K[2]) : file[s + 4] = I[2]) = S[2]
  BY <1>1, <1>2, <1>3, <1>4, OnlySegment
<1>7. (CHOOSE s \in OfKind(file, K[3]) : file[s + 4] = I[3]) = S[3]
  BY <1>1, <1>2, <1>3, <1>4, OnlySegment
<1>8. (CHOOSE s \in OfKind(file, K[5]) : file[s + 4] = I[5]) = S[5]
  BY <1>1, <1>2, <1>3, <1>4, OnlySegment
<1>9. (CHOOSE s \in OfKind(file, K[6]) : file[s + 4] = I[6]) = S[6]
  BY <1>1, <1>2, <1>3, <1>4, OnlySegment
<1>10. (CHOOSE s \in OfKind(file, K[7]) : file[s + 4] = I[7]) = S[7]
  BY <1>1, <1>2, <1>3, <1>4, OnlySegment
<1>11. (CHOOSE s \in OfKind(file, K[8]) : file[s + 4] = I[8]) = S[8]
  BY <1>1, <1>2, <1>3, <1>4, OnlySegment
<1>12. Number(file, S[9] + 2) = L[9]
  BY <1>3, <1>4 DEF IsLayout, IsSegment
<1>13. Segment(file, 192) = 159 /\ Segment(file, 218) = 610
  BY <1>1, <1>5
<1>14. (CHOOSE s \in OfKind(file, 219) : file[s + 4] = 0) = 21
  BY <1>1, <1>6
<1>15. (CHOOSE s \in OfKind(file, 219) : file[s + 4] = 1) = 90
  BY <1>1, <1>7
<1>16. TableAt(file, 0) = 178
  BY <1>1, <1>8 DEF TableAt
<1>17. TableAt(file, 16) = 211
  BY <1>1, <1>9 DEF TableAt
<1>18. TableAt(file, 1) = 394
  BY <1>1, <1>10 DEF TableAt
<1>19. TableAt(file, 17) = 427
  BY <1>1, <1>11 DEF TableAt
<1>20. Number(file, 612) = 12
  <2>1. S[9] + 2 = 612
    BY <1>1
  <2> QED
    BY <1>1, <1>12, <2>1
<1> QED
  BY <1>13, <1>14, <1>15, <1>16, <1>17, <1>18, <1>19, <1>20

HeaderFor(comps, width, height, tables) ==
  HeaderOf(Marker(216), emit_jfif_app0, emit_dqt(comps, tables),
           emit_sof(comps, width, height), emit_dhts(comps), emit_sos(comps))

HaveTables(file, t, tables, p, u, v) ==
  /\ (CHOOSE s \in OfKind(file, 219) : file[s + 4] = t) = p
  /\ p \in Nat /\ p + 68 < Len(file) /\ Stands(file, p + 5, tables[u])
  /\ TableAt(file, t) \in Nat /\ HoldsTable(file, TableAt(file, t), "DC", u)
  /\ TableAt(file, v) \in Nat /\ HoldsTable(file, TableAt(file, v), "AC", u)

LEMMA TablesAt ==
  ASSUME NEW file, NEW tables, NEW p
  PROVE  /\ HaveTables(file, 0, tables, p, 1, 16) => HasTables(file, 0, tables)
         /\ HaveTables(file, 1, tables, p, 2, 17) => HasTables(file, 1, tables)
<1>1. 0 + 1 = 1 /\ 1 + 1 = 2 /\ 16 + 0 = 16 /\ 16 + 1 = 17
  OBVIOUS
<1>2. HaveTables(file, 0, tables, p, 1, 16) => HasTables(file, 0, tables)
  BY <1>1 DEF HaveTables, HasTables
<1>3. HaveTables(file, 1, tables, p, 2, 17) => HasTables(file, 1, tables)
  BY <1>1 DEF HaveTables, HasTables
<1> QED
  BY <1>2, <1>3

\* Whatever follows it, a decoder finds its way in the header.
LEMMA HeaderFound ==
  ASSUME NEW comps \in {1, 3}, NEW tables \in Tables,
         NEW width \in Nat, width < 65536, NEW height \in Nat, height < 65536, NEW file,
         NEW n, n = IF comps = 1 THEN 328 ELSE 623
  PROVE  LET header == HeaderFor(comps, width, height, tables)
         IN  /\ Piece(header, n)
             /\ Stands(file, 1, header) /\ Len(file) \in Nat /\ n <= Len(file)
                  => IsHeaded(file, comps, width, height, tables, n)
<1> DEFINE header == HeaderFor(comps, width, height, tables)
<1>1. CASE comps = 1
  <2>1. /\ Piece(header, 328)
        /\ Stands(file, 1, header) =>
             /\ IsLaid(file, 1) /\ Stands(file, 26, tables[1])
             /\ HasSize(file, 90, 1, width, height)
             /\ HoldsTable(file, 103, "DC", 1) /\ HoldsTable(file, 136, "AC", 1)
             /\ file[1] = 255 /\ file[2] = 216
    BY <1>1, GreyHeader DEF HeaderFor
  <2> HIDE DEF header
  <2>2. ASSUME Stands(file, 1, header), Len(file) \in Nat, 328 <= Len(file)
        PROVE  IsHeaded(file, 1, width, height, tables, 328)
    <3>1. /\ IsLaid(file, 1) /\ Stands(file, 26, tables[1])
          /\ HasSize(file, 90, 1, width, height)
          /\ HoldsTable(file, 103, "DC", 1) /\ HoldsTable(file, 136, "AC", 1)
          /\ file[1] = 255 /\ file[2] = 216
      BY <2>1, <2>2
    <3>2. /\ Segment(file, 192) = 90 /\ Segment(file, 218) = 319
          /\ (CHOOSE s \in OfKind(file, 219) : file[s + 4] = 0) = 21
          /\ TableAt(file, 0) = 103 /\ TableAt(file, 16) = 136
          /\ Number(file, 321) = 8
      BY <3>1, GreySegments
    <3>3. HasTables(file, 0, tables)
      <4>1. 21 + 5 = 26 /\ 21 \in Nat /\ 21 + 68 < Len(file)
        BY <2>2
      <4>2. HaveTables(file, 0, tables, 21, 1, 16)
        BY <3>1, <3>2, <4>1, SMTT(30) DEF HaveTables
      <4> QED
        BY <4>2, TablesAt
    <3>4. \A t \in 0..(1 \div 2) : t = 0
      OBVIOUS
    <3>5. Segment(file, 218) + 2 = 321
      BY <3>2
    <3>6. Segment(file, 218) + 2 + Number(file, Segment(file, 218) + 2) = 328 + 1
      BY <3>2, <3>5
    <3> QED
      BY <3>1, <3>2, <3>3, <3>4, <3>6 DEF IsHeaded
  <2> QED
    BY <1>1, <2>1, <2>2 DEF header
<1>2. CASE comps = 3
  <2>1. /\ Piece(header, 623)
        /\ Stands(file, 1, header) =>
             /\ IsLaid(file, 3) /\ Stands(file, 26, tables[1]) /\ Stands(file, 95, tables[2])
             /\ HasSize(file, 159, 3, width, height)
             /\ HoldsTable(file, 178, "DC", 1) /\ HoldsTable(file, 211, "AC", 1)
             /\ HoldsTable(file, 394, "DC", 2) /\ HoldsTable(file, 427, "AC", 2)
             /\ file[1] = 255 /\ file[2] = 216
    BY <1>2, ColourHeader DEF HeaderFor
  <2> HIDE DEF header
  <2>2. ASSUME Stands(file, 1, header), Len(file) \in Nat, 623 <= Len(file)
        PROVE  IsHeaded(file, 3, width, height, tables, 623)
    <3>1. /\ IsLaid(file, 3) /\ Stands(file, 26, tables[1]) /\ Stands(file, 95, tables[2])
          /\ HasSize(file, 159, 3, width, height)
          /\ HoldsTable(file, 178, "DC", 1) /\ HoldsTable(file, 211, "AC", 1)
          /\ HoldsTable(file, 394, "DC", 2) /\ HoldsTable(file, 427, "AC", 2)
          /\ file[1] = 255 /\ file[2] = 216
      BY <2>1, <2>2
    <3>2. /\ Segment(file, 192) = 159 /\ Segment(file, 218) = 610
          /\ (CHOOSE s \in OfKind(file, 219) : file[s + 4] = 0) = 21
          /\ (CHOOSE s \in OfKind(file, 219) : file[s + 4] = 1) = 90
          /\ TableAt(file, 0) = 178 /\ TableAt(file, 16) = 211
          /\ TableAt(file, 1) = 394 /\ TableAt(file, 17) = 427
          /\ Number(file, 612) = 12
      BY <3>1, ColourSegments
    <3>3. HasTables(file, 0, tables)
      <4>1. 21 + 5 = 26 /\ 21 \in Nat /\ 21 + 68 < Len(file)
        BY <2>2
      <4>2. /\ (CHOOSE s \in OfKind(file, 219) : file[s + 4] = 0) = 21
            /\ Stands(file, 21 + 5, tables[1])
            /\ TableAt(file, 0) \in Nat /\ HoldsTable(file, TableAt(file, 0), "DC", 1)
        BY <3>1, <3>2, <4>1, SMTT(30)
      <4>3. TableAt(file, 16) \in Nat /\ HoldsTable(file, TableAt(file, 16), "AC", 1)
        BY <3>1, <3>2
      <4>4. HaveTables(file, 0, tables, 21, 1, 16)
        BY <4>1, <4>2, <4>3 DEF HaveTables
      <4> QED
        BY <4>4, TablesAt
    <3>4. HasTables(file, 1, tables)
      <4>1. 90 + 5 = 95 /\ 90 \in Nat /\ 90 + 68 < Len(file)
        BY <2>2
      <4>2. /\ (CHOOSE s \in OfKind(file, 219) : file[s + 4] = 1) = 90
            /\ Stands(file, 90 + 5, tables[2])
            /\ TableAt(file, 1) \in Nat /\ HoldsTable(file, TableAt(file, 1), "DC", 2)
        BY <3>1, <3>2, <4>1, SMTT(30)
      <4>3. TableAt(file, 17) \in Nat /\ HoldsTable(file, TableAt(file, 17), "AC", 2)
        BY <3>1, <3>2
      <4>4. HaveTables(file, 1, tables, 90, 2, 17)
        BY <4>1, <4>2, <4>3 DEF HaveTables
      <4> QED
        BY <4>4, TablesAt
    <3>5. \A t \in 0..(3 \div 2) : t = 0 \/ t = 1
      OBVIOUS
    <3>6. Segment(file, 218) + 2 = 612
      BY <3>2
    <3>7. Segment(file, 218) + 2 + Number(file, Segment(file, 218) + 2) = 623 + 1
      BY <3>2, <3>6
    <3> QED
      BY <3>1, <3>2, <3>3, <3>4, <3>5, <3>7 DEF IsHeaded
  <2> QED
    BY <1>2, <2>1, <2>2 DEF header
<1> QED
  BY <1>1, <1>2

\* A decoder's code books are those of the encoder and its steps the tables'.
LEMMA BooksFound ==
  ASSUME NEW file \in Seq(Byte), NEW tables \in Tables, NEW t \in 0..1,
         HasTables(file, t, tables)
  PROVE  /\ StepsOf(file, t) = tables[t + 1]
         /\ IsCodeBook(CodesOf(file, t), m_huff_codes["DC"][t + 1])
         /\ IsCodeBook(CodesOf(file, 16 + t), m_huff_codes["AC"][t + 1])
<1>1. t + 1 \in 1..2
  OBVIOUS
<1>2. IsCodeBook(CodesOf(file, t), m_huff_codes["DC"][t + 1])
  <2>1. /\ TableAt(file, t) \in Nat
        /\ IsHuffmanTable(file, TableAt(file, t), m_huff_bits["DC"][t + 1],
                          m_huff_val["DC"][t + 1])
    BY DEF HasTables, HoldsTable
  <2>2. "DC" \in {"DC", "AC"}
    OBVIOUS
  <2> QED
    BY <1>1, <2>1, <2>2, CodesOfTable, Zenon
<1>3. IsCodeBook(CodesOf(file, 16 + t), m_huff_codes["AC"][t + 1])
  <2>1. /\ TableAt(file, 16 + t) \in Nat
        /\ IsHuffmanTable(file, TableAt(file, 16 + t), m_huff_bits["AC"][t + 1],
                          m_huff_val["AC"][t + 1])
    BY DEF HasTables, HoldsTable
  <2>2. "AC" \in {"DC", "AC"}
    OBVIOUS
  <2> QED
    BY <1>1, <2>1, <2>2, CodesOfTable, Zenon
<1>4. StepsOf(file, t) = tables[t + 1]
  <2> DEFINE p == CHOOSE s \in OfKind(file, 219) : file[s + 4] = t
             q == p + 5
             steps == tables[t + 1]
  <2>1. p \in Nat /\ p + 68 < Len(file) /\ Stands(file, p + 5, tables[t + 1])
    BY DEF HasTables
  <2>2. StepsOf(file, t) = SubSeq(file, p + 5, p + 68)
    BY DEF StepsOf
  <2> HIDE DEF p
  <2>3. steps \in [1..64 -> Byte]
    BY <1>1 DEF Tables
  <2>4. Len(steps) = 64 /\ steps \in Seq(Byte)
    BY <2>3, FunctionPiece DEF Piece
  <2>5. q \in Nat /\ q > 0 /\ p + 68 = q + 63 /\ q + 63 <= Len(file)
    BY <2>1, LenProperties
  <2> HIDE DEF steps, q
  <2>6. \A i \in 1..64 : file[q + i - 1] = steps[i]
    BY <2>1, <2>4 DEF Stands, q, steps
  <2>7. SubSeq(file, q, q + 63) = steps
    <3> DEFINE cut == SubSeq(file, q, q + 63)
    <3>1. q \in 1..(Len(file) + 1) /\ q + 63 \in (q - 1)..Len(file)
      BY <2>5
    <3>2. cut \in Seq(Byte) /\ Len(cut) = 64 /\ \A i \in 1..64 : cut[i] = file[q + i - 1]
      BY <3>1, <2>5, SubSeqProperties
    <3> HIDE DEF cut
    <3> QED
      <4>1. Len(cut) = Len(steps) /\ \A i \in 1..Len(cut) : cut[i] = steps[i]
        BY <2>4, <2>6, <3>2
      <4>2. cut = steps
        BY <2>4, <3>2, <4>1, SeqEqual
      <4> QED
        BY <4>2 DEF cut
  <2> QED
    BY <2>2, <2>5, <2>7 DEF q, steps
<1> QED
  BY <1>2, <1>3, <1>4

-------------------------------------------------------------------------------
(* The whole file: a decoder reads what has been coded.                         *)

\* What Decoded works out from the file.
SofOf(file) == Segment(file, 192)
CompsIn(file) == file[SofOf(file) + 9]
Across(file, c) == file[SofOf(file) + 8 + 3 * c] \div 16
Down(file, c) == file[SofOf(file) + 8 + 3 * c] % 16
McuIn(file) ==
  FlattenSeq([c \in 1..CompsIn(file) |-> [k \in 1..(Across(file, c) * Down(file, c)) |-> c - 1]])
McusIn(file) == Ceiling(Number(file, SofOf(file) + 7), 8 * Across(file, 1))
                * Ceiling(Number(file, SofOf(file) + 5), 8 * Down(file, 1))
DataIn(file) == Unstuffed(ScanBytes(file))
BooksIn(file, base) == [t \in 0..(CompsIn(file) \div 2) |-> CodesOf(file, base + t)]
FirstBooks(file) == [t \in 0..(CompsIn(file) \div 2) |-> CodesOf(file, t)]
ReadIn(file) == BlocksRead(DataIn(file), McuIn(file), FirstBooks(file), BooksIn(file, 16),
                           McusIn(file) * Len(McuIn(file)))
IsClean(file) ==
  /\ SubSeq(file, 1, 2) = <<255, 216>>
  /\ SubSeq(file, Len(file) - 1, Len(file)) = <<255, 217>>
  /\ WellStuffed(ScanBytes(file))
  /\ ReadIn(file).at <= 8 * Len(DataIn(file)) /\ 8 * Len(DataIn(file)) < ReadIn(file).at + 8

LEMMA DecodedParts ==
  ASSUME NEW file
  PROVE  /\ Decoded(file).width = Number(file, SofOf(file) + 7)
         /\ Decoded(file).height = Number(file, SofOf(file) + 5)
         /\ Decoded(file).steps = [t \in 0..(CompsIn(file) \div 2) |-> StepsOf(file, t)]
         /\ Decoded(file).blocks = ReadIn(file).blocks
         /\ Decoded(file).complete = (Len(ReadIn(file).blocks) = McusIn(file) * Len(McuIn(file)))
         /\ Decoded(file).clean = IsClean(file)
BY Zenon DEF Decoded, SofOf, CompsIn, Across, Down, McuIn, McusIn, DataIn, BooksIn, FirstBooks,
             ReadIn, IsClean

\* The order in which the components of the blocks take turns.
McuOf(comps) == IF comps = 1 THEN <<0>> ELSE <<0, 0, 0, 0, 1, 2>>

LEMMA TurnsFound ==
  ASSUME NEW comps \in {1, 3}, NEW file, NEW width, NEW height,
         HasSize(file, SofOf(file), comps, width, height), SofOf(file) \in Nat
  PROVE  /\ CompsIn(file) = comps /\ McuIn(file) = McuOf(comps)
         /\ McusIn(file) = Ceiling(width, IF comps = 1 THEN 8 ELSE 16)
                           * Ceiling(height, IF comps = 1 THEN 8 ELSE 16)
<1> DEFINE p == SofOf(file)
<1>1. /\ Number(file, p + 5) = height /\ Number(file, p + 7) = width /\ file[p + 9] = comps
      /\ file[p + 11] = IF comps = 3 THEN 34 ELSE 17
      /\ comps = 3 => file[p + 14] = 17 /\ file[p + 17] = 17
  BY DEF HasSize
<1>2. p + 8 + 3 * 1 = p + 11 /\ p + 8 + 3 * 2 = p + 14 /\ p + 8 + 3 * 3 = p + 17
  OBVIOUS
<1>3. CompsIn(file) = comps
  BY <1>1 DEF CompsIn
<1>4. CASE comps = 1
  <2>1. file[p + 8 + 3 * 1] = 17
    BY <1>1, <1>2, <1>4
  <2>2. Across(file, 1) = 1 /\ Down(file, 1) = 1
    BY <2>1 DEF Across, Down
  <2> DEFINE q == [c \in 1..1 |-> [k \in 1..(Across(file, c) * Down(file, c)) |-> c - 1]]
  <2>3. McuIn(file) = FlattenSeq(q)
    BY <1>3, <1>4 DEF McuIn
  <2>4. q = << <<0>> >>
    <3>1. \A c \in 1..1 : [k \in 1..(Across(file, c) * Down(file, c)) |-> c - 1]
                            = [k \in 1..1 |-> 0]
      BY <2>2
    <3>2. [k \in 1..1 |-> 0] = <<0>>
      OBVIOUS
    <3>3. q = [c \in 1..1 |-> <<0>>]
      BY <3>1, <3>2
    <3> HIDE DEF q
    <3>4. [c \in 1..1 |-> <<0>>] = << <<0>> >>
      OBVIOUS
    <3> QED
      BY <3>3, <3>4
  <2> HIDE DEF q
  <2>5. << <<0>> >> \in Seq(Seq(Int)) /\ Len(<< <<0>> >>) = 1 /\ << <<0>> >>[1] = <<0>>
    OBVIOUS
  <2>6. FlattenSeq(<< <<0>> >>) = <<0>>
    BY <2>5, FlattenFew
  <2>7. McuIn(file) = <<0>>
    BY <2>3, <2>4, <2>6
  <2>8. McusIn(file) = Ceiling(width, 8) * Ceiling(height, 8)
    <3>1. 8 * Across(file, 1) = 8 /\ 8 * Down(file, 1) = 8
      BY <2>2
    <3> QED
      BY <1>1, <3>1 DEF McusIn
  <2> QED
    BY <1>3, <1>4, <2>7, <2>8 DEF McuOf
<1>5. CASE comps = 3
  <2>1. file[p + 8 + 3 * 1] = 34 /\ file[p + 8 + 3 * 2] = 17 /\ file[p + 8 + 3 * 3] = 17
    BY <1>1, <1>2, <1>5
  <2>2. /\ Across(file, 1) = 2 /\ Down(file, 1) = 2
        /\ Across(file, 2) = 1 /\ Down(file, 2) = 1
        /\ Across(file, 3) = 1 /\ Down(file, 3) = 1
    BY <2>1 DEF Across, Down
  <2> DEFINE q == [c \in 1..3 |-> [k \in 1..(Across(file, c) * Down(file, c)) |-> c - 1]]
             y == <<0, 0, 0, 0>>
             b == <<1>>
             r == <<2>>
             s == <<y, b, r>>
  <2>3. McuIn(file) = FlattenSeq(q)
    BY <1>3, <1>5 DEF McuIn
  <2>4. q = s
    <3>1. q[1] = [k \in 1..4 |-> 0] /\ q[2] = [k \in 1..1 |-> 1] /\ q[3] = [k \in 1..1 |-> 2]
      BY <2>2
    <3>2. [k \in 1..4 |-> 0] = y /\ [k \in 1..1 |-> 1] = b /\ [k \in 1..1 |-> 2] = r
      OBVIOUS
    <3>3. q = [c \in 1..3 |-> q[c]]
      OBVIOUS
    <3> HIDE DEF q, y, b, r
    <3>4. [c \in 1..3 |-> q[c]] = <<q[1], q[2], q[3]>>
      OBVIOUS
    <3> QED
      BY <3>1, <3>2, <3>3, <3>4
  <2> HIDE DEF q
  <2>5. y \in Seq(Int) /\ b \in Seq(Int) /\ r \in Seq(Int)
    OBVIOUS
  <2> HIDE DEF y, b, r
  <2>6. s \in Seq(Seq(Int)) /\ Len(s) = 3 /\ s[1] = y /\ s[2] = b /\ s[3] = r
    BY <2>5
  <2> HIDE DEF s
  <2>7. FlattenSeq(s) = (y \o b) \o r
    BY <2>6, FlattenFew
  <2>8. (y \o b) \o r = <<0, 0, 0, 0, 1, 2>>
    <3>1. 1 \in Int /\ 2 \in Int /\ Append(y, 1) \in Seq(Int)
      BY <2>5
    <3>2. y \o b = Append(y, 1) /\ Append(y, 1) \o r = Append(Append(y, 1), 2)
      BY <2>5, <3>1, AppendIsConcat DEF b, r
    <3> DEFINE five == Append(y, 1)
               all == Append(five, 2)
    <3>3. Len(y) = 4 /\ y[1] = 0 /\ y[2] = 0 /\ y[3] = 0 /\ y[4] = 0
      BY DEF y
    <3>4. /\ five \in Seq(Int) /\ Len(five) = 5
          /\ five[1] = 0 /\ five[2] = 0 /\ five[3] = 0 /\ five[4] = 0 /\ five[5] = 1
      <4>1. /\ Len(five) = Len(y) + 1 /\ five[Len(y) + 1] = 1
            /\ \A i \in 1..Len(y) : five[i] = y[i]
        BY <2>5, <3>1, AppendProperties
      <4> QED
        BY <3>1, <3>3, <4>1
    <3> HIDE DEF five
    <3>5. /\ all \in Seq(Int) /\ Len(all) = 6 /\ all[1] = 0 /\ all[2] = 0 /\ all[3] = 0
          /\ all[4] = 0 /\ all[5] = 1 /\ all[6] = 2
      <4>1. /\ all \in Seq(Int) /\ Len(all) = Len(five) + 1 /\ all[Len(five) + 1] = 2
            /\ \A i \in 1..Len(five) : all[i] = five[i]
        <5>1. five \in Seq(Int)
          BY <3>4
        <5> QED
          BY <3>1, <5>1, AppendProperties
      <4> QED
        BY <3>4, <4>1
    <3> HIDE DEF all
    <3>6. all = <<0, 0, 0, 0, 1, 2>>
      BY <3>5
    <3> QED
      BY <3>2, <3>6 DEF all, five
  <2>9. McusIn(file) = Ceiling(width, 16) * Ceiling(height, 16)
    <3>1. 8 * Across(file, 1) = 16 /\ 8 * Down(file, 1) = 16
      BY <2>2
    <3> QED
      BY <1>1, <3>1 DEF McusIn
  <2> QED
    BY <1>3, <1>5, <2>3, <2>4, <2>7, <2>8, <2>9 DEF McuOf
<1> QED
  BY <1>4, <1>5

\* The file: the header, the scan and EOI.
IsFile(file, header, scan) ==
  header \in Seq(Byte) /\ scan \in Seq(Byte) /\ file = (header \o scan) \o Marker(217)

LEMMA FileParts ==
  ASSUME NEW file, NEW header, NEW scan, IsFile(file, header, scan),
         NEW n \in Nat, Piece(header, n)
  PROVE  /\ file \in Seq(Byte) /\ Len(file) \in Nat /\ n + 2 <= Len(file)
         /\ Stands(file, 1, header)
         /\ SubSeq(file, n + 1, Len(file) - 2) = scan
         /\ SubSeq(file, Len(file) - 1, Len(file)) = <<255, 217>>
<1> DEFINE front == header \o scan
           end == Marker(217)
<1>1. header \in Seq(Byte) /\ scan \in Seq(Byte) /\ Len(header) = n
  BY DEF IsFile, Piece
<1>2. 217 \in Byte
  BY DEF Byte
<1>3. end \in Seq(Byte) /\ Len(end) = 2
  BY <1>2, MarkerStands DEF Piece
<1>0. end \in Seq(Byte)
  BY <1>3
<1>4. front \in Seq(Byte) /\ Len(front) = n + Len(scan) /\ Len(scan) \in Nat
  BY <1>1, ConcatParts
<1>5. \A i \in 1..n : front[i] = header[i]
  BY <1>1, ConcatParts
<1>6. file = front \o end
  BY DEF IsFile
<1>7. file = header \o scan \o end
  BY DEF IsFile
<1>8. SubSeq(file, n + 1, Len(file) - 2) = scan
  <2>1. SubSeq(file, Len(header) + 1, Len(file) - Len(end)) = scan
    <3> HIDE DEF end
    <3>1. header \in Seq(Byte) /\ scan \in Seq(Byte)
      BY <1>1
    <3> QED
      BY <1>0, <1>7, <3>1, PartBetween
  <2> QED
    BY <1>1, <1>3, <2>1
<1> HIDE DEF front, end
<1>9. /\ front \o end \in Seq(Byte) /\ Len(front \o end) = Len(front) + Len(end)
      /\ \A i \in 1..Len(front) : (front \o end)[i] = front[i]
      /\ \A i \in 1..Len(end) : (front \o end)[Len(front) + i] = end[i]
  <2>1. front \in Seq(Byte)
    BY <1>4
  <2> QED
    BY <1>0, <2>1, ConcatParts
<1>10. file \in Seq(Byte) /\ Len(file) = n + Len(scan) + 2
  BY <1>3, <1>4, <1>6, <1>9
<1>11. Stands(file, 1, header)
  <2>1. ASSUME NEW i \in 1..n
        PROVE  file[1 + i - 1] = header[i]
    <3>1. i \in 1..Len(front) /\ 1 + i - 1 = i
      BY <1>4
    <3>2. file[i] = front[i]
      BY <1>6, <1>9, <3>1
    <3> QED
      BY <1>5, <3>1, <3>2
  <2> QED
    BY <1>1, <2>1 DEF Stands
<1>12. SubSeq(file, Len(file) - 1, Len(file)) = <<255, 217>>
  <2> DEFINE m == n + Len(scan)
             cut == SubSeq(file, m + 1, m + 2)
  <2>1. m \in Nat /\ Len(file) = m + 2 /\ Len(file) - 1 = m + 1
    BY <1>4, <1>10
  <2> HIDE DEF m
  <2>2. end[1] = 255 /\ end[2] = 217
    BY DEF end, Marker
  <2>3. file[m + 1] = 255 /\ file[m + 2] = 217
    <3>1. Len(front) = m /\ 1 \in 1..Len(end) /\ 2 \in 1..Len(end)
      BY <1>3, <1>4 DEF m
    <3>2. file[Len(front) + 1] = end[1] /\ file[Len(front) + 2] = end[2]
      BY <1>6, <1>9, <3>1
    <3> QED
      BY <2>2, <3>1, <3>2
  <2>4. m + 1 \in 1..(Len(file) + 1) /\ m + 2 \in ((m + 1) - 1)..Len(file)
    BY <2>1
  <2>5. cut \in Seq(Byte) /\ Len(cut) = 2 /\ \A i \in 1..2 : cut[i] = file[m + 1 + i - 1]
    BY <1>10, <2>1, <2>4, SubSeqProperties
  <2> HIDE DEF cut
  <2>6. cut[1] = 255 /\ cut[2] = 217
    <3>1. m + 1 + 1 - 1 = m + 1 /\ m + 1 + 2 - 1 = m + 2 /\ 1 \in 1..2 /\ 2 \in 1..2
      BY <2>1
    <3> QED
      BY <2>3, <2>5, <3>1
  <2>7. cut = <<255, 217>>
    BY <2>5, <2>6
  <2> QED
    BY <2>1, <2>7 DEF cut
<1> QED
  BY <1>4, <1>8, <1>10, <1>11, <1>12

LEMMA FrameSize ==
  ASSUME NEW f \in Frames
  PROVE  /\ f.width \in Nat /\ f.width >= 2 /\ f.width < 65536
         /\ f.height \in Nat /\ f.height >= 1 /\ f.height < 65536
         /\ Comps(f) \in {1, 3} /\ McuSize(f) = IF Comps(f) = 1 THEN 8 ELSE 16
<1>1. f.width \in Widths /\ f.height \in Heights
  BY DEF Frames
<1> QED
  BY <1>1, SizeAssumption DEF Comps, McuSize

\* The header of a frame's picture, read back.
LEMMA FrameHeaded ==
  ASSUME NEW f \in Frames, NEW tables \in Tables, NEW scan, NEW file,
         IsFile(file, Header(f, tables), scan)
  PROVE  /\ IsHeaded(file, Comps(f), f.width, f.height, tables, Len(Header(f, tables)))
         /\ file \in Seq(Byte) /\ Len(file) \in Nat
         /\ ScanBytes(file) = scan
         /\ SubSeq(file, 1, 2) = <<255, 216>>
         /\ SubSeq(file, Len(file) - 1, Len(file)) = <<255, 217>>
<1> DEFINE comps == Comps(f)
           header == Header(f, tables)
           n == IF comps = 1 THEN 328 ELSE 623
<1>1. /\ comps \in {1, 3} /\ f.width \in Nat /\ f.width < 65536
      /\ f.height \in Nat /\ f.height < 65536
  BY FrameSize
<1>2. header = HeaderFor(comps, f.width, f.height, tables)
  BY DEF Header, HeaderFor, HeaderOf
<1> HIDE DEF header, comps
<1>3. n \in Nat /\ n >= 328
  BY <1>1
<1>4. n = IF comps = 1 THEN 328 ELSE 623
  OBVIOUS
<1> HIDE DEF n
<1>5. /\ Piece(header, n)
      /\ Stands(file, 1, header) /\ Len(file) \in Nat /\ n <= Len(file)
           => IsHeaded(file, comps, f.width, f.height, tables, n)
  BY <1>1, <1>2, <1>4, HeaderFound
<1>6. IsFile(file, header, scan)
  BY DEF header
<1>7. /\ file \in Seq(Byte) /\ Len(file) \in Nat /\ n + 2 <= Len(file)
      /\ Stands(file, 1, header)
      /\ SubSeq(file, n + 1, Len(file) - 2) = scan
      /\ SubSeq(file, Len(file) - 1, Len(file)) = <<255, 217>>
  BY <1>3, <1>5, <1>6, FileParts
<1>8. IsHeaded(file, comps, f.width, f.height, tables, n)
  BY <1>3, <1>5, <1>7
<1>9. Len(header) = n
  BY <1>5 DEF Piece
<1>10. ScanBytes(file) = scan
  <2>1. Segment(file, 218) + 2 + Number(file, Segment(file, 218) + 2) = n + 1
    BY <1>8 DEF IsHeaded
  <2> QED
    BY <1>7, <2>1 DEF ScanBytes
<1>11. SubSeq(file, 1, 2) = <<255, 216>>
  <2> DEFINE cut == SubSeq(file, 1, 2)
  <2>1. file[1] = 255 /\ file[2] = 216
    BY <1>8 DEF IsHeaded
  <2>2. 1 \in 1..(Len(file) + 1) /\ 2 \in (1 - 1)..Len(file)
    BY <1>3, <1>7
  <2>3. file \in Seq(Byte)
    BY <1>7
  <2>4. cut \in Seq(Byte) /\ Len(cut) = 2 /\ \A i \in 1..2 : cut[i] = file[1 + i - 1]
    BY <2>2, <2>3, SubSeqProperties
  <2> HIDE DEF cut
  <2>5. cut[1] = 255 /\ cut[2] = 216
    BY <2>1, <2>4
  <2>6. cut = <<255, 216>>
    BY <2>4, <2>5
  <2> QED
    BY <2>6 DEF cut
<1> QED
  BY <1>7, <1>8, <1>9, <1>10, <1>11 DEF header, comps

\* Blocks that take the turns of the picture's components are read with its code books.
LEMMA BooksOfBlocks ==
  ASSUME NEW comps \in {1, 3}, NEW coded \in Seq(CodedBlocks), TakesTurns(coded, McuOf(comps)),
         NEW file \in Seq(Byte), NEW tables \in Tables,
         CompsIn(file) = comps, \A t \in 0..(comps \div 2) : HasTables(file, t, tables)
  PROVE  \A n \in 1..Len(coded) :
           AreCodeBooks(FirstBooks(file), BooksIn(file, 16), coded[n].comp)
<1>1. ASSUME NEW t \in 0..(comps \div 2)
      PROVE  /\ IsCodeBook(FirstBooks(file)[t], m_huff_codes["DC"][t + 1])
             /\ IsCodeBook(BooksIn(file, 16)[t], m_huff_codes["AC"][t + 1])
  <2>1. t \in 0..1
    OBVIOUS
  <2>2. /\ IsCodeBook(CodesOf(file, t), m_huff_codes["DC"][t + 1])
        /\ IsCodeBook(CodesOf(file, 16 + t), m_huff_codes["AC"][t + 1])
    BY <2>1, BooksFound
  <2>3. FirstBooks(file)[t] = CodesOf(file, t) /\ BooksIn(file, 16)[t] = CodesOf(file, 16 + t)
    BY DEF FirstBooks, BooksIn
  <2> QED
    BY <2>2, <2>3
<1>2. ASSUME NEW n \in 1..Len(coded)
      PROVE  /\ coded[n].comp \in 0..2 /\ (comps = 1 => coded[n].comp = 0)
  <2>1. coded[n] \in CodedBlocks
    BY ElementOfSeq
  <2>2. coded[n].comp \in 0..2
    BY <2>1 DEF CodedBlocks
  <2>3. ASSUME comps = 1
        PROVE  coded[n].comp = 0
    <3>1. coded[n].comp = <<0>>[((n - 1) % Len(<<0>>)) + 1]
      BY <2>3 DEF TakesTurns, McuOf
    <3>2. Len(<<0>>) = 1 /\ (n - 1) % 1 = 0
      OBVIOUS
    <3> QED
      BY <3>1, <3>2
  <2> QED
    BY <2>2, <2>3
<1>3. ASSUME NEW n \in 1..Len(coded)
      PROVE  AreCodeBooks(FirstBooks(file), BooksIn(file, 16), coded[n].comp)
  <2> DEFINE c == coded[n].comp
             t == Smaller(c, 1)
  <2>1. c \in 0..2 /\ (comps = 1 => c = 0)
    BY <1>2
  <2> HIDE DEF c
  <2>2. t \in 0..(comps \div 2) /\ Table(c) = t + 1
    BY <2>1 DEF Smaller, Table
  <2> HIDE DEF t
  <2>3. /\ IsCodeBook(FirstBooks(file)[t], m_huff_codes["DC"][t + 1])
        /\ IsCodeBook(BooksIn(file, 16)[t], m_huff_codes["AC"][t + 1])
    BY <1>1, <2>2
  <2> QED
    BY <2>2, <2>3 DEF AreCodeBooks, c, t
<1> QED
  BY <1>3

\* All the blocks of a frame's picture.
BlockCount(f) ==
  (McusPerRow(f) * Ceiling(f.height, McuSize(f))) * Len(McuOf(Comps(f)))

\* What a decoder says of a file with these blocks in it.
ReadsAs(read, f, tables, coded) ==
  /\ read.clean /\ read.complete
  /\ read.width = f.width /\ read.height = f.height
  /\ read.blocks = coded
  /\ \A t \in 0..(Comps(f) \div 2) : read.steps[t] = tables[t + 1]

(* A decoder finds in a picture the size of the frame, the quantiser steps and  *)
(* the blocks that have been coded, in their order, and nothing else.           *)
THEOREM FileReadBack ==
  ASSUME NEW f \in Frames, NEW tables \in Tables,
         NEW coded \in Seq(CodedBlocks), TakesTurns(coded, McuOf(Comps(f))),
         Len(coded) = BlockCount(f),
         NEW data, NEW g, IsWholeScan(data, coded, g),
         NEW file, IsFile(file, Header(f, tables), Joined(StuffedByte, data))
  PROVE  ReadsAs(Decoded(file), f, tables, coded)
<1> DEFINE comps == Comps(f)
           scan == Joined(StuffedByte, data)
           mcu == McuOf(comps)
<1>1. /\ IsHeaded(file, comps, f.width, f.height, tables, Len(Header(f, tables)))
      /\ file \in Seq(Byte) /\ Len(file) \in Nat
      /\ ScanBytes(file) = scan
      /\ SubSeq(file, 1, 2) = <<255, 216>>
      /\ SubSeq(file, Len(file) - 1, Len(file)) = <<255, 217>>
  BY FrameHeaded
<1>2. comps \in {1, 3} /\ McuSize(f) = IF comps = 1 THEN 8 ELSE 16
  BY FrameSize
<1>3. data \in Seq(Byte) /\ data \in Data
  BY DEF IsWholeScan, Data
<1> HIDE DEF comps, scan
<1>4. /\ HasSize(file, SofOf(file), comps, f.width, f.height)
      /\ \A t \in 0..(comps \div 2) : HasTables(file, t, tables)
  BY <1>1 DEF IsHeaded, SofOf
<1>5. /\ CompsIn(file) = comps /\ McuIn(file) = mcu
      /\ McusIn(file) = Ceiling(f.width, McuSize(f)) * Ceiling(f.height, McuSize(f))
  <2>1. SofOf(file) \in Nat
    BY <1>1 DEF IsHeaded, SofOf
  <2> QED
    BY <1>2, <1>4, <2>1, TurnsFound
<1>6. McusIn(file) * Len(McuIn(file)) = Len(coded)
  <2>1. McusPerRow(f) = Ceiling(f.width, McuSize(f))
    BY DEF McusPerRow, Ceiling
  <2> QED
    BY <1>5, <2>1 DEF BlockCount, comps
<1>7. DataIn(file) = data
  <2>1. Unstuffed(scan) = data
    BY <1>3, UnstuffedBack DEF scan
  <2> QED
    BY <1>1, <2>1 DEF DataIn
<1>8. WellStuffed(scan)
  <2>1. scan \in Unmarked
    BY <1>3, StuffedUnmarked DEF scan
  <2> QED
    BY <2>1 DEF Unmarked, WellStuffed
<1>9. \A n \in 1..Len(coded) : AreCodeBooks(FirstBooks(file), BooksIn(file, 16), coded[n].comp)
  <2>1. file \in Seq(Byte) /\ TakesTurns(coded, McuOf(comps))
    BY <1>1 DEF comps
  <2> QED
    BY <1>2, <1>4, <1>5, <2>1, BooksOfBlocks
<1>10. IsScan(data, mcu, FirstBooks(file), BooksIn(file, 16), coded, g)
  <2>1. TakesTurns(coded, mcu)
    BY DEF comps
  <2> QED
    BY <1>3, <1>9, <2>1 DEF IsScan, IsWholeScan
<1>11. ReadIn(file) = BlocksRead(data, mcu, FirstBooks(file), BooksIn(file, 16), Len(coded))
  BY <1>5, <1>6, <1>7 DEF ReadIn
<1>12. ReadIn(file).at = Bitcount(g[Len(coded)].words) /\ ReadIn(file).blocks = coded
  BY <1>10, <1>11, BlocksReadBack
<1>13. /\ Bitcount(g[Len(coded)].words) <= 8 * Len(data)
       /\ 8 * Len(data) < Bitcount(g[Len(coded)].words) + 8
  BY DEF IsWholeScan, IsHeld
<1>14. IsClean(file)
  BY <1>1, <1>7, <1>8, <1>12, <1>13 DEF IsClean
<1>15. Decoded(file).clean
  BY <1>14, DecodedParts
<1>16. Decoded(file).complete
  BY <1>6, <1>12, DecodedParts
<1>17. Decoded(file).width = f.width /\ Decoded(file).height = f.height
  BY <1>4, DecodedParts DEF HasSize
<1>18. Decoded(file).blocks = coded
  BY <1>12, DecodedParts
<1>19. ASSUME NEW t \in 0..(comps \div 2)
       PROVE  Decoded(file).steps[t] = tables[t + 1]
  <2>1. Decoded(file).steps[t] = StepsOf(file, t)
    <3>1. Decoded(file).steps = [u \in 0..(CompsIn(file) \div 2) |-> StepsOf(file, u)]
      BY DecodedParts
    <3>2. t \in 0..(CompsIn(file) \div 2)
      BY <1>5
    <3> QED
      BY <3>1, <3>2
  <2>2. t \in 0..1
    BY <1>2
  <2>3. StepsOf(file, t) = tables[t + 1]
    BY <1>1, <1>4, <2>2, BooksFound
  <2> QED
    BY <2>1, <2>3
<1> QED
  BY <1>15, <1>16, <1>17, <1>18, <1>19 DEF ReadsAs, comps

-------------------------------------------------------------------------------
(* The transform.                                                               *)

(* The transform and the cosine transform itself differ by no more than one.    *)
(* One pass multiplies eight numbers by row u of a matrix; the encoder works    *)
(* with 4 times the root of 8 times the results of the first pass, the          *)
(* reference with 256 times them: 181 and 8 are in that proportion but for one  *)
(* part in fifty thousand.                                                      *)
HalfCosines == <<2048, 2009, 1892, 1703, 1448, 1138, 784, 400, 0,
                 -400, -784, -1138, -1448, -1703, -1892, -2009, -2048>>
BasisRows == <<
  <<1448, 1448, 1448, 1448, 1448, 1448, 1448, 1448>>,
  <<2009, 1703, 1138, 400, -400, -1138, -1703, -2009>>,
  <<1892, 784, -784, -1892, -1892, -784, 784, 1892>>,
  <<1703, -400, -2009, -1138, 1138, 2009, 400, -1703>>,
  <<1448, -1448, -1448, 1448, 1448, -1448, -1448, 1448>>,
  <<1138, -2009, 400, 1703, -1703, -400, 2009, -1138>>,
  <<784, -1892, 1892, -784, -784, 1892, -1892, 784>>,
  <<400, -1138, 1703, -2009, 2009, -1703, 1138, -400>>>>

LEMMA CosineValues ==
  ASSUME NEW k \in 0..105
  PROVE  HalfCosine(k) = HalfCosines[(IF k % 32 > 16 THEN 32 - (k % 32) ELSE k % 32) + 1]
<1> DEFINE m == IF k % 32 > 16 THEN 32 - (k % 32) ELSE k % 32
<1>1. m \in 0..16
  OBVIOUS
<1>2. HalfCosine(k) = LET quarter == <<2048, 2009, 1892, 1703, 1448, 1138, 784, 400, 0>>
                      IN  IF m <= 8 THEN quarter[m + 1] ELSE -quarter[17 - m]
  BY DEF HalfCosine
<1> HIDE DEF m
<1>3. HalfCosine(k) = HalfCosines[m + 1]
  BY <1>1, <1>2 DEF HalfCosines
<1> QED
  BY <1>3 DEF m

LEMMA BasisValues ==
  ASSUME NEW u \in 0..7, NEW x \in 0..7
  PROVE  Basis(u, x) = BasisRows[u + 1][x + 1]
<1> DEFINE k == (2 * x + 1) * u
           value == HalfCosines[(IF k % 32 > 16 THEN 32 - (k % 32) ELSE k % 32) + 1]
<1>0. CASE u = 0
  BY <1>0 DEF Basis, BasisRows
<1>1. CASE u = 1
  <2>1. k = (2 * x + 1) * 1 /\ k \in 0..105 /\ u # 0
    BY <1>1
  <2>2. Basis(u, x) = value
    <3> HIDE DEF k
    <3>1. HalfCosine(k) = HalfCosines[(IF k % 32 > 16 THEN 32 - (k % 32) ELSE k % 32) + 1]
      BY <2>1, CosineValues
    <3> QED
      BY <2>1, <3>1 DEF Basis, k
  <2>3. BasisRows[u + 1][x + 1] = value
    BY <1>1, <2>1 DEF BasisRows, HalfCosines
  <2> QED
    BY <2>2, <2>3
<1>2. CASE u = 2
  <2>1. k = (2 * x + 1) * 2 /\ k \in 0..105 /\ u # 0
    BY <1>2
  <2>2. Basis(u, x) = value
    <3> HIDE DEF k
    <3>1. HalfCosine(k) = HalfCosines[(IF k % 32 > 16 THEN 32 - (k % 32) ELSE k % 32) + 1]
      BY <2>1, CosineValues
    <3> QED
      BY <2>1, <3>1 DEF Basis, k
  <2>3. BasisRows[u + 1][x + 1] = value
    BY <1>2, <2>1 DEF BasisRows, HalfCosines
  <2> QED
    BY <2>2, <2>3
<1>3. CASE u = 3
  <2>1. k = (2 * x + 1) * 3 /\ k \in 0..105 /\ u # 0
    BY <1>3
  <2>2. Basis(u, x) = value
    <3> HIDE DEF k
    <3>1. HalfCosine(k) = HalfCosines[(IF k % 32 > 16 THEN 32 - (k % 32) ELSE k % 32) + 1]
      BY <2>1, CosineValues
    <3> QED
      BY <2>1, <3>1 DEF Basis, k
  <2>3. BasisRows[u + 1][x + 1] = value
    BY <1>3, <2>1 DEF BasisRows, HalfCosines
  <2> QED
    BY <2>2, <2>3
<1>4. CASE u = 4
  <2>1. k = (2 * x + 1) * 4 /\ k \in 0..105 /\ u # 0
    BY <1>4
  <2>2. Basis(u, x) = value
    <3> HIDE DEF k
    <3>1. HalfCosine(k) = HalfCosines[(IF k % 32 > 16 THEN 32 - (k % 32) ELSE k % 32) + 1]
      BY <2>1, CosineValues
    <3> QED
      BY <2>1, <3>1 DEF Basis, k
  <2>3. BasisRows[u + 1][x + 1] = value
    BY <1>4, <2>1 DEF BasisRows, HalfCosines
  <2> QED
    BY <2>2, <2>3
<1>5. CASE u = 5
  <2>1. k = (2 * x + 1) * 5 /\ k \in 0..105 /\ u # 0
    BY <1>5
  <2>2. Basis(u, x) = value
    <3> HIDE DEF k
    <3>1. HalfCosine(k) = HalfCosines[(IF k % 32 > 16 THEN 32 - (k % 32) ELSE k % 32) + 1]
      BY <2>1, CosineValues
    <3> QED
      BY <2>1, <3>1 DEF Basis, k
  <2>3. BasisRows[u + 1][x + 1] = value
    BY <1>5, <2>1 DEF BasisRows, HalfCosines
  <2> QED
    BY <2>2, <2>3
<1>6. CASE u = 6
  <2>1. k = (2 * x + 1) * 6 /\ k \in 0..105 /\ u # 0
    BY <1>6
  <2>2. Basis(u, x) = value
    <3> HIDE DEF k
    <3>1. HalfCosine(k) = HalfCosines[(IF k % 32 > 16 THEN 32 - (k % 32) ELSE k % 32) + 1]
      BY <2>1, CosineValues
    <3> QED
      BY <2>1, <3>1 DEF Basis, k
  <2>3. BasisRows[u + 1][x + 1] = value
    BY <1>6, <2>1 DEF BasisRows, HalfCosines
  <2> QED
    BY <2>2, <2>3
<1>7. CASE u = 7
  <2>1. k = (2 * x + 1) * 7 /\ k \in 0..105 /\ u # 0
    BY <1>7
  <2>2. Basis(u, x) = value
    <3> HIDE DEF k
    <3>1. HalfCosine(k) = HalfCosines[(IF k % 32 > 16 THEN 32 - (k % 32) ELSE k % 32) + 1]
      BY <2>1, CosineValues
    <3> QED
      BY <2>1, <3>1 DEF Basis, k
  <2>3. BasisRows[u + 1][x + 1] = value
    BY <1>7, <2>1 DEF BasisRows, HalfCosines
  <2> QED
    BY <2>2, <2>3
<1> QED
  BY <1>0, <1>1, <1>2, <1>3, <1>4, <1>5, <1>6, <1>7

\* Row u of the matrix, and the product of a row with eight numbers.
BasisOf(u) == [x \in 0..7 |-> Basis(u, x)]
ProductOf(b, s0, s1, s2, s3, s4, s5, s6, s7) ==
  s0 * b[1] + s1 * b[2] + s2 * b[3] + s3 * b[4] + s4 * b[5] + s5 * b[6] + s6 * b[7] + s7 * b[8]

LEMMA BasisProduct ==
  ASSUME NEW s, NEW u \in 0..7
  PROVE  Product(s, BasisOf(u))
           = ProductOf(BasisRows[u + 1], s[0], s[1], s[2], s[3], s[4], s[5], s[6], s[7])
<1>1. \A x \in 0..7 : BasisOf(u)[x] = BasisRows[u + 1][x + 1]
  BY BasisValues DEF BasisOf
<1> DEFINE a == BasisOf(u)
           b == BasisRows[u + 1]
<1> HIDE DEF a, b
<1>2. /\ a[0] = b[1] /\ a[1] = b[2] /\ a[2] = b[3] /\ a[3] = b[4]
      /\ a[4] = b[5] /\ a[5] = b[6] /\ a[6] = b[7] /\ a[7] = b[8]
  BY <1>1 DEF a, b
<1>3. Product(s, a) = ProductOf(b, s[0], s[1], s[2], s[3], s[4], s[5], s[6], s[7])
  BY <1>2, Zenon DEF Product, ProductOf
<1> QED
  BY <1>3 DEF a, b

\* What DCT2D makes of output u of DCT1D after the rows and after the columns.
AfterRow(u, v) == IF u % 4 = 0 THEN v * 4 ELSE DCT_DESCALE(v, 11)
AfterColumn(u, v) == IF u % 4 = 0 THEN DCT_DESCALE(v, 5) ELSE DCT_DESCALE(v, 18)

\* Numbers that stand for the same result: r / 256 and q / (4 * root 8).
AreClose(r, q) == r \in Int /\ q \in Int /\ Between(8 * r - 181 * q, -400, 400)

LEMMA RowsAgree ==
  ASSUME NEW s0, NEW s1, NEW s2, NEW s3, NEW s4, NEW s5, NEW s6, NEW s7,
         Between(s0, -128, 127), Between(s1, -128, 127), Between(s2, -128, 127),
         Between(s3, -128, 127), Between(s4, -128, 127), Between(s5, -128, 127),
         Between(s6, -128, 127), Between(s7, -128, 127), NEW u \in 0..7
  PROVE  AreClose(ProductOf(BasisRows[u + 1], s0, s1, s2, s3, s4, s5, s6, s7) \div 16,
                  AfterRow(u, WideDCT1D(s0, s1, s2, s3, s4, s5, s6, s7)[u + 1]))
<1> DEFINE r == ProductOf(BasisRows[u + 1], s0, s1, s2, s3, s4, s5, s6, s7) \div 16
           q == AfterRow(u, WideDCT1D(s0, s1, s2, s3, s4, s5, s6, s7)[u + 1])
<1>0. 2^(11 - 1) = 1024 /\ 2^11 = 2048
  OBVIOUS
<1>1. ASSUME u = 0
      PROVE  AreClose(r, q)
  BY <1>0, <1>1, SMTT(30)
     DEF AreClose, Between, ProductOf, BasisRows, AfterRow, WideDCT1D, DCT_DESCALE
<1>2. ASSUME u = 1
      PROVE  AreClose(r, q)
  BY <1>0, <1>2, SMTT(30)
     DEF AreClose, Between, ProductOf, BasisRows, AfterRow, WideDCT1D, DCT_DESCALE
<1>3. ASSUME u = 2
      PROVE  AreClose(r, q)
  BY <1>0, <1>3, SMTT(30)
     DEF AreClose, Between, ProductOf, BasisRows, AfterRow, WideDCT1D, DCT_DESCALE
<1>4. ASSUME u = 3
      PROVE  AreClose(r, q)
  BY <1>0, <1>4, SMTT(30)
     DEF AreClose, Between, ProductOf, BasisRows, AfterRow, WideDCT1D, DCT_DESCALE
<1>5. ASSUME u = 4
      PROVE  AreClose(r, q)
  BY <1>0, <1>5, SMTT(30)
     DEF AreClose, Between, ProductOf, BasisRows, AfterRow, WideDCT1D, DCT_DESCALE
<1>6. ASSUME u = 5
      PROVE  AreClose(r, q)
  BY <1>0, <1>6, SMTT(30)
     DEF AreClose, Between, ProductOf, BasisRows, AfterRow, WideDCT1D, DCT_DESCALE
<1>7. ASSUME u = 6
      PROVE  AreClose(r, q)
  BY <1>0, <1>7, SMTT(30)
     DEF AreClose, Between, ProductOf, BasisRows, AfterRow, WideDCT1D, DCT_DESCALE
<1>8. ASSUME u = 7
      PROVE  AreClose(r, q)
  BY <1>0, <1>8, SMTT(30)
     DEF AreClose, Between, ProductOf, BasisRows, AfterRow, WideDCT1D, DCT_DESCALE
<1> HIDE DEF r, q
<1>9. AreClose(r, q)
  BY <1>1, <1>2, <1>3, <1>4, <1>5, <1>6, <1>7, <1>8
<1> QED
  BY <1>9 DEF r, q

AreColumns(r0, r1, r2, r3, r4, r5, r6, r7, q0, q1, q2, q3, q4, q5, q6, q7) ==
  /\ AreClose(r0, q0) /\ AreClose(r1, q1) /\ AreClose(r2, q2) /\ AreClose(r3, q3)
  /\ AreClose(r4, q4) /\ AreClose(r5, q5) /\ AreClose(r6, q6) /\ AreClose(r7, q7)
  /\ Between(q0, -4096, 4080) /\ Between(q1, -4096, 4080) /\ Between(q2, -4096, 4080)
  /\ Between(q3, -4096, 4080) /\ Between(q4, -4096, 4080) /\ Between(q5, -4096, 4080)
  /\ Between(q6, -4096, 4080) /\ Between(q7, -4096, 4080)

LEMMA ColumnsAgree ==
  ASSUME NEW r0, NEW r1, NEW r2, NEW r3, NEW r4, NEW r5, NEW r6, NEW r7,
         NEW q0, NEW q1, NEW q2, NEW q3, NEW q4, NEW q5, NEW q6, NEW q7,
         AreColumns(r0, r1, r2, r3, r4, r5, r6, r7, q0, q1, q2, q3, q4, q5, q6, q7),
         NEW u \in 0..7
  PROVE  Between(AfterColumn(u, WideDCT1D(q0, q1, q2, q3, q4, q5, q6, q7)[u + 1])
                 - Descaled(ProductOf(BasisRows[u + 1], r0, r1, r2, r3, r4, r5, r6, r7)), -1, 1)
<1> DEFINE a == AfterColumn(u, WideDCT1D(q0, q1, q2, q3, q4, q5, q6, q7)[u + 1])
           b == Descaled(ProductOf(BasisRows[u + 1], r0, r1, r2, r3, r4, r5, r6, r7))
<1>0. 2^(5 - 1) = 16 /\ 2^5 = 32  /\ 2^(18 - 1) = 131072 /\ 2^18 = 262144
  OBVIOUS
<1>1. ASSUME u = 0
      PROVE  Between(a - b, -1, 1)
  BY <1>0, <1>1, SMT
     DEF AreColumns, AreClose, Between, ProductOf, BasisRows, AfterColumn, WideDCT1D,
         DCT_DESCALE, Descaled
<1>2. ASSUME u = 1
      PROVE  Between(a - b, -1, 1)
  BY <1>0, <1>2, SMT
     DEF AreColumns, AreClose, Between, ProductOf, BasisRows, AfterColumn, WideDCT1D,
         DCT_DESCALE, Descaled
<1>3. ASSUME u = 2
      PROVE  Between(a - b, -1, 1)
  BY <1>0, <1>3, SMT
     DEF AreColumns, AreClose, Between, ProductOf, BasisRows, AfterColumn, WideDCT1D,
         DCT_DESCALE, Descaled
<1>4. ASSUME u = 3
      PROVE  Between(a - b, -1, 1)
  BY <1>0, <1>4, SMT
     DEF AreColumns, AreClose, Between, ProductOf, BasisRows, AfterColumn, WideDCT1D,
         DCT_DESCALE, Descaled
<1>5. ASSUME u = 4
      PROVE  Between(a - b, -1, 1)
  BY <1>0, <1>5, SMT
     DEF AreColumns, AreClose, Between, ProductOf, BasisRows, AfterColumn, WideDCT1D,
         DCT_DESCALE, Descaled
<1>6. ASSUME u = 5
      PROVE  Between(a - b, -1, 1)
  BY <1>0, <1>6, SMT
     DEF AreColumns, AreClose, Between, ProductOf, BasisRows, AfterColumn, WideDCT1D,
         DCT_DESCALE, Descaled
<1>7. ASSUME u = 6
      PROVE  Between(a - b, -1, 1)
  BY <1>0, <1>7, SMT
     DEF AreColumns, AreClose, Between, ProductOf, BasisRows, AfterColumn, WideDCT1D,
         DCT_DESCALE, Descaled
<1>8. ASSUME u = 7
      PROVE  Between(a - b, -1, 1)
  BY <1>0, <1>8, SMT
     DEF AreColumns, AreClose, Between, ProductOf, BasisRows, AfterColumn, WideDCT1D,
         DCT_DESCALE, Descaled
<1> HIDE DEF a, b
<1>9. Between(a - b, -1, 1)
  BY <1>1, <1>2, <1>3, <1>4, <1>5, <1>6, <1>7, <1>8
<1> QED
  BY <1>9 DEF a, b

\* The eight numbers that one pass works on, and what it makes of them.
DctOf(s) == DCT1D(s[0], s[1], s[2], s[3], s[4], s[5], s[6], s[7])
AllBetween(s, lo, hi) == \A i \in 0..7 : Between(s[i], lo, hi)

LEMMA WideOf ==
  ASSUME NEW s, AllBetween(s, -4096, 4080)
  PROVE  DctOf(s) = WideDCT1D(s[0], s[1], s[2], s[3], s[4], s[5], s[6], s[7])
<1>1. /\ Between(s[0], -4096, 4080) /\ Between(s[1], -4096, 4080)
      /\ Between(s[2], -4096, 4080) /\ Between(s[3], -4096, 4080)
      /\ Between(s[4], -4096, 4080) /\ Between(s[5], -4096, 4080)
      /\ Between(s[6], -4096, 4080) /\ Between(s[7], -4096, 4080)
  BY DEF AllBetween
<1> QED
  BY <1>1, NoCastLoses DEF DctOf

LEMMA RowIsClose ==
  ASSUME NEW s, AllBetween(s, -128, 127), NEW u \in 0..7
  PROVE  AreClose(Product(s, BasisOf(u)) \div 16, AfterRow(u, DctOf(s)[u + 1]))
<1>1. /\ Between(s[0], -128, 127) /\ Between(s[1], -128, 127)
      /\ Between(s[2], -128, 127) /\ Between(s[3], -128, 127)
      /\ Between(s[4], -128, 127) /\ Between(s[5], -128, 127)
      /\ Between(s[6], -128, 127) /\ Between(s[7], -128, 127)
  BY DEF AllBetween
<1>2. AllBetween(s, -4096, 4080)
  BY SMT DEF AllBetween, Between
<1>3. DctOf(s) = WideDCT1D(s[0], s[1], s[2], s[3], s[4], s[5], s[6], s[7])
  BY <1>2, WideOf
<1>4. Product(s, BasisOf(u))
        = ProductOf(BasisRows[u + 1], s[0], s[1], s[2], s[3], s[4], s[5], s[6], s[7])
  BY BasisProduct
<1> QED
  BY <1>1, <1>3, <1>4, RowsAgree, Zenon

LEMMA ColumnIsClose ==
  ASSUME NEW r, NEW q, \A y \in 0..7 : AreClose(r[y], q[y]), AllBetween(q, -4096, 4080),
         NEW u \in 0..7
  PROVE  Between(AfterColumn(u, DctOf(q)[u + 1]) - Descaled(Product(r, BasisOf(u))), -1, 1)
<1>1. /\ Between(q[0], -4096, 4080) /\ Between(q[1], -4096, 4080)
      /\ Between(q[2], -4096, 4080) /\ Between(q[3], -4096, 4080)
      /\ Between(q[4], -4096, 4080) /\ Between(q[5], -4096, 4080)
      /\ Between(q[6], -4096, 4080) /\ Between(q[7], -4096, 4080)
  BY DEF AllBetween
<1>2. /\ AreClose(r[0], q[0]) /\ AreClose(r[1], q[1])
      /\ AreClose(r[2], q[2]) /\ AreClose(r[3], q[3])
      /\ AreClose(r[4], q[4]) /\ AreClose(r[5], q[5])
      /\ AreClose(r[6], q[6]) /\ AreClose(r[7], q[7])
  OBVIOUS
<1>3. DctOf(q) = WideDCT1D(q[0], q[1], q[2], q[3], q[4], q[5], q[6], q[7])
  BY WideOf
<1>4. Product(r, BasisOf(u))
        = ProductOf(BasisRows[u + 1], r[0], r[1], r[2], r[3], r[4], r[5], r[6], r[7])
  BY BasisProduct
<1>6. AreColumns(r[0], r[1], r[2], r[3], r[4], r[5], r[6], r[7],
                 q[0], q[1], q[2], q[3], q[4], q[5], q[6], q[7])
  BY <1>1, <1>2 DEF AreColumns
<1>5. Between(AfterColumn(u, WideDCT1D(q[0], q[1], q[2], q[3], q[4], q[5], q[6], q[7])[u + 1])
              - Descaled(ProductOf(BasisRows[u + 1], r[0], r[1], r[2], r[3],
                                   r[4], r[5], r[6], r[7])), -1, 1)
  BY <1>6, ColumnsAgree
<1> QED
  BY <1>3, <1>4, <1>5

\* A row of the samples and a column of what the rows leave.
SampleRow(p, y) == [x \in 0..7 |-> p[8 * y + x]]
Column(q, c) == [y \in 0..7 |-> q[8 * y + c]]

LEMMA PlaceParts ==
  ASSUME NEW y \in 0..7, NEW u \in 0..7
  PROVE  /\ 8 * y + u \in 0..63 /\ (8 * y + u) \div 8 = y /\ (8 * y + u) % 8 = u
         /\ (8 * y + u) % 4 = u % 4
  OBVIOUS

LEMMA RowsOf ==
  ASSUME NEW p, NEW y \in 0..7, NEW u \in 0..7
  PROVE  Rows(p)[8 * y + u] = AfterRow(u, DctOf(SampleRow(p, y))[u + 1])
<1> DEFINE rowOf == [r \in 0..7 |-> DCT1D(p[8*r], p[8*r + 1], p[8*r + 2], p[8*r + 3],
                                          p[8*r + 4], p[8*r + 5], p[8*r + 6], p[8*r + 7])]
           n == 8 * y + u
<1>1. Rows(p) = [m \in 0..63 |-> LET v == rowOf[m \div 8][(m % 8) + 1]
                                 IN  IF m % 4 = 0 THEN v * 4 ELSE DCT_DESCALE(v, 11)]
  BY DEF Rows
<1>2. n \in 0..63 /\ n \div 8 = y /\ n % 8 = u /\ n % 4 = u % 4
  BY PlaceParts
<1>3. rowOf[y] = DctOf(SampleRow(p, y))
  <2> DEFINE s == SampleRow(p, y)
  <2>1. /\ s[0] = p[8*y] /\ s[1] = p[8*y + 1] /\ s[2] = p[8*y + 2] /\ s[3] = p[8*y + 3]
        /\ s[4] = p[8*y + 4] /\ s[5] = p[8*y + 5] /\ s[6] = p[8*y + 6] /\ s[7] = p[8*y + 7]
    BY DEF SampleRow
  <2> HIDE DEF s
  <2>2. DctOf(s) = DCT1D(p[8*y], p[8*y + 1], p[8*y + 2], p[8*y + 3],
                         p[8*y + 4], p[8*y + 5], p[8*y + 6], p[8*y + 7])
    BY <2>1, Zenon DEF DctOf
  <2> QED
    BY <2>2, Zenon DEF s
<1> HIDE DEF rowOf, n
<1>4. Rows(p)[n] = IF n % 4 = 0 THEN rowOf[n \div 8][(n % 8) + 1] * 4
                   ELSE DCT_DESCALE(rowOf[n \div 8][(n % 8) + 1], 11)
  BY <1>1, <1>2, Zenon
<1> QED
  BY <1>2, <1>3, <1>4, Zenon DEF AfterRow, n

LEMMA ColumnsOf ==
  ASSUME NEW p, NEW k \in 0..63
  PROVE  DCT2D(p)[k] = AfterColumn(k \div 8, DctOf(Column(Rows(p), k % 8))[k \div 8 + 1])
<1> DEFINE q == Rows(p)
           c == k % 8
           col == [a \in 0..7 |-> DCT1D(q[a], q[a + 8], q[a + 16], q[a + 24],
                                        q[a + 32], q[a + 40], q[a + 48], q[a + 56])]
<1>1. DCT2D(p) = [n \in 0..63 |-> LET v == col[n % 8][n \div 8 + 1]
                                  IN  IF (n \div 8) % 4 = 0 THEN DCT_DESCALE(v, 5)
                                      ELSE DCT_DESCALE(v, 18)]
  BY DEF DCT2D, Rows
<1>2. c \in 0..7
  OBVIOUS
<1> HIDE DEF c, q
<1>3. col[c] = DctOf(Column(q, c))
  <2> DEFINE s == Column(q, c)
  <2>1. /\ s[0] = q[c] /\ s[1] = q[c + 8] /\ s[2] = q[c + 16] /\ s[3] = q[c + 24]
        /\ s[4] = q[c + 32] /\ s[5] = q[c + 40] /\ s[6] = q[c + 48] /\ s[7] = q[c + 56]
    BY <1>2 DEF Column
  <2> HIDE DEF s
  <2>2. DctOf(s) = DCT1D(q[c], q[c + 8], q[c + 16], q[c + 24],
                         q[c + 32], q[c + 40], q[c + 48], q[c + 56])
    BY <2>1, Zenon DEF DctOf
  <2> QED
    BY <1>2, <2>2, Zenon DEF s
<1> HIDE DEF col
<1> QED
  BY <1>1, <1>3, Zenon DEF AfterColumn, q, c

LEMMA TransformOf ==
  ASSUME NEW p, NEW k \in 0..63
  PROVE  \E r : /\ Transform(p)[k] = Descaled(Product(r, BasisOf(k \div 8)))
               /\ \A y \in 0..7 : r[y] = Product(SampleRow(p, y), BasisOf(k % 8)) \div 16
<1> DEFINE basis == [u \in 0..7 |-> [x \in 0..7 |-> Basis(u, x)]]
           rows == [y \in 0..7 |-> [u \in 0..7 |->
                      Product([x \in 0..7 |-> p[8 * y + x]], basis[u]) \div 16]]
           r == [y \in 0..7 |-> rows[y][k % 8]]
<1>1. Transform(p) = [n \in 0..63 |-> Descaled(Product([y \in 0..7 |-> rows[y][n % 8]],
                                                      basis[n \div 8]))]
  BY Zenon DEF Transform
<1>2. k % 8 \in 0..7 /\ k \div 8 \in 0..7
  OBVIOUS
<1>3. \A u \in 0..7 : basis[u] = BasisOf(u)
  BY DEF BasisOf
<1> HIDE DEF basis
<1>4. \A y \in 0..7 : r[y] = Product(SampleRow(p, y), BasisOf(k % 8)) \div 16
  BY <1>2, <1>3, Zenon DEF SampleRow
<1> HIDE DEF rows
<1>5. Transform(p)[k] = Descaled(Product(r, BasisOf(k \div 8)))
  BY <1>1, <1>2, <1>3, Zenon
<1> QED
  BY <1>4, <1>5

LEMMA DescaledType ==
  ASSUME NEW r, \A y \in 0..7 : r[y] \in Int, NEW u \in 0..7
  PROVE  Descaled(Product(r, BasisOf(u))) \in Int
<1> DEFINE b == BasisOf(u)
           x == Product(r, b)
<1>1. \A y \in 0..7 : b[y] \in Int
  BY BasisValues, SMT DEF BasisOf, BasisRows
<1> HIDE DEF b
<1>2. /\ r[0] * b[0] \in Int /\ r[1] * b[1] \in Int /\ r[2] * b[2] \in Int
      /\ r[3] * b[3] \in Int /\ r[4] * b[4] \in Int /\ r[5] * b[5] \in Int
      /\ r[6] * b[6] \in Int /\ r[7] * b[7] \in Int
  BY <1>1
<1>3. x \in Int
  BY <1>2 DEF Product
<1> HIDE DEF x
<1>4. Descaled(x) \in Int
  BY <1>3, SMT DEF Descaled
<1> QED
  BY <1>4 DEF x, b

(* DCT2D: the transform that the encoder computes with integers is that of the  *)
(* definition, every coefficient of it to within one.                           *)
THEOREM TransformIsClose ==
  ASSUME NEW p, \A k \in 0..63 : Between(p[k], -128, 127), NEW k \in 0..63
  PROVE  Transform(p)[k] \in Int /\ Between(DCT2D(p)[k] - Transform(p)[k], -1, 1)
<1> DEFINE u == k \div 8
           c == k % 8
           q == Column(Rows(p), c)
<1>1. u \in 0..7 /\ c \in 0..7
  OBVIOUS
<1>2. PICK r : /\ Transform(p)[k] = Descaled(Product(r, BasisOf(u)))
               /\ \A y \in 0..7 : r[y] = Product(SampleRow(p, y), BasisOf(c)) \div 16
  BY TransformOf
<1>3. DCT2D(p)[k] = AfterColumn(u, DctOf(q)[u + 1])
  BY ColumnsOf
<1> HIDE DEF u, c
<1>4. ASSUME NEW y \in 0..7
      PROVE  AreClose(r[y], q[y]) /\ Between(q[y], -4096, 4080)
  <2>1. 8 * y + c \in 0..63 /\ (8 * y + c) % 8 = c
    BY <1>1, PlaceParts
  <2>2. q[y] = Rows(p)[8 * y + c]
    BY DEF Column
  <2>3. Rows(p)[8 * y + c] = AfterRow(c, DctOf(SampleRow(p, y))[c + 1])
    BY <1>1, RowsOf
  <2>4. AllBetween(SampleRow(p, y), -128, 127)
    <3>1. \A x \in 0..7 : 8 * y + x \in 0..63
      OBVIOUS
    <3>2. \A x \in 0..7 : Between(p[8 * y + x], -128, 127)
      BY <3>1
    <3> QED
      BY <3>2, Zenon DEF AllBetween, SampleRow
  <2>5. AreClose(Product(SampleRow(p, y), BasisOf(c)) \div 16,
                 AfterRow(c, DctOf(SampleRow(p, y))[c + 1]))
    BY <1>1, <2>4, RowIsClose
  <2>6. AreClose(r[y], q[y])
    BY <1>2, <2>2, <2>3, <2>5, Zenon
  <2> DEFINE n == 8 * y + c
  <2> HIDE DEF n
  <2>7. n \in 0..63
    BY <2>1 DEF n
  <2>8. Between(Rows(p)[n], Low(n % 8), 4080)
    BY <2>7, RowsRange
  <2>9. Between(Rows(p)[n], -4096, 4080)
    <3> DEFINE v == Rows(p)[n]
    <3> HIDE DEF v
    <3>1. Between(v, Low(n % 8), 4080)
      BY <2>8 DEF v
    <3>2. Between(v, -4096, 4080)
      BY <3>1, SMT DEF Between, Low
    <3> QED
      BY <3>2 DEF v
  <2> QED
    BY <2>2, <2>6, <2>9 DEF n
<1> HIDE DEF q
<1>5. AllBetween(q, -4096, 4080)
  BY <1>4 DEF AllBetween
<1>6. \A y \in 0..7 : AreClose(r[y], q[y])
  BY <1>4
<1>7. Between(AfterColumn(u, DctOf(q)[u + 1]) - Descaled(Product(r, BasisOf(u))), -1, 1)
  BY <1>1, <1>5, <1>6, ColumnIsClose
<1>8. Descaled(Product(r, BasisOf(u))) \in Int
  BY <1>1, <1>6, DescaledType DEF AreClose
<1> QED
  BY <1>2, <1>3, <1>7, <1>8, Zenon DEF u

-------------------------------------------------------------------------------
(* The quantiser.                                                               *)

\* The encoder's list of places and the decoder's diagonals are the same.
LEMMA ZigzagPlace ==
  ASSUME NEW u \in 0..7, NEW v \in 0..7
  PROVE  Zigzag(u, v) \in 0..63 /\ s_zag[Zigzag(u, v) + 1] = 8 * u + v
<1>0. CASE u = 0
  BY <1>0, SMT DEF Zigzag, s_zag
<1>1. CASE u = 1
  BY <1>1, SMT DEF Zigzag, s_zag
<1>2. CASE u = 2
  BY <1>2, SMT DEF Zigzag, s_zag
<1>3. CASE u = 3
  BY <1>3, SMT DEF Zigzag, s_zag
<1>4. CASE u = 4
  BY <1>4, SMT DEF Zigzag, s_zag
<1>5. CASE u = 5
  BY <1>5, SMT DEF Zigzag, s_zag
<1>6. CASE u = 6
  BY <1>6, SMT DEF Zigzag, s_zag
<1>7. CASE u = 7
  BY <1>7, SMT DEF Zigzag, s_zag
<1> QED
  BY <1>0, <1>1, <1>2, <1>3, <1>4, <1>5, <1>6, <1>7

\* A coefficient divided by its step, to the nearest.
Quantised(s, q) == LET j == (IF s < 0 THEN -s ELSE s) + q \div 2
                   IN  IF j < q THEN 0 ELSE IF s < 0 THEN -(j \div q) ELSE j \div q

LEMMA DivBounds ==
  ASSUME NEW j \in Nat, NEW q \in Nat, q >= 1
  PROVE  /\ j \div q \in Nat /\ (j \div q) * q \in Int
         /\ (j \div q) * q <= j /\ j < (j \div q) * q + q
<1> DEFINE d == j \div q
<1>1. d \in Nat /\ j = q * d + (j % q) /\ j % q \in Int /\ 0 <= j % q /\ j % q < q
  BY SMT
<1>2. d * q = q * d /\ q * d \in Int
  BY <1>1, SMT
<1> HIDE DEF d
<1>3. d * q \in Int /\ d * q <= j /\ j < d * q + q
  BY <1>1, <1>2, SMT
<1> QED
  BY <1>1, <1>3 DEF d

LEMMA QuantisedClose ==
  ASSUME NEW s \in Int, NEW q \in Nat, q >= 1
  PROVE  /\ Quantised(s, q) * q \in Int
         /\ Between(2 * (Quantised(s, q) * q - s), -q, q)
<1> DEFINE a == IF s < 0 THEN -s ELSE s
           h == q \div 2
           j == a + h
           d == j \div q
<1>1. a \in Nat /\ h \in Nat /\ j \in Nat /\ 2 * h <= q /\ q <= 2 * h + 1 /\ j = a + h
  BY SMT
<1>2. /\ d \in Nat /\ d * q \in Int /\ d * q <= j /\ j < d * q + q
  <2> HIDE DEF j
  <2> QED
    BY <1>1, DivBounds
<1>3. Quantised(s, q) = IF j < q THEN 0 ELSE IF s < 0 THEN -d ELSE d
  BY DEF Quantised
<1>4. a = IF s < 0 THEN -s ELSE s
  OBVIOUS
<1> HIDE DEF a, h, j, d
<1>5. CASE j < q
  <2>1. Quantised(s, q) = 0 /\ 0 * q = 0
    BY <1>3, <1>5
  <2>2. Between(2 * (0 - s), -q, q)
    BY <1>1, <1>4, <1>5, SMT DEF Between
  <2> QED
    BY <2>1, <2>2
<1>6. CASE ~(j < q) /\ s < 0
  <2>1. Quantised(s, q) = -d /\ (-d) * q = -(d * q)
    BY <1>2, <1>3, <1>6, SMT
  <2> DEFINE e == d * q
  <2> HIDE DEF e
  <2>2. e \in Int /\ e <= j /\ j < e + q
    BY <1>2 DEF e
  <2>3. -e \in Int /\ Between(2 * ((-e) - s), -q, q)
    BY <1>1, <1>4, <1>6, <2>2, SMT DEF Between
  <2> QED
    BY <2>1, <2>3 DEF e
<1>7. CASE ~(j < q) /\ ~(s < 0)
  <2>1. Quantised(s, q) = d
    BY <1>3, <1>7, SMT
  <2> DEFINE e == d * q
  <2> HIDE DEF e
  <2>2. e \in Int /\ e <= j /\ j < e + q
    BY <1>2 DEF e
  <2>3. Between(2 * (e - s), -q, q)
    BY <1>1, <1>4, <1>7, <2>2, SMT DEF Between
  <2> QED
    BY <2>1, <2>2, <2>3 DEF e
<1> QED
  BY <1>5, <1>6, <1>7

\* What the decoder makes of a coefficient is no farther from the transform than
\* half a step and the rounding.
LEMMA StillClose ==
  ASSUME NEW q \in Nat, NEW s, NEW x, Between(2 * (x - s), -q, q), x \in Int, s \in Int,
         NEW t, t \in Int, Between(s - t, -1, 1)
  PROVE  2 * Distance(x, t) <= q + 2 * Rounding
  BY SMT DEF Between, Distance, Rounding

(* load_quantized_coefficients: the coefficients of a block, multiplied by      *)
(* their steps, are the cosine transform of the samples.                        *)
THEOREM BlockShowsSamples ==
  ASSUME NEW p, \A k \in 0..63 : Between(p[k], -128, 127),
         NEW q, \A k \in 1..64 : Between(q[k], 1, 255)
  PROVE  BlockIsShown(load_quantized_coefficients(q, DCT2D(p)), q, Transform(p))
<1> DEFINE coef == load_quantized_coefficients(q, DCT2D(p))
<1>1. \A z \in 0..63 : coef[z] = Quantised(DCT2D(p)[s_zag[z + 1]], q[z + 1])
  BY DEF load_quantized_coefficients, Quantised
<1>2. ASSUME NEW i \in 0..63, NEW z, z = Zigzag(i \div 8, i % 8)
      PROVE  2 * Distance(coef[z] * q[z + 1], Transform(p)[i]) <= q[z + 1] + 2 * Rounding
  <2> DEFINE s == DCT2D(p)[i]
             t == Transform(p)[i]
             step == q[z + 1]
  <2>1. i \div 8 \in 0..7 /\ i % 8 \in 0..7 /\ 8 * (i \div 8) + (i % 8) = i
    OBVIOUS
  <2>2. z \in 0..63 /\ s_zag[z + 1] = i
    BY <1>2, <2>1, ZigzagPlace
  <2>3. z + 1 \in 1..64
    BY <2>2
  <2>4. coef[z] = Quantised(s, step)
    BY <1>1, <2>2
  <2>5. Between(step, 1, 255)
    BY <2>3
  <2>6. s \in Int
    BY TransformRange DEF IsCoefficient, Between
  <2>7. t \in Int /\ Between(s - t, -1, 1)
    BY TransformIsClose
  <2> HIDE DEF s, t, step, coef
  <2>9. step \in Nat /\ step >= 1
    BY <2>5 DEF Between
  <2>10. /\ Quantised(s, step) * step \in Int
         /\ Between(2 * (Quantised(s, step) * step - s), -step, step)
    BY <2>6, <2>9, QuantisedClose
  <2>11. 2 * Distance(Quantised(s, step) * step, t) <= step + 2 * Rounding
    BY <2>6, <2>7, <2>9, <2>10, StillClose
  <2> QED
    BY <2>4, <2>11 DEF t, step
<1> QED
  BY <1>2 DEF BlockIsShown

-------------------------------------------------------------------------------
(* Where the blocks lie.                                                        *)

LEMMA PlaceInRow ==
  ASSUME NEW p \in Nat, NEW R \in Nat, NEW x \in Nat, x < p
  PROVE  /\ (R * p + x) \div p = R /\ (R * p + x) % p = x /\ R * p + x \in Nat
<1> DEFINE m == R * p + x
<1>1. p >= 1 /\ m \in Nat /\ m = R * p + x
  BY SMT
<1>2. m \div p = R
  BY <1>1, QuotientIs
<1>3. m = p * (m \div p) + (m % p) /\ p * R = R * p /\ m % p \in Int
  BY <1>1, SMT
<1> HIDE DEF m
<1>4. m % p = x
  <2>1. m = p * R + (m % p)
    BY <1>2, <1>3
  <2>2. p * R \in Int
    OBVIOUS
  <2> QED
    BY <1>1, <1>3, <2>1, <2>2
<1> QED
  BY <1>1, <1>2, <1>4 DEF m

\* A line of the frame as load_mcu leaves it.
FrameLine(f, r) ==
  McuLine(f, convert_line_format(f.format, f.width,
               [k \in 0..(f.width * BytesPerPixel(f) - 1) |->
                  Source(f.pattern, r * (f.width * BytesPerPixel(f)) + k)]))

\* A sample of the frame, its last column and last line continued.
At(f, r, c, comp) == Picture(f)[Smaller(r, f.height - 1)][Smaller(c, f.width - 1)][comp + 1]

\* Component comp of a pixel as the encoder keeps it.
Component(f, pixel, comp) == IF Comps(f) = 1 THEN pixel ELSE pixel[comp + 1]

LEMMA LineShown ==
  ASSUME NEW f \in Frames, NEW r \in Nat, NEW q \in Nat, r = Smaller(q, f.height - 1),
         NEW c \in Nat, c < McusPerRow(f) * McuSize(f), NEW comp \in 0..2,
         Comps(f) = 1 => comp = 0
  PROVE  Component(f, FrameLine(f, r)[c + 1], comp) = At(f, q, c, comp)
<1> DEFINE w == f.width
           n == McusPerRow(f) * McuSize(f)
           src == [k \in 0..(w * BytesPerPixel(f) - 1) |->
                     Source(f.pattern, r * (w * BytesPerPixel(f)) + k)]
           line == convert_line_format(f.format, w, src)
           ycc == [k \in 1..w |-> IF Comps(f) = 1 THEN line[k] ELSE RGB_to_YCC(line[k])]
           x == Smaller(c, w - 1)
<1>1. /\ w \in Nat /\ 2 <= w /\ n \in Nat /\ f.height \in Nat /\ 1 <= f.height
      /\ (Comps(f) = 1 <=> f.format = "GRAYSCALE")
  BY FrameSizes
<1>2. r \in 0..(f.height - 1)
  BY <1>1 DEF Smaller
<1>3. FrameLine(f, r) = [k \in 1..n |-> ycc[IF k > w THEN w ELSE k]]
  BY DEF FrameLine, McuLine
<1>4. Picture(f)[r] = [k \in 0..(w - 1) |->
                         IF f.format = "GRAYSCALE" THEN <<line[k + 1]>>
                         ELSE RGB_to_YCC(line[k + 1])]
  BY <1>2 DEF Picture, BytesPerPixel
<1> HIDE DEF line, n
<1>5. c + 1 \in 1..n
  BY <1>1 DEF n
<1>6. x \in 0..(w - 1) /\ (IF c + 1 > w THEN w ELSE c + 1) = x + 1 /\ x + 1 \in 1..w
  BY <1>1 DEF Smaller
<1> HIDE DEF x
<1>7. FrameLine(f, r)[c + 1] = ycc[x + 1]
  BY <1>3, <1>5, <1>6
<1>8. ycc[x + 1] = IF Comps(f) = 1 THEN line[x + 1] ELSE RGB_to_YCC(line[x + 1])
  BY <1>6
<1>9. Picture(f)[r][x] = IF f.format = "GRAYSCALE" THEN <<line[x + 1]>>
                         ELSE RGB_to_YCC(line[x + 1])
  BY <1>4, <1>6
<1>10. At(f, q, c, comp) = Picture(f)[r][x][comp + 1]
  BY DEF At, x
<1> HIDE DEF ycc
<1>11. CASE Comps(f) = 1
  <2>1. FrameLine(f, r)[c + 1] = line[x + 1]
    BY <1>7, <1>8, <1>11
  <2>2. Picture(f)[r][x] = <<line[x + 1]>> /\ comp + 1 = 1
    BY <1>1, <1>9, <1>11
  <2>3. <<line[x + 1]>>[1] = line[x + 1]
    OBVIOUS
  <2> QED
    BY <1>10, <1>11, <2>1, <2>2, <2>3 DEF Component
<1>12. CASE Comps(f) # 1
  <2>1. FrameLine(f, r)[c + 1] = RGB_to_YCC(line[x + 1])
    BY <1>7, <1>8, <1>12
  <2>2. Picture(f)[r][x] = RGB_to_YCC(line[x + 1])
    BY <1>1, <1>9, <1>12
  <2> QED
    BY <1>10, <1>12, <2>1, <2>2 DEF Component
<1> QED
  BY <1>11, <1>12

\* What a block shows, by its row of MCUs R, its MCU x in it and its place k there.
PerMcu(f) == IF Comps(f) = 1 THEN 1 ELSE 6
Luminance(f, top, left, k, i) ==
  At(f, top + 8 * (k \div 2) + i \div 8, left + 8 * (k % 2) + (i % 8), 0)
Mean(f, r, c, comp) ==
  (At(f, r, c, comp) + At(f, r, c + 1, comp) + At(f, r + 1, c, comp) + At(f, r + 1, c + 1, comp)
   + (IF (r \div 2 + c \div 2) % 2 = 0 THEN 0 ELSE 2)) \div 4
ShownAt(f, top, left, k) ==
  [i \in 0..63 |-> (IF k < 4 THEN Luminance(f, top, left, k, i)
                    ELSE Mean(f, top + 2 * (i \div 8), left + 2 * (i % 8), k - 3)) - 128]

BlockOf(f, q, size, n) ==
  ShownAt(f, size * (((n - 1) \div q) \div Ceiling(f.width, size)),
          size * (((n - 1) \div q) % Ceiling(f.width, size)), (n - 1) % q)

LEMMA BlockShownIs ==
  ASSUME NEW f, NEW n
  PROVE  BlockShown(f, Picture(f), n)
           = BlockOf(f, IF f.format = "GRAYSCALE" THEN 1 ELSE 6,
                     IF f.format = "GRAYSCALE" THEN 8 ELSE 16, n)
BY Zenon DEF BlockShown, BlockOf, ShownAt, Luminance, Mean, At

LEMMA ShownIs ==
  ASSUME NEW f \in Frames, NEW R \in Nat, NEW x \in Nat, x < McusPerRow(f),
         NEW k \in Nat, k < PerMcu(f),
         NEW n, n = (R * McusPerRow(f) + x) * PerMcu(f) + k + 1
  PROVE  /\ BlockShown(f, Picture(f), n) = ShownAt(f, McuSize(f) * R, McuSize(f) * x, k)
         /\ (n - 1) % PerMcu(f) = k /\ n \in Nat
<1> DEFINE p == McusPerRow(f)
           m == R * p + x
           q == PerMcu(f)
           size == McuSize(f)
<1>1. /\ p \in Nat /\ size \in {8, 16}
      /\ (Comps(f) = 1 <=> f.format = "GRAYSCALE") /\ (size = 8 <=> Comps(f) = 1)
  BY FrameSizes
<1>2. p = Ceiling(f.width, size)
  BY DEF McusPerRow, Ceiling
<1>3. q = IF f.format = "GRAYSCALE" THEN 1 ELSE 6
  BY <1>1 DEF PerMcu
<1>4. size = IF f.format = "GRAYSCALE" THEN 8 ELSE 16
  BY <1>1
<1> HIDE DEF p, q, size
<1>5. m \div p = R /\ m % p = x /\ m \in Nat
  <2>1. x < p
    BY DEF p
  <2> QED
    BY <1>1, <2>1, PlaceInRow
<1> HIDE DEF m
<1>6. n = m * q + k + 1
  BY DEF m, p, q
<1>7. (n - 1) \div q = m /\ (n - 1) % q = k /\ n \in Nat
  <2>1. CASE q = 1
    BY <1>5, <1>6, <2>1 DEF q
  <2>2. CASE q = 6
    BY <1>5, <1>6, <2>2 DEF q
  <2> QED
    BY <1>3, <2>1, <2>2
<1> DEFINE top == size * (((n - 1) \div q) \div p)
           left == size * (((n - 1) \div q) % p)
           j == (n - 1) % q
<1>8. BlockShown(f, Picture(f), n) = ShownAt(f, top, left, j)
  <2>1. BlockShown(f, Picture(f), n) = BlockOf(f, q, size, n)
    BY <1>3, <1>4, BlockShownIs
  <2>2. BlockOf(f, q, size, n)
          = ShownAt(f, size * (((n - 1) \div q) \div Ceiling(f.width, size)),
                    size * (((n - 1) \div q) % Ceiling(f.width, size)), (n - 1) % q)
    BY DEF BlockOf
  <2> QED
    BY <1>2, <2>1, <2>2
<1>9. top = size * R /\ left = size * x /\ j = k
  BY <1>5, <1>7
<1> HIDE DEF top, left, j
<1>10. BlockShown(f, Picture(f), n) = ShownAt(f, size * R, size * x, k)
  BY <1>8, <1>9
<1> QED
  BY <1>7, <1>10 DEF q, size

\* The lines of a row of MCUs.
IsRow(f, R, lines) ==
  /\ lines \in Seq(Line(f)) /\ Len(lines) = McuSize(f)
  /\ \A j \in 1..McuSize(f) :
       lines[j] = FrameLine(f, Smaller(McuSize(f) * R + j - 1, f.height - 1))

LEMMA RowPixel ==
  ASSUME NEW f \in Frames, NEW R \in Nat, NEW lines, IsRow(f, R, lines),
         NEW j \in Nat, j < McuSize(f), NEW c \in Nat, c < McusPerRow(f) * McuSize(f),
         NEW comp \in 0..2, Comps(f) = 1 => comp = 0
  PROVE  Component(f, lines[j + 1][c + 1], comp) = At(f, McuSize(f) * R + j, c, comp)
<1> DEFINE S == McuSize(f)
           q == S * R + j
           r == Smaller(q, f.height - 1)
<1>1. S \in {8, 16} /\ f.height \in Nat /\ 1 <= f.height
  BY FrameSizes
<1>2. j + 1 \in 1..S /\ S * R + (j + 1) - 1 = q /\ q \in Nat
  BY <1>1, SMT DEF S
<1>3. lines[j + 1] = FrameLine(f, r)
  <2>1. lines[j + 1] = FrameLine(f, Smaller(S * R + (j + 1) - 1, f.height - 1))
    BY <1>2 DEF IsRow
  <2> QED
    BY <1>2, <2>1
<1> HIDE DEF S, q
<1>4. r \in Nat /\ r = Smaller(q, f.height - 1)
  BY <1>1, <1>2 DEF Smaller
<1> HIDE DEF r
<1>5. Component(f, FrameLine(f, r)[c + 1], comp) = At(f, q, c, comp)
  BY <1>2, <1>4, LineShown
<1> QED
  BY <1>3, <1>5 DEF q, S

\* The place of sample i of a block.
LEMMA SamplePlace ==
  ASSUME NEW i \in 0..63
  PROVE  /\ i \div 8 \in Nat /\ i \div 8 < 8 /\ i % 8 \in Nat /\ i % 8 < 8
         /\ \A a \in Nat : (8 * a + i \div 8 + (8 * a + (i % 8))) % 2 = (i \div 8 + i) % 2
OBVIOUS

LEMMA GreySamples ==
  ASSUME NEW f \in Frames, Comps(f) = 1, NEW R \in Nat, NEW lines, IsRow(f, R, lines),
         NEW x \in Nat, x < McusPerRow(f)
  PROVE  load_block_8_8_grey(lines, x) = ShownAt(f, McuSize(f) * R, McuSize(f) * x, 0)
<1> DEFINE S == McuSize(f)
           p == McusPerRow(f)
<1>1. S = 8 /\ p \in Nat
  BY FrameSizes
<1>2. ASSUME NEW i \in 0..63
      PROVE  lines[i \div 8 + 1][8 * x + (i % 8) + 1] = Luminance(f, S * R, S * x, 0, i)
  <2> DEFINE a == i \div 8
             b == i % 8
             c == 8 * x + b
  <2>1. a \in Nat /\ a < 8 /\ b \in Nat /\ b < 8
    BY SamplePlace
  <2> HIDE DEF a, b
  <2>2. c \in Nat /\ c < p * S
    BY <1>1, <2>1
  <2> HIDE DEF c
  <2>3. Component(f, lines[a + 1][c + 1], 0) = At(f, S * R + a, c, 0)
    <3>1. 0 \in 0..2 /\ a < S
      BY <1>1, <2>1
    <3> QED
      BY <2>1, <2>2, <3>1, RowPixel
  <2>4. S * R + 8 * (0 \div 2) + a = S * R + a /\ S * x + 8 * (0 % 2) + b = c
    BY <1>1, <2>1 DEF c
  <2>5. Luminance(f, S * R, S * x, 0, i) = At(f, S * R + a, c, 0)
    BY <2>4 DEF Luminance, a, b
  <2> QED
    BY <2>3, <2>5 DEF Component, a, b, c
<1>3. ShownAt(f, S * R, S * x, 0) = [i \in 0..63 |-> Luminance(f, S * R, S * x, 0, i) - 128]
  BY DEF ShownAt
<1> QED
  BY <1>2, <1>3 DEF load_block_8_8_grey

LEMMA LuminanceSamples ==
  ASSUME NEW f \in Frames, Comps(f) = 3, NEW R \in Nat, NEW lines, IsRow(f, R, lines),
         NEW x \in Nat, x < McusPerRow(f), NEW k \in 0..3
  PROVE  load_block_8_8(lines, 2 * x + (k % 2), k \div 2, 0)
           = ShownAt(f, McuSize(f) * R, McuSize(f) * x, k)
<1> DEFINE S == McuSize(f)
           p == McusPerRow(f)
           y == k \div 2
           z == k % 2
<1>1. S = 16 /\ p \in Nat
  BY FrameSizes
<1>2. y \in 0..1 /\ z \in 0..1
  OBVIOUS
<1> HIDE DEF y, z
<1>3. ASSUME NEW i \in 0..63
      PROVE  lines[8 * y + i \div 8 + 1][8 * (2 * x + z) + (i % 8) + 1][0 + 1]
               = Luminance(f, S * R, S * x, k, i)
  <2> DEFINE a == i \div 8
             b == i % 8
             r == 8 * y + a
             c == 8 * (2 * x + z) + b
  <2>1. a \in Nat /\ a < 8 /\ b \in Nat /\ b < 8
    BY SamplePlace
  <2> HIDE DEF a, b
  <2>2. r \in Nat /\ r < S /\ c \in Nat /\ c < p * S
    BY <1>1, <1>2, <2>1
  <2>3. S * R + 8 * y + a = S * R + r /\ S * x + 8 * z + b = c
    BY <1>1, <1>2, <2>1
  <2> HIDE DEF r, c
  <2>4. Component(f, lines[r + 1][c + 1], 0) = At(f, S * R + r, c, 0)
    <3>1. 0 \in 0..2 /\ Comps(f) # 1
      OBVIOUS
    <3> QED
      BY <2>2, <3>1, RowPixel
  <2>5. Luminance(f, S * R, S * x, k, i) = At(f, S * R + r, c, 0)
    BY <2>3 DEF Luminance, a, b, y, z
  <2>6. Component(f, lines[r + 1][c + 1], 0) = lines[r + 1][c + 1][0 + 1]
    BY DEF Component
  <2> QED
    BY <2>4, <2>5, <2>6 DEF a, b, c, r
<1>4. ShownAt(f, S * R, S * x, k) = [i \in 0..63 |-> Luminance(f, S * R, S * x, k, i) - 128]
  BY DEF ShownAt
<1>5. load_block_8_8(lines, 2 * x + z, y, 0)
        = [i \in 0..63 |->
             lines[8 * y + i \div 8 + 1][8 * (2 * x + z) + (i % 8) + 1][0 + 1] - 128]
  BY DEF load_block_8_8
<1> QED
  BY <1>3, <1>4, <1>5, ZenonT(40) DEF y, z

LEMMA ChrominanceSamples ==
  ASSUME NEW f \in Frames, Comps(f) = 3, NEW R \in Nat, NEW lines, IsRow(f, R, lines),
         NEW x \in Nat, x < McusPerRow(f), NEW comp \in 1..2
  PROVE  load_block_16_8(lines, x, comp)
           = ShownAt(f, McuSize(f) * R, McuSize(f) * x, comp + 3)
<1> DEFINE S == McuSize(f)
           p == McusPerRow(f)
           round(i) == IF (i \div 8 + i) % 2 = 0 THEN 0 ELSE 2
           mean(i) == (lines[2 * (i \div 8) + 1][16 * x + 2 * (i % 8) + 1][comp + 1]
                       + lines[2 * (i \div 8) + 1][16 * x + 2 * (i % 8) + 1 + 1][comp + 1]
                       + lines[2 * (i \div 8) + 1 + 1][16 * x + 2 * (i % 8) + 1][comp + 1]
                       + lines[2 * (i \div 8) + 1 + 1][16 * x + 2 * (i % 8) + 1 + 1][comp + 1]
                       + round(i)) \div 4
<1>1. S = 16 /\ p \in Nat
  BY FrameSizes
<1>2. ASSUME NEW i \in 0..63
      PROVE  mean(i) = Mean(f, S * R + 2 * (i \div 8), S * x + 2 * (i % 8), comp)
  <2> DEFINE a == i \div 8
             b == i % 8
             r == 2 * a
             c == 16 * x + 2 * b
             top == S * R + r
  <2>1. a \in Nat /\ a < 8 /\ b \in Nat /\ b < 8
    BY SamplePlace
  <2>2. round(i) = IF (top \div 2 + c \div 2) % 2 = 0 THEN 0 ELSE 2
    <3>1. top \div 2 = 8 * R + a /\ c \div 2 = 8 * x + b
      BY <1>1, <2>1
    <3>2. (8 * R + a + (8 * x + b)) % 2 = (i \div 8 + i) % 2
      OBVIOUS
    <3> QED
      BY <3>1, <3>2
  <2> HIDE DEF a, b
  <2>3. /\ r \in Nat /\ r < S /\ r + 1 \in Nat /\ r + 1 < S
        /\ c \in Nat /\ c < p * S /\ c + 1 \in Nat /\ c + 1 < p * S
    BY <1>1, <2>1
  <2>4. S * R + (r + 1) = top + 1 /\ S * x + 2 * b = c
    BY <1>1, <2>1
  <2> HIDE DEF r, c, top, round
  <2>5. comp \in 0..2 /\ Comps(f) # 1
    OBVIOUS
  <2>6. Component(f, lines[r + 1][c + 1], comp) = At(f, S * R + r, c, comp)
    BY <2>3, <2>5, RowPixel
  <2>7. Component(f, lines[r + 1][c + 1 + 1], comp) = At(f, S * R + r, c + 1, comp)
    BY <2>3, <2>5, RowPixel
  <2>8. Component(f, lines[r + 1 + 1][c + 1], comp) = At(f, S * R + (r + 1), c, comp)
    BY <2>3, <2>5, RowPixel
  <2>9. Component(f, lines[r + 1 + 1][c + 1 + 1], comp) = At(f, S * R + (r + 1), c + 1, comp)
    BY <2>3, <2>5, RowPixel
  <2>10. /\ lines[r + 1][c + 1][comp + 1] = At(f, top, c, comp)
         /\ lines[r + 1][c + 1 + 1][comp + 1] = At(f, top, c + 1, comp)
         /\ lines[r + 1 + 1][c + 1][comp + 1] = At(f, top + 1, c, comp)
         /\ lines[r + 1 + 1][c + 1 + 1][comp + 1] = At(f, top + 1, c + 1, comp)
    BY <2>4, <2>5, <2>6, <2>7, <2>8, <2>9 DEF Component, top
  <2>11. mean(i) = (lines[r + 1][c + 1][comp + 1] + lines[r + 1][c + 1 + 1][comp + 1]
                    + lines[r + 1 + 1][c + 1][comp + 1] + lines[r + 1 + 1][c + 1 + 1][comp + 1]
                    + round(i)) \div 4
    BY Zenon DEF r, c, a, b
  <2> HIDE DEF mean
  <2>12. mean(i) = Mean(f, top, c, comp)
    BY <2>2, <2>10, <2>11 DEF Mean
  <2>13. Mean(f, S * R + 2 * (i \div 8), S * x + 2 * (i % 8), comp) = Mean(f, top, c, comp)
    BY <2>4 DEF top, r, a, b
  <2> QED
    BY <2>12, <2>13
<1>3. ShownAt(f, S * R, S * x, comp + 3)
        = [i \in 0..63 |-> Mean(f, S * R + 2 * (i \div 8), S * x + 2 * (i % 8), comp) - 128]
  <2>1. ~(comp + 3 < 4) /\ comp + 3 - 3 = comp
    OBVIOUS
  <2> QED
    BY <2>1 DEF ShownAt
<1>4. load_block_16_8(lines, x, comp) = [i \in 0..63 |-> mean(i) - 128]
  BY Zenon DEF load_block_16_8
<1> HIDE DEF mean
<1> QED
  BY <1>2, <1>3, <1>4

\* Pieces of six, one after the other.
LEMMA FlattenSixes ==
  ASSUME NEW T, NEW seqs \in Seq(Seq(T)), \A i \in 1..Len(seqs) : Len(seqs[i]) = 6
  PROVE  /\ Len(FlattenSeq(seqs)) = 6 * Len(seqs)
         /\ \A i \in 1..Len(seqs) : \A k \in 1..6 :
              FlattenSeq(seqs)[6 * (i - 1) + k] = seqs[i][k]
<1> DEFINE m == Len(seqs)
           upTo(n) == FlattenSeq(SubSeq(seqs, 1, n))
           S == {n \in 0..m : /\ upTo(n) \in Seq(T) /\ Len(upTo(n)) = 6 * n
                              /\ \A i \in 1..n : \A k \in 1..6 :
                                   upTo(n)[6 * (i - 1) + k] = seqs[i][k]}
<1>1. m \in Nat
  BY LenProperties
<1>2. 0 \in S
  <2>1. SubSeq(seqs, 1, 0) = <<>>
    BY SubSeqEmpty
  <2>2. upTo(0) = <<>>
    BY <2>1 DEF FlattenSeq
  <2>3. <<>> \in Seq(T) /\ Len(<<>>) = 6 * 0
    OBVIOUS
  <2>4. 0 \in 0..m /\ \A i : i \notin 1..0
    BY <1>1
  <2> HIDE DEF upTo
  <2> QED
    BY <2>2, <2>3, <2>4
<1>3. ASSUME NEW n \in 1..m, n - 1 \in S
      PROVE  n \in S
  <2> DEFINE a == upTo(n - 1)
             b == seqs[n]
  <2>1. upTo(n) = a \o b
    <3>1. SubSeq(seqs, 1, n) = Append(SubSeq(seqs, 1, n - 1), seqs[n])
      BY <1>1, SubSeqRecursiveSecond
    <3>2. SubSeq(seqs, 1, n - 1) \in Seq(Seq(T))
      BY <1>1, SubSeqProperties
    <3>3. seqs[n] \in Seq(T)
      BY ElementOfSeq
    <3> QED
      BY <3>1, <3>2, <3>3, FlattenAppend
  <2>2. b \in Seq(T) /\ Len(b) = 6
    BY ElementOfSeq
  <2>3. /\ a \in Seq(T) /\ Len(a) = 6 * (n - 1)
        /\ \A i \in 1..(n - 1) : \A k \in 1..6 : a[6 * (i - 1) + k] = seqs[i][k]
    BY <1>3
  <2> HIDE DEF a, upTo
  <2>4. a \in Seq(T) /\ b \in Seq(T)
    BY <2>2, <2>3
  <2>5. /\ a \o b \in Seq(T) /\ Len(a \o b) = Len(a) + Len(b)
        /\ \A i \in 1..Len(a) : (a \o b)[i] = a[i]
        /\ \A i \in 1..Len(b) : (a \o b)[Len(a) + i] = b[i]
    BY <2>4, ConcatParts
  <2> DEFINE c == a \o b
  <2>6. c \in Seq(T) /\ Len(c) = 6 * n
    BY <2>2, <2>3, <2>5
  <2>7. ASSUME NEW i \in 1..n, NEW k \in 1..6
        PROVE  c[6 * (i - 1) + k] = seqs[i][k]
    <3>1. CASE i < n
      <4>1. i \in 1..(n - 1) /\ 6 * (i - 1) + k \in 1..Len(a)
        BY <2>3, <3>1
      <4> QED
        BY <2>3, <2>5, <4>1
    <3>2. CASE i = n
      <4>1. k \in 1..Len(b) /\ 6 * (i - 1) + k = Len(a) + k
        BY <2>2, <2>3, <3>2
      <4> QED
        BY <2>5, <3>2, <4>1
    <3>3. i < n \/ i = n
      OBVIOUS
    <3> QED
      BY <3>1, <3>2, <3>3
  <2>8. n \in 0..m
    OBVIOUS
  <2> HIDE DEF c
  <2>9. upTo(n) = c
    BY <2>1 DEF c
  <2> QED
    BY <2>6, <2>7, <2>8, <2>9
<1> HIDE DEF S
<1>4. \A n \in 0..m : n \in S
  BY <1>1, <1>2, <1>3, InductionUpTo
<1>5. m \in S
  BY <1>1, <1>4
<1>6. upTo(m) = FlattenSeq(seqs)
  BY SubSeqFull
<1> HIDE DEF upTo
<1> QED
  BY <1>5, <1>6 DEF S

\* The block with number n of the frame's picture.
ShownOf(f, n) ==
  [comp |-> McuOf(Comps(f))[((n - 1) % PerMcu(f)) + 1],
   sample |-> BlockShown(f, Picture(f), n)]

LEMMA McuParts ==
  ASSUME NEW f \in Frames
  PROVE  /\ Len(McuOf(Comps(f))) = PerMcu(f) /\ PerMcu(f) \in {1, 6}
         /\ Comps(f) = 1 => PerMcu(f) = 1 /\ McuOf(Comps(f))[1] = 0
         /\ Comps(f) = 3 => /\ PerMcu(f) = 6
                            /\ \A k \in 0..3 : McuOf(Comps(f))[k + 1] = 0
                            /\ \A c \in 1..2 : McuOf(Comps(f))[c + 4] = c
<1>1. Comps(f) \in {1, 3}
  BY FrameSize
<1>2. CASE Comps(f) = 1
  BY <1>2 DEF McuOf, PerMcu
<1>3. CASE Comps(f) = 3
  BY <1>3 DEF McuOf, PerMcu
<1> QED
  BY <1>1, <1>2, <1>3

\* What is to be shown of block k of MCU x of row R.
IsPart(f, R, x, k, b) ==
  b = [comp |-> McuOf(Comps(f))[k + 1],
       sample |-> ShownAt(f, McuSize(f) * R, McuSize(f) * x, k)]

LEMMA PartShown ==
  ASSUME NEW f \in Frames, NEW R \in Nat, NEW x \in Nat, x < McusPerRow(f),
         NEW k \in Nat, k < PerMcu(f), NEW b, IsPart(f, R, x, k, b),
         NEW j, j = x * PerMcu(f) + k + 1
  PROVE  b = ShownOf(f, R * (McusPerRow(f) * PerMcu(f)) + j)
<1> DEFINE p == McusPerRow(f)
           q == PerMcu(f)
           n == (R * p + x) * q + k + 1
<1>1. p \in Nat /\ q \in {1, 6}
  BY FrameSizes, McuParts
<1>2. R * (p * q) + j = n
  <2> DEFINE y == R * p
  <2>1. R * (p * q) = y * q /\ y \in Nat
    BY <1>1, SMT
  <2>2. n = (y + x) * q + k + 1
    OBVIOUS
  <2> HIDE DEF p, q, y, n
  <2>3. j = x * q + k + 1
    BY DEF q
  <2>4. CASE q = 1
    BY <2>1, <2>2, <2>3, <2>4
  <2>5. CASE q = 6
    BY <2>1, <2>2, <2>3, <2>5
  <2> QED
    BY <1>1, <2>4, <2>5
<1> HIDE DEF n
<1>3. n = (R * McusPerRow(f) + x) * PerMcu(f) + k + 1
  BY DEF n
<1>4. /\ BlockShown(f, Picture(f), n) = ShownAt(f, McuSize(f) * R, McuSize(f) * x, k)
      /\ (n - 1) % q = k
  BY <1>3, ShownIs
<1>5. ShownOf(f, n) = [comp |-> McuOf(Comps(f))[k + 1],
                       sample |-> ShownAt(f, McuSize(f) * R, McuSize(f) * x, k)]
  BY <1>4 DEF ShownOf
<1> QED
  BY <1>2, <1>5 DEF IsPart

LEMMA GreyRowShown ==
  ASSUME NEW f \in Frames, Comps(f) = 1, NEW R \in Nat, NEW lines, IsRow(f, R, lines)
  PROVE  /\ Len(Blocks(f, lines)) = McusPerRow(f)
         /\ \A i \in 1..McusPerRow(f) : IsPart(f, R, i - 1, 0, Blocks(f, lines)[i])
<1> DEFINE p == McusPerRow(f)
           blocks == Blocks(f, lines)
<1>1. p \in Nat
  BY FrameSizes
<1>2. blocks = [i \in 1..p |-> [comp |-> 0, sample |-> load_block_8_8_grey(lines, i - 1)]]
  BY DEF Blocks
<1> HIDE DEF blocks, p
<1>3. Len(blocks) = p
  BY <1>1, <1>2
<1>4. ASSUME NEW i \in 1..p
      PROVE  IsPart(f, R, i - 1, 0, blocks[i])
  <2>1. i - 1 \in Nat /\ i - 1 < McusPerRow(f)
    BY <1>1 DEF p
  <2>2. load_block_8_8_grey(lines, i - 1)
          = ShownAt(f, McuSize(f) * R, McuSize(f) * (i - 1), 0)
    BY <2>1, GreySamples
  <2>3. McuOf(Comps(f))[0 + 1] = 0
    BY McuParts
  <2>4. blocks[i] = [comp |-> 0, sample |-> load_block_8_8_grey(lines, i - 1)]
    BY <1>2
  <2> QED
    BY <2>2, <2>3, <2>4 DEF IsPart
<1> QED
  BY <1>3, <1>4 DEF blocks, p

LEMMA FunctionSeq ==
  ASSUME NEW T, NEW n \in Nat, NEW b \in [1..n -> T]
  PROVE  b \in Seq(T) /\ Len(b) = n
OBVIOUS

\* The six blocks of a MCU of a colour picture.
Made(c, sample) == [comp |-> c, sample |-> sample]
Luminances(lines, x) ==
  [k \in 1..4 |-> Made(0, load_block_8_8(lines, 2 * x + ((k - 1) % 2), (k - 1) \div 2, 0))]
Chrominances(lines, x) == [c \in 1..2 |-> Made(c, load_block_16_8(lines, x, c))]

LEMMA ColourBlocks ==
  ASSUME NEW f, Comps(f) # 1, NEW lines
  PROVE  Blocks(f, lines) = FlattenSeq([i \in 1..McusPerRow(f) |->
                              Luminances(lines, i - 1) \o Chrominances(lines, i - 1)])
BY DEF Blocks, Luminances, Chrominances, Made

LEMMA McuShown ==
  ASSUME NEW f \in Frames, Comps(f) = 3, NEW R \in Nat, NEW lines, IsRow(f, R, lines),
         NEW x \in Nat, x < McusPerRow(f)
  PROVE  LET mcu == Luminances(lines, x) \o Chrominances(lines, x)
         IN  /\ mcu \in [1..6 -> {mcu[i] : i \in 1..6}]
             /\ \A k \in 0..5 : IsPart(f, R, x, k, mcu[k + 1])
<1> DEFINE a == Luminances(lines, x)
           b == Chrominances(lines, x)
           mcu == a \o b
           T == {a[k] : k \in 1..4} \cup {b[c] : c \in 1..2}
<1>1. \A k \in 0..3 : IsPart(f, R, x, k, a[k + 1])
  <2>1. ASSUME NEW k \in 0..3
        PROVE  IsPart(f, R, x, k, a[k + 1])
    <3>1. k + 1 \in 1..4 /\ (k + 1) - 1 = k
      OBVIOUS
    <3>2. a[k + 1] = [comp |-> 0, sample |-> load_block_8_8(lines, 2 * x + (k % 2), k \div 2, 0)]
      BY <3>1 DEF Luminances, Made
    <3>3. load_block_8_8(lines, 2 * x + (k % 2), k \div 2, 0)
            = ShownAt(f, McuSize(f) * R, McuSize(f) * x, k)
      BY LuminanceSamples
    <3>4. McuOf(Comps(f))[k + 1] = 0
      BY McuParts
    <3> QED
      BY <3>2, <3>3, <3>4 DEF IsPart
  <2> QED
    BY <2>1
<1>2. \A c \in 1..2 : IsPart(f, R, x, c + 3, b[c])
  <2>1. ASSUME NEW c \in 1..2
        PROVE  IsPart(f, R, x, c + 3, b[c])
    <3>1. b[c] = [comp |-> c, sample |-> load_block_16_8(lines, x, c)]
      BY DEF Chrominances, Made
    <3>2. load_block_16_8(lines, x, c) = ShownAt(f, McuSize(f) * R, McuSize(f) * x, c + 3)
      BY ChrominanceSamples
    <3>3. McuOf(Comps(f))[c + 4] = c /\ c + 3 + 1 = c + 4
      BY McuParts
    <3> QED
      BY <3>1, <3>2, <3>3 DEF IsPart
  <2> QED
    BY <2>1
<1>3. a \in [1..4 -> T] /\ b \in [1..2 -> T]
  BY DEF Luminances, Chrominances
<1> HIDE DEF T, a, b
<1>4. a \in Seq(T) /\ Len(a) = 4 /\ b \in Seq(T) /\ Len(b) = 2
  <2>1. \A n \in Nat : \A s \in [1..n -> T] : s \in Seq(T) /\ Len(s) = n
    BY FunctionSeq
  <2>2. 4 \in Nat /\ 2 \in Nat
    OBVIOUS
  <2>3. a \in Seq(T) /\ Len(a) = 4
    BY <1>3, <2>1, <2>2
  <2>4. b \in Seq(T) /\ Len(b) = 2
    BY <1>3, <2>1, <2>2
  <2> QED
    BY <2>3, <2>4
<1>5. a \in Seq(T) /\ b \in Seq(T)
  BY <1>4
<1>6. /\ mcu \in Seq(T) /\ Len(mcu) = Len(a) + Len(b)
      /\ \A i \in 1..Len(a) : mcu[i] = a[i]
      /\ \A i \in 1..Len(b) : mcu[Len(a) + i] = b[i]
  BY <1>5, ConcatParts
<1> HIDE DEF mcu
<1>7. Len(mcu) = 6
  BY <1>4, <1>6
<1>8. ASSUME NEW k \in 0..5
      PROVE  IsPart(f, R, x, k, mcu[k + 1])
  <2>1. CASE k < 4
    <3>1. k \in 0..3 /\ k + 1 \in 1..Len(a)
      BY <1>4, <2>1
    <3> QED
      BY <1>1, <1>6, <3>1
  <2>2. CASE ~(k < 4)
    <3> DEFINE c == k - 3
    <3>1. c \in 1..2 /\ c \in 1..Len(b) /\ c + 3 = k /\ k + 1 = Len(a) + c
      BY <1>4, <2>2
    <3> HIDE DEF c
    <3> QED
      BY <1>2, <1>6, <3>1
  <2> QED
    BY <2>1, <2>2
<1>9. mcu \in [1..6 -> {mcu[i] : i \in 1..6}]
  <2>1. mcu \in [1..Len(mcu) -> T]
    <3>1. mcu \in Seq(T)
      BY <1>6
    <3> QED
      BY <3>1, LenProperties
  <2>2. mcu = [i \in 1..6 |-> mcu[i]]
    BY <1>7, <2>1
  <2> QED
    BY <2>2
<1> QED
  BY <1>8, <1>9 DEF mcu, a, b

LEMMA ColourRowShown ==
  ASSUME NEW f \in Frames, Comps(f) = 3, NEW R \in Nat, NEW lines, IsRow(f, R, lines)
  PROVE  /\ Len(Blocks(f, lines)) = 6 * McusPerRow(f)
         /\ \A i \in 1..McusPerRow(f) : \A k \in 1..6 :
              IsPart(f, R, i - 1, k - 1, Blocks(f, lines)[6 * (i - 1) + k])
<1> DEFINE p == McusPerRow(f)
           mcu(x) == Luminances(lines, x) \o Chrominances(lines, x)
           seqs == [i \in 1..p |-> mcu(i - 1)]
           T == UNION {{mcu(i - 1)[k] : k \in 1..6} : i \in 1..p}
<1>1. p \in Nat
  BY FrameSizes
<1>2. ASSUME NEW i \in 1..p
      PROVE  /\ mcu(i - 1) \in [1..6 -> T]
             /\ \A k \in 1..6 : IsPart(f, R, i - 1, k - 1, mcu(i - 1)[k])
  <2> DEFINE x == i - 1
  <2>1. x \in Nat /\ x < McusPerRow(f)
    BY <1>1
  <2> HIDE DEF x
  <2>2. /\ mcu(x) \in [1..6 -> {mcu(x)[k] : k \in 1..6}]
        /\ \A k \in 0..5 : IsPart(f, R, x, k, mcu(x)[k + 1])
    BY <2>1, McuShown
  <2>3. {mcu(x)[k] : k \in 1..6} \subseteq T
    BY Zenon DEF x
  <2> HIDE DEF mcu, T
  <2>4. mcu(x) \in [1..6 -> T]
    BY <2>2, <2>3
  <2>5. ASSUME NEW k \in 1..6
        PROVE  IsPart(f, R, x, k - 1, mcu(x)[k])
    <3>1. k - 1 \in 0..5 /\ (k - 1) + 1 = k
      OBVIOUS
    <3> QED
      BY <2>2, <3>1
  <2> QED
    BY <2>4, <2>5 DEF x
<1> HIDE DEF T
<1>3. Blocks(f, lines) = FlattenSeq(seqs)
  <2>1. Comps(f) # 1
    OBVIOUS
  <2> QED
    BY <2>1, ColourBlocks
<1> HIDE DEF mcu
<1>4. ASSUME NEW i \in 1..p
      PROVE  mcu(i - 1) \in Seq(T) /\ Len(mcu(i - 1)) = 6
  <2>1. mcu(i - 1) \in [1..6 -> T] /\ 6 \in Nat
    BY <1>2
  <2> QED
    BY <2>1, FunctionSeq
<1>5. seqs \in [1..p -> Seq(T)]
  BY <1>4
<1>6. \A i \in 1..p : seqs[i] = mcu(i - 1)
  OBVIOUS
<1> HIDE DEF seqs, p
<1>7. seqs \in Seq(Seq(T)) /\ Len(seqs) = p
  BY <1>1, <1>5, FunctionSeq
<1>8. \A i \in 1..Len(seqs) : Len(seqs[i]) = 6
  BY <1>4, <1>6, <1>7
<1>9. /\ Len(FlattenSeq(seqs)) = 6 * Len(seqs)
      /\ \A i \in 1..Len(seqs) : \A k \in 1..6 :
           FlattenSeq(seqs)[6 * (i - 1) + k] = seqs[i][k]
  <2>1. seqs \in Seq(Seq(T))
    BY <1>7
  <2> QED
    BY <1>8, <2>1, FlattenSixes
<1>10. Len(Blocks(f, lines)) = 6 * p
  BY <1>3, <1>7, <1>9
<1>11. ASSUME NEW i \in 1..p, NEW k \in 1..6
       PROVE  IsPart(f, R, i - 1, k - 1, Blocks(f, lines)[6 * (i - 1) + k])
  <2>1. Blocks(f, lines)[6 * (i - 1) + k] = seqs[i][k]
    <3>1. i \in 1..Len(seqs)
      BY <1>7
    <3> QED
      BY <1>3, <1>9, <3>1
  <2>2. seqs[i][k] = mcu(i - 1)[k]
    BY <1>6
  <2>3. IsPart(f, R, i - 1, k - 1, mcu(i - 1)[k])
    BY <1>2
  <2> QED
    BY <2>1, <2>2, <2>3
<1> QED
  BY <1>10, <1>11 DEF p

\* The blocks of a row of MCUs are the next ones of the picture.
LEMMA RowShown ==
  ASSUME NEW f \in Frames, NEW R \in Nat, NEW lines, IsRow(f, R, lines),
         NEW q, q = McusPerRow(f) * PerMcu(f)
  PROVE  /\ q \in Nat /\ Len(Blocks(f, lines)) = q
         /\ \A j \in 1..q : Blocks(f, lines)[j] = ShownOf(f, R * q + j)
<1> DEFINE p == McusPerRow(f)
           blocks == Blocks(f, lines)
<1>1. p \in Nat /\ Comps(f) \in {1, 3}
  BY FrameSizes
<1>2. CASE Comps(f) = 1
  <2>1. PerMcu(f) = 1
    BY <1>2, McuParts
  <2>2. q = p
    BY <1>1, <2>1
  <2>3. /\ Len(blocks) = p
        /\ \A i \in 1..p : IsPart(f, R, i - 1, 0, blocks[i])
    BY <1>2, GreyRowShown
  <2> HIDE DEF blocks
  <2>4. ASSUME NEW j \in 1..p
        PROVE  blocks[j] = ShownOf(f, R * q + j)
    <3> DEFINE x == j - 1
    <3>1. x \in Nat /\ x < McusPerRow(f) /\ 0 < PerMcu(f) /\ j = x * PerMcu(f) + 0 + 1
      BY <1>1, <2>1
    <3>2. IsPart(f, R, x, 0, blocks[j])
      BY <2>3
    <3> HIDE DEF x, p
    <3>3. 0 \in Nat
      OBVIOUS
    <3> QED
      BY <3>1, <3>2, <3>3, PartShown
  <2> QED
    BY <1>1, <2>2, <2>3, <2>4 DEF blocks
<1>3. CASE Comps(f) = 3
  <2>1. PerMcu(f) = 6
    BY <1>3, McuParts
  <2>2. q = 6 * p
    BY <1>1, <2>1
  <2>3. /\ Len(blocks) = 6 * p
        /\ \A i \in 1..p : \A k \in 1..6 :
             IsPart(f, R, i - 1, k - 1, blocks[6 * (i - 1) + k])
    BY <1>3, ColourRowShown
  <2> HIDE DEF blocks
  <2>4. ASSUME NEW j \in 1..(6 * p)
        PROVE  blocks[j] = ShownOf(f, R * q + j)
    <3> DEFINE x == (j - 1) \div 6
               k == (j - 1) % 6
    <3>1. /\ x \in Nat /\ x < McusPerRow(f) /\ k \in Nat /\ k < 6
          /\ j = x * 6 + k + 1
      BY <1>1
    <3> HIDE DEF x, k
    <3>2. /\ x + 1 \in 1..p /\ k + 1 \in 1..6 /\ (x + 1) - 1 = x /\ (k + 1) - 1 = k
          /\ 6 * x + (k + 1) = j
      BY <1>1, <3>1
    <3>3. IsPart(f, R, (x + 1) - 1, (k + 1) - 1, blocks[6 * ((x + 1) - 1) + (k + 1)])
      BY <2>3, <3>2
    <3>4. IsPart(f, R, x, k, blocks[j])
      BY <3>2, <3>3
    <3> HIDE DEF p
    <3>5. k < PerMcu(f) /\ j = x * PerMcu(f) + k + 1
      BY <2>1, <3>1
    <3> QED
      BY <3>1, <3>4, <3>5, PartShown
  <2> QED
    BY <1>1, <2>2, <2>3, <2>4 DEF blocks
<1> QED
  BY <1>1, <1>2, <1>3

-------------------------------------------------------------------------------
(* What the encoder has written of a frame.                                     *)

CodedWith(tables, b) ==
  [comp |-> b.comp,
   coef |-> load_quantized_coefficients(tables[Table(b.comp)], DCT2D(b.sample))]
FrameCoded(f, tables, m) == [n \in 1..m |-> CodedWith(tables, ShownOf(f, n))]
AllShown(f, m) == \A n \in 1..m : ShownOf(f, n) \in SampleBlock
Start(f, tables) == Emit(NewEncoder, Header(f, tables))
PerRow(f) == McusPerRow(f) * PerMcu(f)

\* R rows of MCUs have been coded.
RowsCoded(e, f, tables, R) ==
  /\ R \in Nat /\ AllShown(f, R * PerRow(f))
  /\ HasCoded(e, Start(f, tables), FrameCoded(f, tables, R * PerRow(f)))

LEMMA NextRow ==
  ASSUME NEW f \in Frames, NEW R \in Nat
  PROVE  /\ PerRow(f) \in Nat /\ R * PerRow(f) \in Nat
         /\ (R + 1) * PerRow(f) = R * PerRow(f) + PerRow(f)
<1>1. PerRow(f) \in Nat
  <2>1. McusPerRow(f) \in Nat /\ PerMcu(f) \in {1, 6}
    BY FrameSizes, McuParts
  <2> QED
    BY <2>1 DEF PerRow
<1> QED
  BY <1>1, SMT

LEMMA RowOfMcus ==
  ASSUME QuantReady, NEW f \in Frames, NEW R, NEW e, RowsCoded(e, f, quant, R),
         NEW lines, IsRow(f, R, lines)
  PROVE  RowsCoded(process_mcu_row(e, f, lines), f, quant, R + 1)
<1> DEFINE q == PerRow(f)
           m == R * q
           next == (R + 1) * q
           blocks == Blocks(f, lines)
           coded == FrameCoded(f, quant, m)
           all == FrameCoded(f, quant, next)
           start == Start(f, quant)
<1>1. /\ R \in Nat /\ AllShown(f, m) /\ HasCoded(e, start, coded)
  BY DEF RowsCoded
<1>2. q \in Nat /\ m \in Nat /\ next = m + q
  BY <1>1, NextRow
<1>3. lines \in Seq(Line(f)) /\ Len(lines) = McuSize(f)
  BY DEF IsRow
<1>4. blocks \in Seq(SampleBlock)
  BY <1>3, BlocksType
<1>5. Len(blocks) = q /\ \A j \in 1..q : blocks[j] = ShownOf(f, m + j)
  <2>1. q = McusPerRow(f) * PerMcu(f)
    BY DEF PerRow
  <2> HIDE DEF q
  <2> QED
    BY <1>1, <2>1, RowShown
<1> HIDE DEF q, next, m, blocks
<1>6. AllShown(f, next)
  <2>1. ASSUME NEW n \in 1..next
        PROVE  ShownOf(f, n) \in SampleBlock
    <3>1. CASE n <= m
      <4>1. n \in 1..m
        BY <1>2, <3>1
      <4> QED
        BY <1>1, <4>1 DEF AllShown
    <3>2. CASE ~(n <= m)
      <4> DEFINE j == n - m
      <4>1. j \in 1..q /\ m + j = n
        BY <1>2, <3>2
      <4> HIDE DEF j
      <4>2. blocks[j] \in SampleBlock
        BY <1>4, <1>5, <4>1, ElementOfSeq
      <4> QED
        BY <1>5, <4>1, <4>2
    <3> QED
      BY <3>1, <3>2
  <2> QED
    BY <2>1 DEF AllShown
<1>7. e \in Encoder
  BY <1>1 DEF HasCoded
<1>8. \A b \in SampleBlock : CodedOf(b) = CodedWith(quant, b) /\ CodedOf(b) \in CodedBlocks
  <2>1. \A b : CodedOf(b) = CodedWith(quant, b)
    BY DEF CodedOf, CodedWith, CoefOf
  <2> QED
    BY <1>7, <2>1, CodedOfType
<1>9. IsCodedOn(all, coded, blocks)
  <2>1. \A n \in 1..next : CodedWith(quant, ShownOf(f, n)) \in CodedBlocks
    BY <1>6, <1>8 DEF AllShown
  <2>2. all \in [1..next -> CodedBlocks]
    BY <2>1 DEF FrameCoded
  <2>3. \A n \in 1..m : coded[n] = CodedWith(quant, ShownOf(f, n))
    BY DEF FrameCoded
  <2>4. \A n \in 1..next : all[n] = CodedWith(quant, ShownOf(f, n))
    BY DEF FrameCoded
  <2>5. Len(coded) = m
    BY <1>2 DEF FrameCoded
  <2> HIDE DEF all, coded
  <2>6. all \in Seq(CodedBlocks) /\ Len(all) = next
    BY <1>2, <2>2, FunctionSeq
  <2>7. ASSUME NEW k \in 1..m
        PROVE  all[k] = coded[k]
    <3>1. k \in 1..next
      BY <1>2
    <3> QED
      BY <2>3, <2>4, <3>1
  <2>8. ASSUME NEW k \in 1..q
        PROVE  all[m + k] = CodedOf(blocks[k])
    <3>1. m + k \in 1..next
      BY <1>2
    <3>2. blocks[k] = ShownOf(f, m + k)
      BY <1>5
    <3>3. ShownOf(f, m + k) \in SampleBlock
      BY <1>6, <3>1 DEF AllShown
    <3>4. CodedOf(blocks[k]) = CodedWith(quant, ShownOf(f, m + k))
      BY <1>8, <3>2, <3>3
    <3> QED
      BY <2>4, <3>1, <3>4
  <2> QED
    BY <1>2, <1>5, <2>5, <2>6, <2>7, <2>8 DEF IsCodedOn
<1> HIDE DEF all, coded, start
<1>10. HasCoded(process_mcu_row(e, f, lines), start, all)
  BY <1>1, <1>3, <1>9, RowIsCoded DEF blocks
<1> QED
  BY <1>1, <1>6, <1>10 DEF RowsCoded, all, start, next, q

\* The lines that wait for the rest of row R of MCUs, of the r lines that have come.
LinesOf(f, r, lines, R) ==
  /\ lines \in Seq(Line(f)) /\ Len(lines) < McuSize(f)
  /\ R \in Nat /\ r = McuSize(f) * R + Len(lines)
  /\ \A j \in 1..Len(lines) : lines[j] = FrameLine(f, McuSize(f) * R + j - 1)

LEMMA AppendedParts ==
  ASSUME NEW T, NEW lines \in Seq(T), NEW x, NEW all, all = Append(lines, x), all \in Seq(T)
  PROVE  /\ Len(all) = Len(lines) + 1 /\ all[Len(lines) + 1] = x
         /\ \A j \in 1..Len(lines) : all[j] = lines[j]
OBVIOUS

LEMMA AfterLast ==
  ASSUME NEW S \in {8, 16}, NEW R \in Nat, NEW m \in Nat, S = m + 1, NEW r, r = S * R + m
  PROVE  r + 1 = S * (R + 1) + 0 /\ R + 1 \in Nat /\ 0 < S
<1>1. CASE S = 8
  BY <1>1
<1>2. CASE S = 16
  BY <1>2
<1> QED
  BY <1>1, <1>2

LEMMA LastRow ==
  ASSUME NEW f \in Frames, NEW r \in Nat, NEW R, NEW lines, LinesOf(f, r, lines, R),
         r < f.height,
         NEW all, all = Append(lines, FrameLine(f, r)), all \in Seq(Line(f))
  PROVE  /\ Len(all) = McuSize(f) => IsRow(f, R, all) /\ LinesOf(f, r + 1, <<>>, R + 1)
         /\ Len(all) # McuSize(f) => LinesOf(f, r + 1, all, R)
<1> DEFINE S == McuSize(f)
           m == Len(lines)
<1>1. S \in {8, 16} /\ f.height \in Nat
  BY FrameSizes
<1>2. /\ lines \in Seq(Line(f)) /\ m < S /\ R \in Nat /\ r = S * R + m
      /\ \A j \in 1..m : lines[j] = FrameLine(f, S * R + j - 1)
  BY DEF LinesOf
<1>3. m \in Nat
  BY <1>2, LenProperties
<1>4. Len(all) = m + 1 /\ all[m + 1] = FrameLine(f, r) /\ \A j \in 1..m : all[j] = lines[j]
  BY <1>2, AppendedParts
<1> HIDE DEF S, m
<1>5. ASSUME NEW j \in 1..(m + 1)
      PROVE  all[j] = FrameLine(f, S * R + j - 1) /\ S * R + j - 1 < f.height
  <2>1. CASE j = m + 1
    <3>1. S * R + j - 1 = r
      BY <1>1, <1>2, <1>3, <2>1
    <3> QED
      BY <1>4, <2>1, <3>1
  <2>2. CASE j # m + 1
    <3>1. j \in 1..m /\ S * R + j - 1 < r
      BY <1>1, <1>2, <1>3, <2>2
    <3>2. S * R + j - 1 < f.height
      BY <1>1, <1>2, <3>1
    <3> QED
      BY <1>2, <1>4, <3>1, <3>2
  <2> QED
    BY <2>1, <2>2
<1>6. ASSUME Len(all) = S
      PROVE  IsRow(f, R, all) /\ LinesOf(f, r + 1, <<>>, R + 1)
  <2>1. S = m + 1
    BY <1>4, <1>6
  <2>2. ASSUME NEW j \in 1..S
        PROVE  all[j] = FrameLine(f, Smaller(S * R + j - 1, f.height - 1))
    <3>1. all[j] = FrameLine(f, S * R + j - 1) /\ S * R + j - 1 < f.height
      BY <1>5, <2>1
    <3>2. Smaller(S * R + j - 1, f.height - 1) = S * R + j - 1
      BY <1>1, <1>2, <3>1 DEF Smaller
    <3> QED
      BY <3>1, <3>2
  <2>3. IsRow(f, R, all)
    BY <1>6, <2>2 DEF IsRow, S
  <2>4. r + 1 = S * (R + 1) + 0 /\ R + 1 \in Nat /\ 0 < S
    <3>1. r = S * R + m
      BY <1>2
    <3>2. R \in Nat
      BY <1>2
    <3> QED
      BY <1>1, <1>3, <2>1, <3>1, <3>2, AfterLast
  <2>5. <<>> \in Seq(Line(f)) /\ Len(<<>>) = 0
    BY EmptySeq
  <2>6. LinesOf(f, r + 1, <<>>, R + 1)
    BY <2>4, <2>5 DEF LinesOf, S
  <2> QED
    BY <2>3, <2>6
<1>7. ASSUME Len(all) # S
      PROVE  LinesOf(f, r + 1, all, R)
  <2>1. Len(all) < S /\ r + 1 = S * R + Len(all)
    BY <1>1, <1>2, <1>3, <1>4, <1>7 DEF m
  <2> QED
    BY <1>2, <1>4, <1>5, <2>1 DEF LinesOf, S
<1> QED
  BY <1>6, <1>7 DEF S

\* The encoder after the header.
LEMMA AfterHeader ==
  ASSUME NEW f \in Frames, NEW tables \in Tables
  PROVE  /\ RowsCoded(Start(f, tables), f, tables, 0)
         /\ Start(f, tables) \in Encoder /\ Start(f, tables).emitted = Header(f, tables)
         /\ Waiting(Start(f, tables)) = <<>>
<1> DEFINE start == Start(f, tables)
           header == Header(f, tables)
<1>1. header \in Seq(Byte)
  BY HeaderBytes
<1> HIDE DEF header
<1>2. /\ start \in Encoder /\ start.emitted = NewEncoder.emitted \o header
      /\ start.bitsIn = NewEncoder.bitsIn /\ start.lastDC = NewEncoder.lastDC
  BY <1>1, NewEncoderType, EmitKeeps DEF Start, header
<1> HIDE DEF start
<1>3. /\ NewEncoder.emitted = <<>> /\ NewEncoder.bitsIn = 0 /\ NewEncoder.lastDC = <<0, 0, 0>>
  BY DEF NewEncoder
<1>4. start.emitted = header
  <2>1. <<>> \o header = header
    BY <1>1, ConcatEmptySeq
  <2> QED
    BY <1>2, <1>3, <2>1
<1>5. Waiting(start) = <<>>
  <2>1. start.bitsIn = 0
    BY <1>2, <1>3
  <2>2. Waiting(start) = Bits(start.bitBuffer \div 2^(24 - 0), 0)
    BY <2>1 DEF Waiting
  <2>3. \A v : Bits(v, 0) = <<>>
    BY DEF Bits
  <2> QED
    BY <2>2, <2>3
<1>6. HasCoded(start, start, <<>>)
  <2>1. start.lastDC = <<0, 0, 0>>
    BY <1>2, <1>3
  <2> QED
    BY <1>2, <2>1, NothingCoded
<1>7. 0 * PerRow(f) = 0 /\ 0 \in Nat
  BY NextRow
<1>8. FrameCoded(f, tables, 0) = <<>>
  BY DEF FrameCoded
<1>9. AllShown(f, 0)
  BY DEF AllShown
<1>10. RowsCoded(start, f, tables, 0)
  BY <1>6, <1>7, <1>8, <1>9 DEF RowsCoded, start
<1> QED
  BY <1>2, <1>4, <1>5, <1>10 DEF start, header

\* How many rows of MCUs there are, by the lines that wait after the last one.
LEMMA RowsOfMcus ==
  ASSUME NEW f \in Frames, NEW R \in Nat, NEW m \in Nat, m < McuSize(f),
         f.height = McuSize(f) * R + m, NEW n, n = IF m = 0 THEN R ELSE R + 1
  PROVE  BlockCount(f) = n * PerRow(f)
<1> DEFINE p == McusPerRow(f)
           q == PerMcu(f)
           c == Ceiling(f.height, McuSize(f))
<1>1. p \in Nat /\ q \in {1, 6} /\ Len(McuOf(Comps(f))) = q /\ McuSize(f) \in {8, 16}
  BY FrameSizes, McuParts
<1>2. c = n
  <2>1. CASE McuSize(f) = 8
    BY <2>1 DEF Ceiling
  <2>2. CASE McuSize(f) = 16
    BY <2>2 DEF Ceiling
  <2> QED
    BY <1>1, <2>1, <2>2
<1>3. BlockCount(f) = (p * c) * q /\ PerRow(f) = p * q
  BY <1>1 DEF BlockCount, PerRow
<1>4. n \in Nat
  OBVIOUS
<1> HIDE DEF p, q, c
<1>5. (p * n) * q = n * (p * q)
  BY <1>1, <1>4, SMT
<1> QED
  BY <1>2, <1>3, <1>5

\* process_end_of_image repeats the last line up to the edge of the MCUs.
LEMMA FilledRow ==
  ASSUME NEW f \in Frames, NEW R, NEW lines, LinesOf(f, f.height, lines, R), lines # <<>>
  PROVE  IsRow(f, R, lines \o [i \in 1..(McuSize(f) - Len(lines)) |-> Last(lines)])
<1> DEFINE S == McuSize(f)
           m == Len(lines)
           d == S - m
           more == [i \in 1..d |-> Last(lines)]
           full == lines \o more
<1>1. S \in {8, 16} /\ f.height \in Nat
  BY FrameSizes
<1>2. /\ lines \in Seq(Line(f)) /\ m < S /\ R \in Nat /\ f.height = S * R + m
      /\ \A j \in 1..m : lines[j] = FrameLine(f, S * R + j - 1)
  BY DEF LinesOf
<1>3. m \in Nat /\ m >= 1
  BY <1>2, LenProperties, EmptySeq
<1>4. Last(lines) = lines[m] /\ Last(lines) \in Line(f)
  <2>1. Last(lines) = lines[m] /\ m \in 1..Len(lines)
    BY <1>3 DEF Last
  <2> QED
    BY <1>2, <2>1, ElementOfSeq
<1>5. d \in Nat /\ S = m + d
  BY <1>1, <1>2, <1>3
<1>6. more \in [1..d -> Line(f)] /\ \A i \in 1..d : more[i] = Last(lines)
  BY <1>4
<1> HIDE DEF S, m, d, more
<1>7. more \in Seq(Line(f)) /\ Len(more) = d
  BY <1>5, <1>6, FunctionSeq
<1>8. lines \in Seq(Line(f)) /\ more \in Seq(Line(f))
  BY <1>2, <1>7
<1>9. /\ full \in Seq(Line(f)) /\ Len(full) = Len(lines) + Len(more)
      /\ \A i \in 1..Len(lines) : full[i] = lines[i]
      /\ \A i \in 1..Len(more) : full[Len(lines) + i] = more[i]
  BY <1>8, ConcatParts
<1> HIDE DEF full
<1>10. Len(full) = S
  BY <1>5, <1>7, <1>9 DEF m
<1>11. ASSUME NEW j \in 1..S
       PROVE  full[j] = FrameLine(f, Smaller(S * R + j - 1, f.height - 1))
  <2>1. CASE j <= m
    <3>1. j \in 1..m /\ j \in 1..Len(lines)
      BY <1>3, <2>1 DEF m
    <3>2. Smaller(S * R + j - 1, f.height - 1) = S * R + j - 1
      BY <1>1, <1>2, <1>3, <2>1 DEF Smaller
    <3> QED
      BY <1>2, <1>9, <3>1, <3>2
  <2>2. CASE ~(j <= m)
    <3> DEFINE i == j - m
    <3>1. i \in 1..d /\ m + i = j
      BY <1>1, <1>3, <1>5, <2>2
    <3> HIDE DEF i
    <3>2. full[j] = lines[m]
      <4>1. i \in 1..Len(more) /\ Len(lines) + i = j
        BY <1>7, <3>1 DEF m
      <4> QED
        BY <1>4, <1>6, <1>9, <3>1, <4>1
    <3>3. lines[m] = FrameLine(f, S * R + m - 1)
      <4>1. m \in 1..m
        BY <1>3
      <4> QED
        BY <1>2, <4>1
    <3>4. Smaller(S * R + j - 1, f.height - 1) = S * R + m - 1
      <4>1. CASE S = 8
        BY <1>1, <1>2, <1>3, <2>2, <4>1 DEF Smaller
      <4>2. CASE S = 16
        BY <1>1, <1>2, <1>3, <2>2, <4>2 DEF Smaller
      <4> QED
        BY <1>1, <4>1, <4>2
    <3> QED
      BY <3>2, <3>3, <3>4
  <2> QED
    BY <2>1, <2>2
<1> QED
  BY <1>9, <1>10, <1>11 DEF IsRow, S, full, more, d, m

\* What fmt2jpg hands over: its blocks cover the frame, and their words fill the scan.
IsPicture(e, f, tables) ==
  /\ AllShown(f, BlockCount(f))
  /\ \E data, g : /\ IsWholeScan(data, FrameCoded(f, tables, BlockCount(f)), g)
                  /\ IsFile(e.emitted, Header(f, tables), Joined(StuffedByte, data))

IsEnded(e, start, coded) ==
  \E data, g : /\ IsWholeScan(data, coded, g)
               /\ e.emitted = (start.emitted \o Joined(StuffedByte, data)) \o Marker(217)

LEMMA EndOfRows ==
  ASSUME NEW f \in Frames, NEW tables \in Tables, NEW e, NEW n, RowsCoded(e, f, tables, n),
         BlockCount(f) = n * PerRow(f)
  PROVE  IsPicture(FlushOut(e), f, tables)
<1> DEFINE start == Start(f, tables)
           coded == FrameCoded(f, tables, n * PerRow(f))
<1>1. AllShown(f, BlockCount(f)) /\ HasCoded(e, start, coded)
  BY DEF RowsCoded
<1>2. start.emitted = Header(f, tables) /\ Waiting(start) = <<>>
  BY AfterHeader
<1> HIDE DEF start, coded
<1>7. Waiting(start) = <<>> /\ HasCoded(e, start, coded)
  BY <1>1, <1>2
<1>8. \E data, g : /\ IsWholeScan(data, coded, g)
                   /\ FlushOut(e).emitted
                        = (start.emitted \o Joined(StuffedByte, data)) \o Marker(217)
  <2>1. \A d, s, c : HasCoded(d, s, c) /\ Waiting(s) = <<>>
                      => FlushOut(d) \in Encoder /\ IsEnded(FlushOut(d), s, c)
    BY EndIsWritten DEF IsEnded
  <2>2. IsEnded(FlushOut(e), start, coded)
    BY <1>7, <2>1
  <2> QED
    BY <2>2 DEF IsEnded
<1>3. PICK data, g : /\ IsWholeScan(data, coded, g)
                     /\ FlushOut(e).emitted
                          = (start.emitted \o Joined(StuffedByte, data)) \o Marker(217)
  BY <1>8, Zenon
<1>4. Header(f, tables) \in Seq(Byte)
  BY HeaderBytes
<1>5. Joined(StuffedByte, data) \in Seq(Byte)
  <2>1. data \in Seq(Byte)
    BY <1>3 DEF IsWholeScan, Data
  <2> QED
    BY <2>1, BytesJoined
<1>6. IsFile(FlushOut(e).emitted, Header(f, tables), Joined(StuffedByte, data))
  BY <1>2, <1>3, <1>4, <1>5, Zenon DEF IsFile
<1>9. IsWholeScan(data, FrameCoded(f, tables, BlockCount(f)), g)
  BY <1>3 DEF coded
<1> QED
  BY <1>1, <1>6, <1>9 DEF IsPicture

\* process_end_of_image codes what waits, and ends the file.
LEMMA EndOfFrame ==
  ASSUME QuantReady, quant \in Tables, NEW f \in Frames, NEW e, NEW R, NEW lines,
         RowsCoded(e, f, quant, R), LinesOf(f, f.height, lines, R)
  PROVE  IsPicture(process_end_of_image(e, f, lines), f, quant)
<1> DEFINE m == Len(lines)
           full == lines \o [i \in 1..(McuSize(f) - Len(lines)) |-> Last(lines)]
           coded == IF lines = <<>> THEN e ELSE process_mcu_row(e, f, full)
           n == IF m = 0 THEN R ELSE R + 1
<1>1. process_end_of_image(e, f, lines) = FlushOut(coded)
  BY Zenon DEF process_end_of_image, FlushOut
<1>2. lines \in Seq(Line(f)) /\ m < McuSize(f) /\ R \in Nat /\ f.height = McuSize(f) * R + m
  BY DEF LinesOf
<1>3. m \in Nat /\ (m = 0 <=> lines = <<>>)
  BY <1>2, LenProperties, EmptySeq
<1>4. RowsCoded(coded, f, quant, n)
  <2>1. CASE lines = <<>>
    <3>1. coded = e /\ n = R
      BY <1>3, <2>1
    <3> QED
      BY <3>1
  <2>2. CASE lines # <<>>
    <3>1. coded = process_mcu_row(e, f, full) /\ n = R + 1
      BY <1>3, <2>2
    <3>2. IsRow(f, R, full)
      BY <2>2, FilledRow
    <3> HIDE DEF full, coded, n
    <3>3. RowsCoded(process_mcu_row(e, f, full), f, quant, R + 1)
      BY <3>2, RowOfMcus
    <3> QED
      BY <3>1, <3>3
  <2> QED
    BY <2>1, <2>2
<1> HIDE DEF coded, m
<1>5. BlockCount(f) = n * PerRow(f)
  BY <1>2, <1>3, RowsOfMcus
<1> HIDE DEF n
<1>6. IsPicture(FlushOut(coded), f, quant)
  BY <1>4, <1>5, EndOfRows
<1> QED
  BY <1>1, <1>6

-------------------------------------------------------------------------------
(* The invariant: before a row of MCUs is complete its lines wait, and what is  *)
(* coded are the rows above it.                                                 *)
CodingInv ==
  pc \in {"line", "scan"} =>
    \E R : LinesOf(frame, row, mcuLines, R) /\ RowsCoded(enc, frame, quant, R)
DoneInv == pc = "done" => QuantReady /\ IsPicture(enc, frame, quant)
PictureInv == CodingInv /\ DoneInv

LEMMA PictureStarts == Init => PictureInv
BY DEF Init, PictureInv, CodingInv, DoneInv

LEMMA FirstLines ==
  ASSUME NEW f \in Frames
  PROVE  LinesOf(f, 0, <<>>, 0)
<1>1. McuSize(f) \in Nat /\ 0 < McuSize(f)
  BY FrameSizes
<1>2. <<>> \in Seq(Line(f)) /\ Len(<<>>) = 0
  BY EmptySeq
<1>3. McuSize(f) * 0 + 0 = 0
  BY <1>1
<1> QED
  BY <1>1, <1>2, <1>3 DEF LinesOf

LEMMA OpenPictured ==
  ASSUME StateInv, StateInv', JpgOpen
  PROVE  PictureInv'
<1>1. /\ frame \in Frames /\ pc' = "line" /\ frame' = frame /\ row' = 0 /\ mcuLines' = <<>>
      /\ enc' = Start(frame, quant')
  BY DEF StateInv, FrameInv, JpgOpen, Start
<1>2. quant' \in Tables
  BY DEF StateInv, TablesInv
<1>3. LinesOf(frame', row', mcuLines', 0)
  BY <1>1, FirstLines
<1>4. RowsCoded(enc', frame', quant', 0)
  BY <1>1, <1>2, AfterHeader
<1> QED
  BY <1>1, <1>3, <1>4 DEF PictureInv, CodingInv, DoneInv

LEMMA LinePictured ==
  ASSUME StateInv, PictureInv, ScanLine
  PROVE  PictureInv'
<1> DEFINE n == frame.width * BytesPerPixel(frame)
           src == [k \in 0..(n - 1) |-> Source(frame.pattern, row * n + k)]
           line == McuLine(frame, convert_line_format(frame.format, frame.width, src))
           lines == Append(mcuLines, line)
<1>1. /\ pc = "scan" /\ frame \in Frames /\ row \in Nat /\ row < frame.height
      /\ pc' = pc /\ frame' = frame /\ row' = row + 1 /\ quant' = quant
      /\ IF Len(lines) = McuSize(frame)
         THEN mcuLines' = <<>> /\ enc' = process_mcu_row(enc, frame, lines)
         ELSE mcuLines' = lines /\ enc' = enc
  BY DEF StateInv, FrameInv, ScanLine, BytesPerPixel
<1>2. QuantReady
  BY <1>1 DEF StateInv, TablesInv
<1>3. PICK R : LinesOf(frame, row, mcuLines, R) /\ RowsCoded(enc, frame, quant, R)
  BY <1>1 DEF PictureInv, CodingInv
<1>4. line = FrameLine(frame, row)
  BY Zenon DEF FrameLine
<1>5. \A k \in 0..(n - 1) : src[k] \in Byte
  BY <1>1, SourceType
<1> HIDE DEF src
<1>6. line \in Line(frame)
  BY <1>1, <1>5, McuLineType
<1> HIDE DEF line
<1>7. lines \in Seq(Line(frame)) /\ lines = Append(mcuLines, FrameLine(frame, row))
  <2>1. mcuLines \in Seq(Line(frame))
    BY <1>3 DEF LinesOf
  <2>2. lines \in Seq(Line(frame))
    BY <1>6, <2>1, AppendProperties
  <2> QED
    BY <1>4, <2>2
<1> HIDE DEF lines
<1>8. /\ Len(lines) = McuSize(frame)
           => IsRow(frame, R, lines) /\ LinesOf(frame, row + 1, <<>>, R + 1)
      /\ Len(lines) # McuSize(frame) => LinesOf(frame, row + 1, lines, R)
  BY <1>1, <1>3, <1>7, LastRow
<1>9. \E r : LinesOf(frame', row', mcuLines', r) /\ RowsCoded(enc', frame', quant', r)
  <2>1. CASE Len(lines) = McuSize(frame)
    <3>1. RowsCoded(process_mcu_row(enc, frame, lines), frame, quant, R + 1)
      BY <1>1, <1>2, <1>3, <1>8, <2>1, RowOfMcus
    <3> QED
      BY <1>1, <1>8, <2>1, <3>1
  <2>2. CASE Len(lines) # McuSize(frame)
    BY <1>1, <1>3, <1>8, <2>2
  <2> QED
    BY <2>1, <2>2
<1> QED
  BY <1>1, <1>9 DEF PictureInv, CodingInv, DoneInv

LEMMA FinishPictured ==
  ASSUME StateInv, PictureInv, Finish
  PROVE  PictureInv'
<1>1. /\ pc = "scan" /\ frame \in Frames /\ row = frame.height
      /\ pc' = "done" /\ frame' = frame /\ quant' = quant
      /\ enc' = process_end_of_image(enc, frame, mcuLines)
  BY DEF StateInv, FrameInv, Finish
<1>2. QuantReady /\ quant \in Tables
  BY <1>1 DEF StateInv, TablesInv
<1>3. PICK R : LinesOf(frame, row, mcuLines, R) /\ RowsCoded(enc, frame, quant, R)
  BY <1>1 DEF PictureInv, CodingInv
<1>4. IsPicture(process_end_of_image(enc, frame, mcuLines), frame, quant)
  BY <1>1, <1>2, <1>3, EndOfFrame
<1>5. QuantReady'
  BY <1>1, <1>2 DEF QuantReady
<1> QED
  BY <1>1, <1>4, <1>5 DEF PictureInv, CodingInv, DoneInv

LEMMA PictureKept == StateInv /\ StateInv' /\ PictureInv /\ [Next]_vars => PictureInv'
<1> SUFFICES ASSUME StateInv, StateInv', PictureInv, [Next]_vars
             PROVE  PictureInv'
  OBVIOUS
<1>1. ASSUME pc' \in {"idle", "init"}
      PROVE  PictureInv'
  BY <1>1 DEF PictureInv, CodingInv, DoneInv
<1>2. CASE JpgOpen
  BY <1>2, OpenPictured
<1>3. CASE AllocLine
  <2>1. /\ pc = "line" /\ pc' = "scan" /\ row' = row /\ frame' = frame
        /\ mcuLines' = mcuLines /\ enc' = enc /\ quant' = quant
    BY <1>3 DEF AllocLine, StateInv, FrameInv
  <2> QED
    BY <2>1 DEF PictureInv, CodingInv, DoneInv
<1>4. CASE ScanLine
  BY <1>4, LinePictured
<1>5. CASE Finish
  BY <1>5, FinishPictured
<1>6. CASE UNCHANGED vars
  <2>1. QuantReady => QuantReady'
    BY <1>6 DEF QuantReady, vars
  <2> QED
    BY <1>6, <2>1 DEF vars, PictureInv, CodingInv, DoneInv
<1> QED
  BY <1>1, <1>2, <1>3, <1>4, <1>5, <1>6
     DEF Next, Fmt2jpg, InitFails, LineFails, Release, Idle

-------------------------------------------------------------------------------
(* What a decoder finds.                                                        *)

LEMMA FrameBlocks ==
  ASSUME QuantReady, NEW f \in Frames, NEW m \in Nat, AllShown(f, m), NEW coded,
         coded = FrameCoded(f, quant, m)
  PROVE  /\ coded \in Seq(CodedBlocks) /\ Len(coded) = m
         /\ TakesTurns(coded, McuOf(Comps(f)))
         /\ \A n \in 1..m : coded[n] = CodedWith(quant, ShownOf(f, n))
<1>1. \A n \in 1..m : coded[n] = CodedWith(quant, ShownOf(f, n))
  BY DEF FrameCoded
<1>2. ASSUME NEW b \in SampleBlock
      PROVE  CodedWith(quant, b) \in CodedBlocks
  <2>1. CodedOf(b) = CodedWith(quant, b)
    BY DEF CodedOf, CodedWith, CoefOf
  <2>2. CodedOf(b) \in CodedBlocks
    BY NewEncoderType, CodedOfType
  <2> QED
    BY <2>1, <2>2
<1>3. coded \in [1..m -> CodedBlocks]
  <2>1. \A n \in 1..m : CodedWith(quant, ShownOf(f, n)) \in CodedBlocks
    BY <1>2 DEF AllShown
  <2> QED
    BY <2>1 DEF FrameCoded
<1>4. coded \in Seq(CodedBlocks) /\ Len(coded) = m
  BY <1>3, FunctionSeq
<1>5. \A n \in 1..m : coded[n].comp = McuOf(Comps(f))[((n - 1) % Len(McuOf(Comps(f)))) + 1]
  <2>1. Len(McuOf(Comps(f))) = PerMcu(f)
    BY McuParts
  <2>2. \A n : CodedWith(quant, ShownOf(f, n)).comp = McuOf(Comps(f))[((n - 1) % PerMcu(f)) + 1]
    BY Zenon DEF CodedWith, ShownOf
  <2> QED
    BY <1>1, <2>1, <2>2
<1>6. TakesTurns(coded, McuOf(Comps(f)))
  BY <1>4, <1>5 DEF TakesTurns
<1> QED
  BY <1>1, <1>4, <1>6

LEMMA StepsShown ==
  ASSUME QuantReady, NEW f \in Frames, NEW n \in Nat, ShownOf(f, n) \in SampleBlock, NEW b,
         b = CodedWith(quant, ShownOf(f, n)), NEW steps,
         \A t \in 0..(Comps(f) \div 2) : steps[t] = quant[t + 1]
  PROVE  BlockIsShown(b.coef, steps[Smaller(b.comp, 1)], Transform(BlockShown(f, Picture(f), n)))
<1> DEFINE s == ShownOf(f, n)
           p == BlockShown(f, Picture(f), n)
           q == quant[Table(s.comp)]
<1>1. s.sample = p /\ s.comp = McuOf(Comps(f))[((n - 1) % PerMcu(f)) + 1]
  BY Zenon DEF ShownOf
<1>2. s.comp \in 0..2 /\ p \in [0..63 -> Sample]
  BY <1>1 DEF SampleBlock
<1>3. \A k \in 0..63 : Between(p[k], -128, 127)
  BY <1>2 DEF Sample, Between
<1>4. Table(s.comp) \in 1..2
  BY DEF Table
<1>5. \A i \in 1..64 : Between(q[i], 1, 255)
  BY <1>4 DEF QuantReady
<1>6. b.comp = s.comp /\ b.coef = load_quantized_coefficients(q, DCT2D(p))
  BY <1>1, Zenon DEF CodedWith
<1>7. steps[Smaller(b.comp, 1)] = q
  <2>1. CASE Comps(f) = 1
    <3>1. PerMcu(f) = 1 /\ McuOf(Comps(f)) = <<0>>
      BY <2>1 DEF McuOf, PerMcu
    <3>2. s.comp = 0
      BY <1>1, <3>1
    <3>3. Smaller(b.comp, 1) = 0 /\ Table(s.comp) = 1
      BY <1>6, <3>2 DEF Smaller, Table
    <3>4. steps[0] = quant[1]
      BY <2>1
    <3> QED
      BY <3>3, <3>4
  <2>2. CASE Comps(f) # 1
    <3>1. Comps(f) \div 2 = 1
      BY <2>2, FrameSizes DEF Comps
    <3>2. Smaller(b.comp, 1) \in 0..1 /\ Table(s.comp) = Smaller(b.comp, 1) + 1
      BY <1>2, <1>6 DEF Smaller, Table
    <3> QED
      BY <3>1, <3>2
  <2> QED
    BY <2>1, <2>2
<1> HIDE DEF s, p, q
<1>8. BlockIsShown(load_quantized_coefficients(q, DCT2D(p)), q, Transform(p))
  BY <1>3, <1>5, BlockShowsSamples
<1> QED
  BY <1>6, <1>7, <1>8 DEF p

LEMMA PictureReads ==
  ASSUME QuantReady, quant \in Tables, NEW f \in Frames, NEW e, IsPicture(e, f, quant)
  PROVE  Shows(Decoded(e.emitted), f, Picture(f))
<1> DEFINE m == BlockCount(f)
           coded == FrameCoded(f, quant, m)
           read == Decoded(e.emitted)
<1>1. PICK data, g : /\ IsWholeScan(data, coded, g)
                     /\ IsFile(e.emitted, Header(f, quant), Joined(StuffedByte, data))
  BY DEF IsPicture
<1>2. AllShown(f, m)
  BY DEF IsPicture
<1>3. m \in Nat
  <2>3. Len(McuOf(Comps(f))) \in {1, 6}
    BY McuParts
  <2>1. McusPerRow(f) \in Nat /\ McuSize(f) \in {8, 16} /\ f.height \in Nat
    BY FrameSizes
  <2>2. Ceiling(f.height, McuSize(f)) \in Nat
    <3>1. CASE McuSize(f) = 8
      BY <2>1, <3>1 DEF Ceiling
    <3>2. CASE McuSize(f) = 16
      BY <2>1, <3>2 DEF Ceiling
    <3> QED
      BY <2>1, <3>1, <3>2
  <2> QED
    BY <2>1, <2>2, <2>3 DEF BlockCount
<1> HIDE DEF m, coded
<1>4. /\ coded \in Seq(CodedBlocks) /\ Len(coded) = m
      /\ TakesTurns(coded, McuOf(Comps(f)))
      /\ \A n \in 1..m : coded[n] = CodedWith(quant, ShownOf(f, n))
  BY <1>2, <1>3, FrameBlocks DEF coded
<1>5. ReadsAs(read, f, quant, coded)
  BY <1>1, <1>4, FileReadBack DEF m
<1> HIDE DEF read
<1>6. ASSUME NEW n \in 1..Len(read.blocks)
      PROVE  BlockIsShown(read.blocks[n].coef, read.steps[Smaller(read.blocks[n].comp, 1)],
                          Transform(BlockShown(f, Picture(f), n)))
  <2>1. n \in 1..m /\ n \in Nat /\ read.blocks[n] = coded[n]
    BY <1>3, <1>4, <1>5 DEF ReadsAs
  <2>2. read.blocks[n] = CodedWith(quant, ShownOf(f, n))
    BY <1>4, <2>1
  <2>3. ShownOf(f, n) \in SampleBlock
    BY <1>2, <2>1 DEF AllShown
  <2>4. \A t \in 0..(Comps(f) \div 2) : read.steps[t] = quant[t + 1]
    BY <1>5 DEF ReadsAs
  <2> QED
    BY <2>1, <2>2, <2>3, <2>4, StepsShown
<1> QED
  BY <1>5, <1>6 DEF Shows, ReadsAs, read

LEMMA PictureFollows == StateInv /\ PictureInv => PictureShowsFrame
<1> SUFFICES ASSUME StateInv, PictureInv, pc = "done", enc.stream = enc.emitted
             PROVE  Shows(Decoded(enc.stream), frame, Picture(frame))
  BY DEF PictureShowsFrame
<1>1. frame \in Frames /\ quant \in Tables
  BY DEF StateInv, FrameInv, TablesInv
<1>2. QuantReady /\ IsPicture(enc, frame, quant)
  BY DEF PictureInv, DoneInv
<1> QED
  BY <1>1, <1>2, PictureReads

(* The picture fmt2jpg hands over is the frame: unless jpg_buf was too small, a *)
(* decoder finds in it the frame's size and, block by block, the transform of   *)
(* its pixels to within half a quantiser step.  (to_jpg.cpp, jpge.cpp.)         *)
THEOREM PictureIsFrame == Spec => []PictureShowsFrame
<1>1. Init => StateInv /\ PictureInv
  BY StateStarts, PictureStarts
<1>2. StateInv /\ PictureInv /\ [Next]_vars => (StateInv /\ PictureInv)'
  BY StateKept, PictureKept
<1> QED
  BY <1>1, <1>2, PictureFollows, PTL DEF Spec

================================================================================
