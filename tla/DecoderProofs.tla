----------------------------- MODULE DecoderProofs -----------------------------
(* What a decoder reads is what the encoder has coded: the bits of a code word, *)
(* the symbol it stands for, a signed value, a whole block of coefficients, and *)
(* the bytes of the scan without those that were stuffed.                       *)
EXTENDS JpegProofs

LEMMA ConcatParts ==
  ASSUME NEW T, NEW a \in Seq(T), NEW b \in Seq(T)
  PROVE  /\ Len(a) \in Nat /\ Len(b) \in Nat
         /\ a \o b \in Seq(T) /\ Len(a \o b) = Len(a) + Len(b)
         /\ \A i \in 1..Len(a) : (a \o b)[i] = a[i]
         /\ \A i \in 1..Len(b) : (a \o b)[Len(a) + i] = b[i]
<1> DEFINE c == a \o b
           m == Len(a)
           n == Len(b)
<1>1. m \in Nat /\ n \in Nat
  BY LenProperties
<1>2. /\ c \in Seq(T) /\ Len(c) = m + n
      /\ \A i \in 1..(m + n) : c[i] = IF i <= m THEN a[i] ELSE b[i - m]
  BY ConcatProperties
<1> HIDE DEF c, m, n
<1>3. \A i \in 1..m : i \in 1..(m + n) /\ i <= m
  BY <1>1
<1>4. \A i \in 1..n : m + i \in 1..(m + n) /\ ~(m + i <= m) /\ (m + i) - m = i
  BY <1>1
<1>5. \A i \in 1..m : c[i] = a[i]
  BY <1>2, <1>3
<1>6. \A i \in 1..n : c[m + i] = b[i]
  BY <1>2, <1>4
<1> QED
  BY <1>1, <1>2, <1>5, <1>6 DEF c, m, n

-------------------------------------------------------------------------------
(* Bits. *)

\* The bits of some bytes, as the decoder counts them.
AreBitsOf(bits, data) ==
  /\ Len(bits) = 8 * Len(data)
  /\ \A k \in Nat : k < 8 * Len(data) => Bit(data, k) = bits[k + 1]

LEMMA BitsOfByte ==
  ASSUME NEW b \in Byte
  PROVE  /\ ByteBits[b] \in Seq(Binary) /\ Len(ByteBits[b]) = 8
         /\ \A j \in 1..8 : ByteBits[b][j] = (b \div 2^(8 - j)) % 2
<1>1. ByteBits[b] = Bits(b, 8)
  BY DEF ByteBits
<1>2. b \in Nat /\ 8 \in 0..24
  BY DEF Byte
<1>3. Bits(b, 8) \in Seq(Binary) /\ Len(Bits(b, 8)) = 8
  BY <1>2, BitsType
<1>4. \A j \in 1..8 : Bits(b, 8)[j] = (b \div 2^(8 - j)) % 2
  BY DEF Bits
<1> QED
  BY <1>1, <1>3, <1>4

LEMMA BitsOfNone == AreBitsOf(Joined(ByteBits, <<>>), <<>>)
<1>1. 0 \in Byte
  BY DEF Byte
<1>2. Joined(ByteBits, <<>>) = <<>>
  BY <1>1, BitFunctions, JoinedShort
<1> QED
  BY <1>2 DEF AreBitsOf

LEMMA BitsOfMore ==
  ASSUME NEW data \in Seq(Byte), NEW b \in Byte, AreBitsOf(Joined(ByteBits, data), data)
  PROVE  AreBitsOf(Joined(ByteBits, data \o <<b>>), data \o <<b>>)
<1> DEFINE more == data \o <<b>>
           bits == Joined(ByteBits, data)
           n == Len(data)
<1>1. Joined(ByteBits, more) = bits \o ByteBits[b] /\ bits \in Seq(Binary)
  <2>1. <<b>> \in Seq(Byte)
    OBVIOUS
  <2>2. Joined(ByteBits, <<b>>) = ByteBits[b]
    BY BitFunctions, JoinedShort
  <2> QED
    BY <2>1, <2>2, BytesJoined, ZenonT(40)
<1>2. n \in Nat /\ Len(more) = n + 1 /\ Len(bits) = 8 * n
  BY DEF AreBitsOf
<1>3. more[n + 1] = b /\ \A i \in 1..n : more[i] = data[i]
  BY <1>2
<1>4. ByteBits[b] \in Seq(Binary) /\ Len(ByteBits[b]) = 8
  BY BitsOfByte
<1> DEFINE all == bits \o ByteBits[b]
<1>5. /\ Len(all) = 8 * n + 8
      /\ \A i \in 1..(8 * n) : all[i] = bits[i]
      /\ \A j \in 1..8 : all[8 * n + j] = ByteBits[b][j]
  <2>1. Len(bits) = 8 * n
    BY <1>2
  <2> DEFINE c == ByteBits[b]
  <2>2. /\ Len(bits \o c) = Len(bits) + Len(c)
        /\ \A i \in 1..Len(bits) : (bits \o c)[i] = bits[i]
        /\ \A i \in 1..Len(c) : (bits \o c)[Len(bits) + i] = c[i]
    <3>1. bits \in Seq(Binary) /\ c \in Seq(Binary)
      BY <1>1, <1>4
    <3> HIDE DEF bits, c
    <3> QED
      BY <3>1, ConcatParts
  <2>3. Len(c) = 8
    BY <1>4
  <2> HIDE DEF bits, c, n
  <2> QED
    BY <2>1, <2>2, <2>3 DEF c
<1>6. \A k \in Nat : k < 8 * n => Bit(data, k) = bits[k + 1]
  BY DEF AreBitsOf
<1> HIDE DEF all, bits, more, n
<1>7. ASSUME NEW k \in Nat, k < 8 * (n + 1)
      PROVE  Bit(more, k) = all[k + 1]
  <2>1. CASE k < 8 * n
    <3>1. k \div 8 \in Nat /\ k \div 8 < n /\ k \div 8 + 1 \in 1..n
      BY <1>2, <2>1
    <3>2. more[k \div 8 + 1] = data[k \div 8 + 1]
      BY <1>3, <3>1
    <3>3. Bit(more, k) = Bit(data, k)
      BY <1>2, <3>1, <3>2 DEF Bit, n
    <3>4. k + 1 \in 1..(8 * n)
      BY <1>2, <2>1
    <3> QED
      BY <1>5, <1>6, <2>1, <3>3, <3>4
  <2>2. CASE k >= 8 * n
    <3>1. PICK j \in 0..7 : k = 8 * n + j
      <4>1. k - 8 * n \in 0..7 /\ k = 8 * n + (k - 8 * n)
        BY <1>2, <1>7, <2>2
      <4> QED
        BY <4>1
    <3>2. k \div 8 = n /\ k % 8 = j
      BY <1>2, <3>1
    <3>3. Bit(more, k) = (b \div 2^(7 - j)) % 2
      BY <1>2, <1>3, <3>2 DEF Bit
    <3>4. j + 1 \in 1..8 /\ 8 - (j + 1) = 7 - j /\ k + 1 = 8 * n + (j + 1)
      BY <1>2, <3>1
    <3>5. ByteBits[b][j + 1] = (b \div 2^(7 - j)) % 2
      BY <3>4, BitsOfByte
    <3> QED
      BY <1>5, <3>3, <3>4, <3>5
  <2> QED
    BY <1>2, <2>1, <2>2
<1>8. AreBitsOf(all, more)
  BY <1>2, <1>5, <1>7 DEF AreBitsOf
<1> QED
  BY <1>1, <1>8 DEF all, more

\* The decoder numbers the bits of the bytes one after the other.
LEMMA BitsOfData ==
  ASSUME NEW data \in Seq(Byte)
  PROVE  AreBitsOf(Joined(ByteBits, data), data)
<1> DEFINE Q == {s \in Seq(Byte) : AreBitsOf(Joined(ByteBits, s), s)}
<1>1. <<>> \in Q
  BY BitsOfNone
<1>2. ASSUME NEW s \in Seq(Byte), NEW b \in Byte, s \in Q
      PROVE  s \o <<b>> \in Q
  <2>1. s \o <<b>> \in Seq(Byte)
    OBVIOUS
  <2> QED
    BY <1>2, <2>1, BitsOfMore
<1> HIDE DEF Q
<1>3. \A s \in Seq(Byte) : s \in Q
  BY <1>1, <1>2, SequenceInduction
<1> QED
  BY <1>3 DEF Q

\* What a decoder reads bits from.
Data == Seq(Byte)

LEMMA ByteIsNat == \A b \in Byte : b \in Nat
BY DEF Byte

LEMMA BitType ==
  ASSUME NEW data \in Data, NEW k \in Nat
  PROVE  Bit(data, k) \in Binary
<1>1. CASE k \div 8 < Len(data)
  <2> DEFINE i == k \div 8 + 1
             d == 2^(7 - (k % 8))
  <2>1. i \in 1..Len(data) /\ 7 - (k % 8) \in 0..24
    BY <1>1
  <2>2. data[i] \in Nat
    <3> HIDE DEF i
    <3>1. data[i] \in Byte
      BY <2>1, ElementOfSeq DEF Data
    <3> QED
      BY <3>1, ByteIsNat, Zenon
  <2>3. d \in Nat /\ 1 <= d
    BY <2>1, PowerStep
  <2>4. Bit(data, k) = (data[i] \div d) % 2
    BY <1>1 DEF Bit
  <2> HIDE DEF i, d
  <2>5. data[i] \div d \in Nat
    BY <2>2, <2>3
  <2>6. \A x \in Nat : (x % 2) \in Binary
    BY DEF Binary
  <2> QED
    BY <2>4, <2>5, <2>6
<1>2. CASE ~(k \div 8 < Len(data))
  BY <1>2 DEF Bit, Binary
<1> QED
  BY <1>1, <1>2

\* These bits are in the data at bit k.
Holds(data, k, bits) == \A i \in 1..Len(bits) : Bit(data, k + i - 1) = bits[i]

LEMMA HoldsConcat ==
  ASSUME NEW data, NEW k \in Nat, NEW a \in Seq(Binary), NEW b \in Seq(Binary),
         Holds(data, k, a \o b)
  PROVE  /\ Holds(data, k, a) /\ Holds(data, k + Len(a), b)
         /\ k + Len(a) \in Nat /\ Len(a \o b) = Len(a) + Len(b)
<1> DEFINE m == Len(a)
           n == Len(b)
           c == a \o b
<1>1. /\ m \in Nat /\ n \in Nat /\ Len(c) = m + n
      /\ \A i \in 1..m : c[i] = a[i]
      /\ \A i \in 1..n : c[m + i] = b[i]
  BY ConcatParts
<1>2. \A i \in 1..Len(c) : Bit(data, k + i - 1) = c[i]
  BY DEF Holds
<1> HIDE DEF c, m, n
<1>3. ASSUME NEW i \in 1..m
      PROVE  Bit(data, k + i - 1) = a[i]
  <2>1. i \in 1..Len(c)
    BY <1>1
  <2> QED
    BY <1>1, <1>2, <2>1
<1>4. ASSUME NEW i \in 1..n
      PROVE  Bit(data, (k + m) + i - 1) = b[i]
  <2>1. m + i \in 1..Len(c) /\ (k + m) + i - 1 = k + (m + i) - 1
    BY <1>1
  <2> QED
    BY <1>1, <1>2, <2>1
<1> QED
  BY <1>1, <1>3, <1>4 DEF Holds, c, m, n

\* The number the decoder makes of the bits from k on: one bit after the other.
IsReading(value, data, k) ==
  /\ value[0] = 0
  /\ \A i \in 1..16 : value[i] = 2 * value[i - 1] + Bit(data, k + i - 1)
  /\ \A i \in 0..16 : value[i] \in Nat
  /\ \A i \in 0..16 : BitsAt(data, k, i) = value[i]

LEMMA ReadingAt ==
  ASSUME NEW data, NEW k, NEW value, IsReading(value, data, k), NEW n \in 0..16
  PROVE  BitsAt(data, k, n) = value[n] /\ value[n] \in Nat
BY DEF IsReading

LEMMA ReadingOf ==
  ASSUME NEW data \in Data, NEW k \in Nat
  PROVE  \E value : IsReading(value, data, k)
<1> DEFINE bit(i) == Bit(data, k + i - 1)
           Body(f) == [i \in 0..16 |-> IF i = 0 THEN 0 ELSE 2 * f[i - 1] + bit(i)]
           F == [i \in 1..16 |-> [s \in Nat |-> 2 * s + bit(i)]]
           value == CHOOSE f : f = Body(f)
<1>1. \A n \in 0..16 : BitsAt(data, k, n) = value[n]
  BY DEF BitsAt
<1>2. \A i \in 1..16 : bit(i) \in Nat
  <2>1. ASSUME NEW i \in 1..16
        PROVE  bit(i) \in Nat
    <3>1. k + i - 1 \in Nat
      OBVIOUS
    <3>2. Bit(data, k + i - 1) \in Binary
      BY <3>1, BitType
    <3> QED
      BY <3>2 DEF Binary
  <2> QED
    BY <2>1
<1> HIDE DEF bit
<1>3. F \in [1..16 -> [Nat -> Nat]]
  <2>1. ASSUME NEW i \in 1..16, NEW s \in Nat
        PROVE  2 * s + bit(i) \in Nat
    <3>1. bit(i) \in Nat
      BY <1>2
    <3> QED
      BY <3>1
  <2> QED
    BY <2>1, Zenon
<1>4. PICK g \in [0..16 -> Nat] : IsLoop(g, 16, 0, F)
  <2> HIDE DEF F
  <2> QED
    BY <1>3, LoopExists
<1>5. ASSUME NEW i \in 0..16
      PROVE  g[i] = IF i = 0 THEN 0 ELSE 2 * g[i - 1] + bit(i)
  <2>1. CASE i = 0
    BY <1>4, <2>1 DEF IsLoop
  <2>2. CASE i # 0
    <3>1. i \in 1..16 /\ i - 1 \in 0..16
      BY <2>2
    <3>2. g[i] = F[i][g[i - 1]] /\ g[i - 1] \in Nat
      <4> HIDE DEF F
      <4> QED
        BY <1>4, <3>1 DEF IsLoop
    <3> QED
      BY <2>2, <3>1, <3>2
  <2> QED
    BY <2>1, <2>2
<1>6. g = Body(g)
  BY <1>5
<1>7. value = Body(value)
  <2> HIDE DEF Body
  <2> QED
    BY <1>6
<1> HIDE DEF value
<1>8. value[0] = 0 /\ \A i \in 1..16 : value[i] = 2 * value[i - 1] + bit(i)
  BY <1>7
<1>9. \A i \in 0..16 : value[i] \in Nat
  <2>1. ASSUME NEW i \in 1..16, value[i - 1] \in Nat
        PROVE  value[i] \in Nat
    <3>1. bit(i) \in Nat /\ value[i] = 2 * value[i - 1] + bit(i)
      BY <1>2, <1>8
    <3>2. \A x, y \in Nat : 2 * x + y \in Nat
      OBVIOUS
    <3> QED
      BY <2>1, <3>1, <3>2, Zenon
  <2>2. value[0] \in Nat
    BY <1>8
  <2> QED
    BY <2>1, <2>2, LoopInvariant
<1>10. IsReading(value, data, k)
  BY <1>1, <1>8, <1>9 DEF IsReading, bit
<1> QED
  BY <1>10

LEMMA DivTwice ==
  ASSUME NEW v \in Nat, NEW d \in Nat, 1 <= d
  PROVE  (v \div d) \div 2 = v \div (2 * d)
<1> DEFINE x == v \div d
           y == v % d
           q == x \div 2
           z == x % 2
<1>1. x \in Nat /\ y \in Nat /\ y < d /\ v = d * x + y
  OBVIOUS
<1> HIDE DEF x, y
<1>2. q \in Nat /\ z \in 0..1 /\ x = 2 * q + z
  BY <1>1
<1> HIDE DEF q, z
<1>3. d * x = q * (2 * d) + z * d
  BY <1>1, <1>2
<1> DEFINE r == z * d + y
<1>4. r \in Nat /\ r < 2 * d /\ v = q * (2 * d) + r /\ 2 * d \in Nat
  BY <1>1, <1>2, <1>3
<1> HIDE DEF r
<1>5. v \div (2 * d) = q
  BY <1>2, <1>4, QuotientIs
<1> QED
  BY <1>5 DEF q, x

\* A number of l bits begins with the number of m of them.
LEMMA ReadingPrefix ==
  ASSUME NEW data \in Data, NEW k \in Nat, NEW value, IsReading(value, data, k),
         NEW l \in 0..16
  PROVE  \A m \in 0..l : value[m] = value[l] \div 2^(l - m)
<1> DEFINE S == {j \in 0..l : value[l - j] = value[l] \div 2^j}
<1>1. 0 \in S
  <2>1. value[l] \in Nat
    BY DEF IsReading
  <2>2. 2^0 = 1
    BY PowerOfTwo DEF PowersOfTwo
  <2> QED
    BY <2>1, <2>2
<1>2. ASSUME NEW j \in 1..l, j - 1 \in S
      PROVE  j \in S
  <2> DEFINE i == l - (j - 1)
             d == 2^(j - 1)
             x == value[i - 1]
             b == Bit(data, k + i - 1)
  <2>1. i \in 1..16 /\ i - 1 = l - j /\ k + i - 1 \in Nat /\ j \in 1..16 /\ j - 1 \in 0..16
    OBVIOUS
  <2>2. value[i] = value[l] \div d
    BY <1>2
  <2>3. value[i] = 2 * x + b /\ x \in Nat /\ value[l] \in Nat
    <3>1. i - 1 \in 0..16 /\ l \in 0..16
      BY <2>1
    <3> HIDE DEF i
    <3> QED
      BY <2>1, <3>1 DEF IsReading
  <2>4. b \in Binary
    BY <2>1, BitType
  <2>5. d \in Nat /\ 1 <= d /\ 2^j = 2 * d
    BY <2>1, PowersGrow
  <2> HIDE DEF d, x, b
  <2>6. x = value[i] \div 2
    BY <2>3, <2>4 DEF Binary
  <2>7. x = value[l] \div (2 * d)
    <3>1. \A v, e \in Nat : 1 <= e => (v \div e) \div 2 = v \div (2 * e)
      BY DivTwice
    <3> QED
      BY <2>2, <2>3, <2>5, <2>6, <3>1
  <2> QED
    BY <2>1, <2>5, <2>7 DEF x
<1> HIDE DEF S
<1>3. \A j \in 0..l : j \in S
  BY <1>1, <1>2, InductionUpTo
<1>4. ASSUME NEW m \in 0..l
      PROVE  value[m] = value[l] \div 2^(l - m)
  <2>1. l - m \in 0..l /\ l - (l - m) = m
    OBVIOUS
  <2> QED
    BY <1>3, <2>1 DEF S
<1> QED
  BY <1>4

LEMMA WordBitsOf ==
  ASSUME NEW w \in CodeWord
  PROVE  /\ WordBits[w] \in Seq(Binary) /\ Len(WordBits[w]) = w.size
         /\ w.size \in 0..16 /\ w.bits \in Nat /\ w.bits < 2^w.size
         /\ \A i \in 1..w.size : WordBits[w][i] = (w.bits \div 2^(w.size - i)) % 2
<1>1. WordBits[w] = Bits(w.bits, w.size)
  BY DEF WordBits
<1>2. w.size \in 0..16 /\ w.bits \in Nat /\ w.bits < 2^w.size
  BY DEF CodeWord
<1>3. w.size \in 0..24
  BY <1>2
<1>4. Bits(w.bits, w.size) \in Seq(Binary) /\ Len(Bits(w.bits, w.size)) = w.size
  BY <1>2, <1>3, BitsType
<1>5. \A i \in 1..w.size : Bits(w.bits, w.size)[i] = (w.bits \div 2^(w.size - i)) % 2
  BY DEF Bits
<1> QED
  BY <1>1, <1>2, <1>4, <1>5

\* Where a word was written its number is read.
LEMMA WordRead ==
  ASSUME NEW data, NEW k \in Nat, NEW w \in CodeWord, Holds(data, k, WordBits[w]),
         NEW value, IsReading(value, data, k)
  PROVE  value[w.size] = w.bits
<1> DEFINE n == w.size
           b == w.bits
           S == {i \in 0..n : value[i] = b \div 2^(n - i)}
<1>1. n \in 0..16 /\ b \in Nat /\ b < 2^n /\ Len(WordBits[w]) = n
  BY WordBitsOf
<1>2. \A i \in 1..n : Bit(data, k + i - 1) = (b \div 2^(n - i)) % 2
  BY <1>1, WordBitsOf DEF Holds
<1> HIDE DEF n, b
<1>3. 0 \in S
  <2>1. value[0] = 0 /\ n - 0 = n
    BY <1>1 DEF IsReading
  <2> DEFINE d == 2^n
  <2>2. d \in Nat /\ b < d
    BY <1>1, PowersGrow
  <2> HIDE DEF d
  <2>3. b \div d = 0
    BY <1>1, <2>2
  <2> QED
    BY <1>1, <2>1, <2>3 DEF d
<1>4. ASSUME NEW i \in 1..n, i - 1 \in S
      PROVE  i \in S
  <2> DEFINE d == 2^(n - i)
             x == b \div d
  <2>1. i \in 1..16 /\ n - i \in 0..16 /\ n - (i - 1) = (n - i) + 1 /\ (n - i) + 1 \in 1..16
    BY <1>1
  <2>2. d \in Nat /\ 1 <= d /\ 2^((n - i) + 1) = 2 * d
    <3> DEFINE m == (n - i) + 1
    <3>1. m \in 1..16 /\ m - 1 = n - i
      BY <2>1
    <3> HIDE DEF m
    <3>2. 2^m = 2 * 2^(m - 1)
      BY <3>1, PowersGrow
    <3>3. 2^(n - i) \in Nat /\ 1 <= 2^(n - i)
      BY <2>1, PowersGrow
    <3> QED
      BY <3>1, <3>2, <3>3 DEF m
  <2>3. value[i - 1] = b \div (2 * d)
    BY <1>4, <2>1, <2>2
  <2>4. value[i] = 2 * value[i - 1] + (x % 2)
    BY <1>2, <2>1 DEF IsReading
  <2> HIDE DEF d
  <2>5. x \in Nat
    BY <1>1, <2>2
  <2>6. x \div 2 = b \div (2 * d)
    BY <1>1, <2>2, DivTwice
  <2> HIDE DEF x
  <2>7. value[i] = x
    <3>1. \A y \in Nat : 2 * (y \div 2) + (y % 2) = y
      OBVIOUS
    <3> QED
      BY <2>3, <2>4, <2>5, <2>6, <3>1, Zenon
  <2> QED
    BY <2>7 DEF x, d
<1> HIDE DEF S
<1>5. \A i \in 0..n : i \in S
  <2>1. n \in Nat
    BY <1>1
  <2> QED
    BY <1>3, <1>4, <2>1, InductionUpTo
<1>6. value[n] = b \div 2^(n - n)
  <2>1. n \in 0..n
    BY <1>1
  <2>2. n \in S
    BY <1>5, <2>1
  <2> QED
    BY <2>2 DEF S
<1>7. n - n = 0 /\ 2^0 = 1
  <2>1. 2^0 = 1
    BY PowerOfTwo DEF PowersOfTwo
  <2> QED
    BY <1>1, <2>1
<1>8. value[n] = b
  BY <1>1, <1>6, <1>7
<1> QED
  BY <1>8 DEF n, b

\* The codes of a file are those of a table: of each symbol that has one.
Code(table, x) == <<table[x].size, table[x].bits>>
IsCodeBook(codes, table) ==
  /\ DOMAIN codes = {Code(table, x) : x \in {y \in 0..255 : table[y].size # 0}}
  /\ \A x \in 0..255 : table[x].size # 0 => codes[Code(table, x)] = x

LEMMA SizesCompare == \A m, n \in 0..16 : m <= n \/ n <= m
OBVIOUS

\* One of two readings at the same place begins with the other.
LEMMA ReadingsAgree ==
  ASSUME NEW data \in Data, NEW k \in Nat, NEW value, IsReading(value, data, k),
         NEW v \in CodeWord, v.bits = value[v.size], NEW w \in CodeWord, w.bits = value[w.size]
  PROVE  BeginsWith(v, w) \/ BeginsWith(w, v)
<1> DEFINE m == v.size
           n == w.size
<1>1. m \in 0..16 /\ n \in 0..16
  BY WordBitsOf
<1>2. ASSUME NEW a \in 0..16, NEW b \in 0..16, a <= b
      PROVE  value[a] = value[b] \div 2^(b - a)
  <2>1. a \in 0..b
    BY <1>2
  <2> QED
    BY <2>1, ReadingPrefix
<1>3. v.bits = value[m] /\ w.bits = value[n]
  OBVIOUS
<1>4. BeginsWith(v, w) = (n <= m /\ v.bits \div 2^(m - n) = w.bits)
  BY DEF BeginsWith
<1>5. BeginsWith(w, v) = (m <= n /\ w.bits \div 2^(n - m) = v.bits)
  BY DEF BeginsWith
<1> HIDE DEF m, n
<1>6. m <= n \/ n <= m
  BY <1>1, SizesCompare, Zenon
<1>7. CASE n <= m
  <2>1. value[n] = value[m] \div 2^(m - n)
    BY <1>1, <1>2, <1>7
  <2> QED
    BY <1>3, <1>4, <1>7, <2>1
<1>8. CASE m <= n
  <2>1. value[m] = value[n] \div 2^(n - m)
    BY <1>1, <1>2, <1>8
  <2> QED
    BY <1>3, <1>5, <1>8, <2>1
<1> QED
  BY <1>6, <1>7, <1>8

\* A table of code words, none of which begins another.
IsTable(table) == table \in [0..255 -> CodeWord] /\ IsPrefixFree(table)

\* The code of a symbol is in the data from bit k on.
IsWritten(data, k, table, x) ==
  x \in 0..255 /\ table[x].size # 0 /\ Holds(data, k, WordBits[table[x]])

\* Where the code of a symbol was written the symbol is read.
LEMMA SymbolRead ==
  ASSUME NEW data \in Data, NEW k \in Nat, NEW table, IsTable(table),
         NEW codes, IsCodeBook(codes, table), NEW x, IsWritten(data, k, table, x)
  PROVE  SymbolAt(data, k, codes) = [symbol |-> x, size |-> table[x].size]
<1>0. x \in 0..255 /\ table[x].size # 0 /\ Holds(data, k, WordBits[table[x]])
  BY DEF IsWritten
<1> DEFINE read(l) == <<l, BitsAt(data, k, l)>>
           fits == {l \in 1..16 : read(l) \in DOMAIN codes}
           n == table[x].size
<1>1. PICK value : IsReading(value, data, k)
  BY ReadingOf
<1>2. n \in 1..16 /\ table[x] \in CodeWord
  <2>1. table[x] \in CodeWord
    BY <1>0 DEF IsTable
  <2>2. n \in 0..16 /\ n # 0
    BY <1>0, <2>1, WordBitsOf
  <2>3. \A m \in 0..16 : m # 0 => m \in 1..16
    OBVIOUS
  <2> QED
    BY <2>1, <2>2, <2>3, Zenon
<1>3. value[n] = table[x].bits
  BY <1>0, <1>1, <1>2, WordRead
<1>4. read(n) = Code(table, x)
  <2>1. \A m \in 1..16 : m \in 0..16
    OBVIOUS
  <2>2. n \in 0..16
    BY <1>2, <2>1, Zenon
  <2> HIDE DEF n
  <2>3. BitsAt(data, k, n) = value[n]
    BY <1>1, <2>2, ReadingAt
  <2> QED
    BY <1>3, <2>3 DEF Code, n
<1>5. Code(table, x) \in DOMAIN codes /\ codes[Code(table, x)] = x
  BY <1>0 DEF IsCodeBook
<1>6. ASSUME NEW l \in fits
      PROVE  l = n
  <2>1. read(l) \in DOMAIN codes /\ l \in 1..16
    OBVIOUS
  <2>2. PICK y \in 0..255 : table[y].size # 0 /\ read(l) = Code(table, y)
    BY <2>1 DEF IsCodeBook
  <2>3. table[y].size = l /\ table[y].bits = BitsAt(data, k, l) /\ table[y] \in CodeWord
    BY <2>2 DEF Code, IsTable
  <2>4. table[y].bits = value[table[y].size]
    <3>1. \A m \in 1..16 : m \in 0..16
      OBVIOUS
    <3>2. l \in 0..16
      BY <2>1, <3>1, Zenon
    <3>3. BitsAt(data, k, l) = value[l]
      BY <1>1, <3>2, ReadingAt
    <3> QED
      BY <2>3, <3>3
  <2>5. BeginsWith(table[x], table[y]) \/ BeginsWith(table[y], table[x])
    BY <1>1, <1>2, <1>3, <2>3, <2>4, ReadingsAgree
  <2>6. x = y
    BY <1>0, <2>2, <2>5 DEF IsPrefixFree, IsTable
  <2> QED
    BY <2>3, <2>6
<1> HIDE DEF n
<1>7. n \in fits
  BY <1>2, <1>4, <1>5
<1>8. fits = {n} /\ fits # {} /\ (CHOOSE l \in fits : TRUE) = n
  <2> HIDE DEF fits
  <2> QED
    BY <1>6, <1>7
<1>9. SymbolAt(data, k, codes) =
        LET l == CHOOSE m \in fits : TRUE
        IN  IF fits = {} THEN [symbol |-> 0, size |-> 16]
            ELSE [symbol |-> codes[<<l, BitsAt(data, k, l)>>], size |-> l]
  BY Zenon DEF SymbolAt
<1> HIDE DEF fits
<1> QED
  BY <1>4, <1>5, <1>8, <1>9 DEF n

\* Whatever the data, a symbol is read.
SymbolType == [symbol : 0..255, size : 1..16]
LEMMA SymbolTyped ==
  ASSUME NEW data, NEW k, NEW table, NEW codes, IsCodeBook(codes, table)
  PROVE  SymbolAt(data, k, codes) \in SymbolType
<1> DEFINE read(l) == <<l, BitsAt(data, k, l)>>
           fits == {l \in 1..16 : read(l) \in DOMAIN codes}
           n == CHOOSE l \in fits : TRUE
<1>1. SymbolAt(data, k, codes) =
        IF fits = {} THEN [symbol |-> 0, size |-> 16] ELSE [symbol |-> codes[read(n)], size |-> n]
  BY Zenon DEF SymbolAt
<1>2. CASE fits = {}
  BY <1>1, <1>2 DEF SymbolType
<1>3. CASE fits # {}
  <2>1. n \in fits
    <3> HIDE DEF fits
    <3> QED
      BY <1>3
  <2>2. n \in 1..16 /\ read(n) \in DOMAIN codes
    BY <2>1
  <2> HIDE DEF n
  <2>3. PICK y \in 0..255 : table[y].size # 0 /\ read(n) = Code(table, y)
    BY <2>2 DEF IsCodeBook
  <2>4. codes[read(n)] \in 0..255
    BY <2>3 DEF IsCodeBook
  <2> HIDE DEF fits
  <2> QED
    BY <1>1, <1>3, <2>2, <2>4 DEF SymbolType
<1> QED
  BY <1>2, <1>3

LEMMA SignedTyped ==
  ASSUME NEW data \in Data, NEW k \in Nat, NEW n \in 0..15
  PROVE  SignedAt(data, k, n) \in Int
<1>1. PICK value : IsReading(value, data, k)
  BY ReadingOf
<1>2. n \in 0..16 /\ BitsAt(data, k, n) \in Nat
  <2>1. n \in 0..16
    OBVIOUS
  <2> QED
    BY <1>1, <2>1, ReadingAt
<1>3. 2^n \in Int
  BY <1>2, PowersGrow
<1> DEFINE v == BitsAt(data, k, n)
           d == 2^n
<1>4. v \in Int /\ v - d + 1 \in Int
  <2> HIDE DEF v, d
  <2> QED
    BY <1>2, <1>3 DEF v, d
<1>5. SignedAt(data, k, n) \in {v, v - d + 1}
  BY DEF SignedAt
<1> QED
  BY <1>4, <1>5

\* A value that a block may contain.
IsValue(v) == Between(v, -2047, 2047)

\* Where the bits of a value were written behind its code the value is read.
LEMMA SignedRead ==
  ASSUME NEW data \in Data, NEW k \in Nat, NEW v, IsValue(v),
         Holds(data, k, WordBits[Magnitude(v)])
  PROVE  SignedAt(data, k, Category(v)) = v
<1>1. v \in Int /\ -(2^15) < v /\ v < 2^15 /\ -(2^11) < v /\ v < 2^11
  <2>1. 2^15 = 32768 /\ 2^11 = 2048
    OBVIOUS
  <2> QED
    BY <2>1 DEF Between, IsValue
<1> DEFINE m == Magnitude(v)
           n == m.size
           b == m.bits
<1>2. n = Category(v) /\ m \in CodeWord
  BY <1>1, MagnitudeOf DEF Magnitude
<1>3. v # 0 => v = IF b < 2^(n - 1) THEN b - 2^n + 1 ELSE b
  BY <1>1, MagnitudeOf
<1>4. n \in 0..11 /\ (n = 0 <=> v = 0)
  <2>1. 11 \in 0..16
    OBVIOUS
  <2> QED
    BY <1>1, <1>2, <2>1, CategoryOf
<1>5. PICK value : IsReading(value, data, k)
  BY ReadingOf
<1>6. BitsAt(data, k, n) = b
  <2>1. m \in CodeWord /\ Holds(data, k, WordBits[m])
    BY <1>2
  <2>2. value[n] = b
    <3> HIDE DEF m
    <3> QED
      BY <1>5, <2>1, WordRead
  <2> HIDE DEF n, b
  <2>3. n \in 0..16
    BY <1>4
  <2>4. BitsAt(data, k, n) = value[n]
    BY <1>5, <2>3, ReadingAt
  <2> QED
    BY <2>2, <2>4
<1>7. n = 0 => b = 0
  <2>1. SUFFICES ASSUME n = 0
                 PROVE  b = 0
    OBVIOUS
  <2>2. BitsAt(data, k, 0) = 0
    <3>1. 0 \in 0..16
      OBVIOUS
    <3>2. value[0] = 0
      BY <1>5 DEF IsReading
    <3>3. BitsAt(data, k, 0) = value[0]
      BY <1>5, <3>1, ReadingAt
    <3> QED
      BY <3>2, <3>3
  <2> QED
    BY <1>6, <2>1, <2>2
<1>8. SignedAt(data, k, n) = IF n > 0 /\ b < 2^(n - 1) THEN b - 2^n + 1 ELSE b
  <2> HIDE DEF n, b
  <2> QED
    BY <1>6 DEF SignedAt
<1> HIDE DEF m, n, b
<1>9. CASE v = 0
  BY <1>2, <1>4, <1>7, <1>8, <1>9
<1>10. CASE v # 0
  <2>1. n > 0
    BY <1>4, <1>10
  <2> QED
    BY <1>2, <1>3, <1>8, <1>10, <2>1
<1> QED
  BY <1>9, <1>10

-------------------------------------------------------------------------------
(* Words. *)

Words == Seq(CodeWord)
\* The words are in the data from bit k on, and how many bits they have.
HoldsWords(data, k, words) == Holds(data, k, Joined(WordBits, words))
Bitcount(words) == Len(Joined(WordBits, words))

LEMMA WordsHeld ==
  ASSUME NEW data, NEW k \in Nat, NEW a \in Words, NEW b \in Words
  PROVE  /\ a \o b \in Words
         /\ Bitcount(a) \in Nat /\ Bitcount(b) \in Nat /\ k + Bitcount(a) \in Nat
         /\ Bitcount(a \o b) = Bitcount(a) + Bitcount(b)
         /\ HoldsWords(data, k, a \o b) =>
              HoldsWords(data, k, a) /\ HoldsWords(data, k + Bitcount(a), b)
<1> DEFINE x == Joined(WordBits, a)
           y == Joined(WordBits, b)
<1>1. a \in Seq(CodeWord) /\ b \in Seq(CodeWord)
  BY DEF Words
<1>2. a \o b \in Words
  BY <1>1, ConcatProperties DEF Words
<1>3. x \in Seq(Binary) /\ y \in Seq(Binary) /\ Joined(WordBits, a \o b) = x \o y
  BY <1>1, WordsJoined
<1> HIDE DEF x, y
<1>4. Len(x) \in Nat /\ Len(y) \in Nat /\ Len(x \o y) = Len(x) + Len(y)
  BY <1>3, ConcatParts
<1>5. Holds(data, k, x \o y) => Holds(data, k, x) /\ Holds(data, k + Len(x), y)
  BY <1>3, HoldsConcat
<1>6. k + Len(x) \in Nat
  BY <1>4
<1> QED
  BY <1>2, <1>3, <1>4, <1>5, <1>6 DEF HoldsWords, Bitcount, x, y

LEMMA WordHeld ==
  ASSUME NEW data, NEW k, NEW w \in CodeWord
  PROVE  /\ <<w>> \in Words /\ Bitcount(<<w>>) = w.size /\ w.size \in 0..16
         /\ HoldsWords(data, k, <<w>>) <=> Holds(data, k, WordBits[w])
<1>1. Joined(WordBits, <<w>>) = WordBits[w]
  BY BitFunctions, JoinedShort
<1>2. Len(WordBits[w]) = w.size /\ w.size \in 0..16
  BY WordBitsOf
<1>3. <<w>> \in Words
  BY DEF Words
<1> QED
  BY <1>1, <1>2, <1>3 DEF HoldsWords, Bitcount

LEMMA NoWords == <<>> \in Words /\ Bitcount(<<>>) = 0
<1>1. [bits |-> 0, size |-> 0] \in CodeWord
  <2>1. 0 \in Int /\ 0 <= 0 /\ 0 \in 0..16 /\ 0 < 2^0
    BY PowerOfTwo DEF PowersOfTwo
  <2> QED
    BY <2>1, CodeWordOf
<1>2. Joined(WordBits, <<>>) = <<>>
  BY <1>1, BitFunctions, JoinedShort
<1> QED
  BY <1>2 DEF Words, Bitcount

LEMMA CodedWordsAreWords ==
  /\ \A w \in CodedWord : w \in CodeWord /\ w.size >= 1
  /\ \A words \in Seq(CodedWord) : words \in Words
<1>1. CodedWord \subseteq CodeWord
  BY DEF CodedWord
<1> QED
  BY <1>1 DEF CodedWord, Words

-------------------------------------------------------------------------------
(* Blocks. *)

\* A block that is being read.
Reading == [at : Nat, next : Nat, coef : [0..63 -> Int]]

LEMMA ReadOnType ==
  ASSUME NEW data \in Data, NEW table, NEW codes, IsCodeBook(codes, table), NEW b \in Reading
  PROVE  ReadOn(data, codes, b) \in Reading
<1> DEFINE ac == SymbolAt(data, b.at, codes)
           run == ac.symbol \div 16
           bits == ac.symbol % 16
           value == SignedAt(data, b.at + ac.size, bits)
           place == Smaller(b.next + run, 63)
<1>1. b.at \in Nat /\ b.next \in Nat /\ b.coef \in [0..63 -> Int]
  BY DEF Reading
<1>2. ac.symbol \in 0..255 /\ ac.size \in 1..16
  <2>1. ac \in SymbolType
    BY SymbolTyped
  <2> HIDE DEF ac
  <2> QED
    BY <2>1 DEF SymbolType
<1> HIDE DEF ac
<1>3. run \in Nat /\ bits \in 0..15 /\ b.at + ac.size \in Nat
  BY <1>1, <1>2
<1>4. value \in Int
  <2> HIDE DEF bits
  <2> QED
    BY <1>3, SignedTyped
<1> HIDE DEF run, bits, value
<1>5. place \in 0..63
  BY <1>1, <1>3 DEF Smaller
<1> HIDE DEF place
<1>6. [b.coef EXCEPT ![place] = value] \in [0..63 -> Int]
  BY <1>1, <1>4, <1>5
<1>7. b.at + ac.size \in Nat /\ b.at + ac.size + bits \in Nat /\ b.next + 16 \in Nat
      /\ b.next + run + 1 \in Nat
  BY <1>1, <1>2, <1>3
<1>8. /\ [at |-> b.at + ac.size, next |-> 64, coef |-> b.coef] \in Reading
      /\ [at |-> b.at + ac.size, next |-> b.next + 16, coef |-> b.coef] \in Reading
  BY <1>1, <1>7 DEF Reading
<1>9. [at |-> b.at + ac.size + bits, next |-> b.next + run + 1,
       coef |-> [b.coef EXCEPT ![place] = value]] \in Reading
  BY <1>6, <1>7 DEF Reading
<1>10. ReadOn(data, codes, b) \in
        {b, [at |-> b.at + ac.size, next |-> 64, coef |-> b.coef],
         [at |-> b.at + ac.size, next |-> b.next + 16, coef |-> b.coef],
         [at |-> b.at + ac.size + bits, next |-> b.next + run + 1,
          coef |-> [b.coef EXCEPT ![place] = value]]}
  BY Zenon DEF ReadOn, ac, run, bits, place, value
<1> QED
  BY <1>8, <1>9, <1>10

\* The reading of a block, turn by turn.
IsReadLoop(after, data, codes, start) ==
  /\ after[0] = start
  /\ \A n \in 1..63 : after[n] = ReadOn(data, codes, after[n - 1])
  /\ \A n \in 0..63 : after[n] \in Reading

LEMMA ReadLoop ==
  ASSUME NEW data \in Data, NEW table, NEW acCodes, IsCodeBook(acCodes, table),
         NEW k, NEW dcCodes, NEW predicted, BlockStart(data, k, dcCodes, predicted) \in Reading
  PROVE  \E after : /\ IsReadLoop(after, data, acCodes, BlockStart(data, k, dcCodes, predicted))
                    /\ BlockAt(data, k, dcCodes, acCodes, predicted) = after[63]
<1> DEFINE start == BlockStart(data, k, dcCodes, predicted)
           Body(f) == [n \in 0..63 |-> IF n = 0 THEN start ELSE ReadOn(data, acCodes, f[n - 1])]
           after == CHOOSE f : f = Body(f)
           F == [n \in 1..63 |-> [b \in Reading |-> ReadOn(data, acCodes, b)]]
<1>1. BlockAt(data, k, dcCodes, acCodes, predicted) = after[63]
  BY DEF BlockAt
<1>2. start \in Reading
  OBVIOUS
<1> HIDE DEF start
<1>3. PICK g \in [0..63 -> Reading] : IsLoop(g, 63, start, F)
  <2>1. \A b \in Reading : ReadOn(data, acCodes, b) \in Reading
    BY ReadOnType
  <2>2. F \in [1..63 -> [Reading -> Reading]]
    BY <2>1, Zenon
  <2> HIDE DEF F
  <2> QED
    BY <1>2, <2>2, LoopExists
<1>4. ASSUME NEW n \in 0..63
      PROVE  g[n] = IF n = 0 THEN start ELSE ReadOn(data, acCodes, g[n - 1])
  <2>1. CASE n = 0
    BY <1>3, <2>1 DEF IsLoop
  <2>2. CASE n # 0
    <3>1. n \in 1..63 /\ n - 1 \in 0..63
      BY <2>2
    <3>2. g[n] = F[n][g[n - 1]] /\ g[n - 1] \in Reading
      <4> HIDE DEF F
      <4> QED
        BY <1>3, <3>1 DEF IsLoop
    <3> QED
      BY <2>2, <3>1, <3>2
  <2> QED
    BY <2>1, <2>2
<1>5. g = Body(g)
  BY <1>4
<1>6. after = Body(after)
  <2> HIDE DEF Body
  <2> QED
    BY <1>5
<1> HIDE DEF after
<1>7. after[0] = start
  BY <1>6
<1>8. ASSUME NEW n \in 1..63
      PROVE  after[n] = ReadOn(data, acCodes, after[n - 1])
  BY <1>6
<1>9. \A n \in 0..63 : after[n] \in Reading
  <2>1. after[0] \in Reading
    BY <1>2, <1>7
  <2>2. \A n \in 1..63 : after[n - 1] \in Reading => after[n] \in Reading
    BY <1>8, ReadOnType
  <2> QED
    BY <2>1, <2>2, LoopInvariant
<1>10. IsReadLoop(after, data, acCodes, start)
  BY <1>7, <1>8, <1>9 DEF IsReadLoop
<1> QED
  BY <1>1, <1>10 DEF start

\* A block that has been read stays as it is.
LEMMA ReadingStays ==
  ASSUME NEW after, NEW data, NEW codes, NEW start, IsReadLoop(after, data, codes, start),
         NEW n \in 0..63, after[n].next > 63
  PROVE  after[63] = after[n]
<1> DEFINE m == 63 - n
           S == {j \in 0..m : after[n + j] = after[n]}
<1>1. m \in Nat /\ n + m = 63
  OBVIOUS
<1>2. 0 \in S
  BY <1>1
<1>3. ASSUME NEW j \in 1..m, j - 1 \in S
      PROVE  j \in S
  <2>1. n + j \in 1..63 /\ (n + j) - 1 = n + (j - 1)
    BY <1>1
  <2>2. after[n + j] = ReadOn(data, codes, after[n + (j - 1)])
    BY <2>1 DEF IsReadLoop
  <2>3. after[n + (j - 1)] = after[n]
    BY <1>3
  <2>4. ReadOn(data, codes, after[n]) = after[n]
    BY DEF ReadOn
  <2> QED
    BY <2>2, <2>3, <2>4
<1> HIDE DEF S, m
<1>4. m \in S
  <2>1. \A j \in 0..m : j \in S
    BY <1>1, <1>2, <1>3, InductionUpTo
  <2>2. m \in 0..m
    BY <1>1
  <2> QED
    BY <2>1, <2>2
<1> QED
  BY <1>1, <1>4 DEF S

\* A symbol that has a code.
HasCode(class, t, x) == x \in 0..255 /\ m_huff_codes[class][t][x] \in CodedWord

LEMMA CodeOf ==
  ASSUME NEW class \in {"DC", "AC"}, NEW t \in 1..2,
         NEW x \in 0..255, m_huff_codes[class][t][x].size >= 1
  PROVE  HasCode(class, t, x)
<1>1. m_huff_codes[class][t] \in [0..255 -> CodeWord]
  BY HuffmanCodes
<1>2. m_huff_codes[class][t][x] \in CodeWord
  BY <1>1
<1> QED
  BY <1>2 DEF HasCode, CodedWord

LEMMA CodesThere ==
  ASSUME NEW t \in 1..2
  PROVE  /\ HasCode("AC", t, 0) /\ HasCode("AC", t, 240)
         /\ \A n \in 0..11 : HasCode("DC", t, n)
         /\ \A r \in 0..15, n \in 1..10 : HasCode("AC", t, 16 * r + n)
<1>1. HasCode("AC", t, 0) /\ HasCode("AC", t, 240)
  <2>1. 0 \in 0..255 /\ 240 \in 0..255
    OBVIOUS
  <2>2. m_huff_codes["AC"][t][0].size >= 1 /\ m_huff_codes["AC"][t][240].size >= 1
    BY CodesExist
  <2> QED
    BY <2>1, <2>2, CodeOf
<1>2. ASSUME NEW n \in 0..11
      PROVE  HasCode("DC", t, n)
  <2>1. n \in 0..255
    OBVIOUS
  <2> QED
    BY <2>1, CodesExist, CodeOf
<1>3. ASSUME NEW r \in 0..15, NEW n \in 1..10
      PROVE  HasCode("AC", t, 16 * r + n)
  <2> DEFINE x == 16 * r + n
  <2>1. x \in 0..255
    OBVIOUS
  <2>2. m_huff_codes["AC"][t][x].size >= 1
    BY CodesExist
  <2> HIDE DEF x
  <2>3. HasCode("AC", t, x)
    BY <2>1, <2>2, CodeOf
  <2> QED
    BY <2>3 DEF x
<1> QED
  BY <1>1, <1>2, <1>3

\* Where the code of a symbol is one of the words the symbol is read.
ReadsSymbol(data, k, codes, x, w) ==
  /\ SymbolAt(data, k, codes) = [symbol |-> x, size |-> w.size]
  /\ <<w>> \in Words /\ Bitcount(<<w>>) = w.size /\ w.size \in Nat /\ w.size >= 1

LEMMA TableSymbol ==
  ASSUME NEW data \in Data, NEW k \in Nat,
         NEW table, IsTable(table), NEW codes, IsCodeBook(codes, table),
         NEW x \in 0..255, table[x] \in CodedWord, HoldsWords(data, k, <<table[x]>>)
  PROVE  ReadsSymbol(data, k, codes, x, table[x])
<1> DEFINE w == table[x]
<1>1. w \in CodeWord /\ w.size >= 1
  BY CodedWordsAreWords
<1>2. HoldsWords(data, k, <<w>>)
  OBVIOUS
<1>3. /\ Holds(data, k, WordBits[w]) /\ <<w>> \in Words /\ Bitcount(<<w>>) = w.size
      /\ w.size \in 0..16
  <2> HIDE DEF w
  <2> QED
    BY <1>1, <1>2, WordHeld
<1>4. w.size \in Nat /\ w.size # 0
  <2> DEFINE n == w.size
  <2>1. n >= 1 /\ n \in 0..16
    BY <1>1, <1>3
  <2> HIDE DEF n
  <2>2. n \in Nat /\ n # 0
    BY <2>1
  <2> QED
    BY <2>2 DEF n
<1>5. SymbolAt(data, k, codes) = [symbol |-> x, size |-> w.size]
  <2>1. IsWritten(data, k, table, x)
    BY <1>3, <1>4, Zenon DEF IsWritten
  <2> HIDE DEF w
  <2>2. SymbolAt(data, k, codes) = [symbol |-> x, size |-> table[x].size]
    BY <2>1, SymbolRead
  <2> QED
    BY <2>2 DEF w
<1> HIDE DEF w
<1>6. ReadsSymbol(data, k, codes, x, w)
  BY <1>1, <1>3, <1>4, <1>5, Zenon DEF ReadsSymbol
<1> QED
  BY <1>6 DEF w

LEMMA WordSymbol ==
  ASSUME NEW data \in Data, NEW k \in Nat, NEW class \in {"DC", "AC"}, NEW t \in 1..2,
         NEW codes, IsCodeBook(codes, m_huff_codes[class][t]),
         NEW x, HasCode(class, t, x), HoldsWords(data, k, <<m_huff_codes[class][t][x]>>)
  PROVE  ReadsSymbol(data, k, codes, x, m_huff_codes[class][t][x])
<1> DEFINE table == m_huff_codes[class][t]
<1>1. /\ IsTable(table) /\ IsCodeBook(codes, table)
      /\ x \in 0..255 /\ table[x] \in CodedWord /\ HoldsWords(data, k, <<table[x]>>)
  BY HuffmanCodes, ZenonT(40) DEF HasCode, IsTable
<1> HIDE DEF table
<1>2. ReadsSymbol(data, k, codes, x, table[x])
  BY <1>1, TableSymbol
<1> QED
  BY <1>2 DEF table

\* What a symbol does to a block that is being read.
ReadState(at, next, coef) == [at |-> at, next |-> next, coef |-> coef]

LEMMA ReadZeros ==
  ASSUME NEW data, NEW codes, NEW at, NEW next, ~(next > 63), NEW c, NEW n,
         SymbolAt(data, at, codes) = [symbol |-> 240, size |-> n]
  PROVE  ReadOn(data, codes, ReadState(at, next, c)) = ReadState(at + n, next + 16, c)
BY DEF ReadOn, ReadState

LEMMA ReadEnd ==
  ASSUME NEW data, NEW codes, NEW at, NEW next, ~(next > 63), NEW c, NEW n,
         SymbolAt(data, at, codes) = [symbol |-> 0, size |-> n]
  PROVE  ReadOn(data, codes, ReadState(at, next, c)) = ReadState(at + n, 64, c)
BY DEF ReadOn, ReadState

LEMMA ReadValue ==
  ASSUME NEW data, NEW codes, NEW at, NEW next, ~(next > 63), NEW c, NEW n, NEW x, x # 0,
         SymbolAt(data, at, codes) = [symbol |-> x, size |-> n],
         NEW m, x % 16 = m, m # 0, NEW r, x \div 16 = r, NEW i, Smaller(next + r, 63) = i
  PROVE  ReadOn(data, codes, ReadState(at, next, c))
           = ReadState(at + n + m, next + r + 1, [c EXCEPT ![i] = SignedAt(data, at + n, m)])
BY DEF ReadOn, ReadState

\* The coefficients up to the m-th, and a reading that has got so far.
UpToPlace(coef, m) == [j \in 0..63 |-> IF j <= m THEN coef[j] ELSE 0]
ReadUpTo(at, next, coef, m) == ReadState(at, next, UpToPlace(coef, m))

\* The numbers between which a block is read.
IsPlace(n) == n \in Nat /\ n <= 63

LEMMA ZerosRead ==
  ASSUME NEW data \in Data, NEW t \in 1..2, NEW codes, IsCodeBook(codes, m_huff_codes["AC"][t]),
         NEW at \in Nat, NEW next, IsPlace(next), NEW coef, NEW m,
         HoldsWords(data, at, <<m_huff_codes["AC"][t][240]>>)
  PROVE  ReadOn(data, codes, ReadUpTo(at, next, coef, m))
           = ReadUpTo(at + Bitcount(<<m_huff_codes["AC"][t][240]>>), next + 16, coef, m)
<1> DEFINE w == m_huff_codes["AC"][t][240]
           b == ReadUpTo(at, next, coef, m)
           k == w.size
<1>1. ReadsSymbol(data, at, codes, 240, w)
  BY CodesThere, WordSymbol, SMTT(30)
<1> HIDE DEF w
<1>2. SymbolAt(data, at, codes) = [symbol |-> 240, size |-> k] /\ Bitcount(<<w>>) = k
  BY <1>1 DEF ReadsSymbol
<1>3. ~(next > 63)
  BY DEF IsPlace
<1> HIDE DEF k
<1>4. ReadOn(data, codes, b) = ReadUpTo(at + k, next + 16, coef, m)
  BY <1>2, <1>3, ReadZeros DEF ReadUpTo
<1> QED
  BY <1>2, <1>4 DEF w

LEMMA EndRead ==
  ASSUME NEW data \in Data, NEW t \in 1..2, NEW codes, IsCodeBook(codes, m_huff_codes["AC"][t]),
         NEW at \in Nat, NEW next, IsPlace(next), NEW coef, NEW m,
         HoldsWords(data, at, <<m_huff_codes["AC"][t][0]>>)
  PROVE  ReadOn(data, codes, ReadUpTo(at, next, coef, m))
           = ReadUpTo(at + Bitcount(<<m_huff_codes["AC"][t][0]>>), 64, coef, m)
<1> DEFINE w == m_huff_codes["AC"][t][0]
           b == ReadUpTo(at, next, coef, m)
           k == w.size
<1>1. ReadsSymbol(data, at, codes, 0, w)
  BY CodesThere, WordSymbol
<1> HIDE DEF w
<1>2. SymbolAt(data, at, codes) = [symbol |-> 0, size |-> k] /\ Bitcount(<<w>>) = k
  BY <1>1 DEF ReadsSymbol
<1>3. ~(next > 63)
  BY DEF IsPlace
<1> HIDE DEF k
<1>4. ReadOn(data, codes, b) = ReadUpTo(at + k, 64, coef, m)
  BY <1>2, <1>3, ReadEnd DEF ReadUpTo
<1> QED
  BY <1>2, <1>4 DEF w

\* Coefficient i is not 0 and those between it and the m-th are.
IsNextPlace(coef, m, i) ==
  /\ m \in Nat /\ i \in 1..63 /\ m < i /\ \A j \in (m + 1)..(i - 1) : coef[j] = 0
  /\ IsValue(coef[i]) /\ Category(coef[i]) \in 1..10 /\ Magnitude(coef[i]) \in CodeWord

LEMMA PlaceFilled ==
  ASSUME NEW coef, NEW m, NEW i, IsNextPlace(coef, m, i)
  PROVE  [UpToPlace(coef, m) EXCEPT ![i] = coef[i]] = UpToPlace(coef, i)
<1>1. m \in Nat /\ i \in 0..63 /\ m < i /\ \A j \in (m + 1)..(i - 1) : coef[j] = 0
  BY DEF IsNextPlace
<1> DEFINE v == coef[i]
<1>2. ASSUME NEW j \in 0..63
      PROVE  [UpToPlace(coef, m) EXCEPT ![i] = v][j] = UpToPlace(coef, i)[j]
  <2>1. CASE j = i
    BY <1>1, <2>1 DEF UpToPlace
  <2>2. CASE j # i /\ j <= m
    BY <1>1, <2>2 DEF UpToPlace
  <2>3. CASE j # i /\ j > m /\ j < i
    <3>1. j \in (m + 1)..(i - 1)
      BY <1>1, <2>3
    <3> QED
      BY <1>1, <2>3, <3>1 DEF UpToPlace
  <2>4. CASE j > i
    BY <1>1, <2>4 DEF UpToPlace
  <2> QED
    BY <1>1, <2>1, <2>2, <2>3, <2>4
<1> HIDE DEF v
<1>3. [UpToPlace(coef, m) EXCEPT ![i] = v] = UpToPlace(coef, i)
  BY <1>2 DEF UpToPlace
<1> QED
  BY <1>3 DEF v

LEMMA SymbolParts ==
  \A r \in 0..15, n \in 1..10 : /\ (16 * r + n) \div 16 = r /\ (16 * r + n) % 16 = n
                                /\ 16 * r + n # 0
OBVIOUS

LEMMA PairConcat == \A x, y \in CodeWord : <<x>> \o <<y>> = <<x, y>>
<1>1. ASSUME NEW x \in CodeWord, NEW y \in CodeWord
      PROVE  <<x>> \o <<y>> = <<x, y>>
  <2> DEFINE a == <<x>>
             b == <<y>>
             c == <<x, y>>
  <2>1. a \in Seq(CodeWord) /\ b \in Seq(CodeWord) /\ c \in Seq(CodeWord)
    OBVIOUS
  <2>2. Len(a) = 1 /\ Len(b) = 1 /\ Len(c) = 2 /\ a[1] = x /\ b[1] = y /\ c[1] = x /\ c[2] = y
    OBVIOUS
  <2> HIDE DEF a, b, c
  <2>3. /\ a \o b \in Seq(CodeWord) /\ Len(a \o b) = 2
        /\ (a \o b)[1] = x /\ (a \o b)[2] = y
    <3>1. /\ a \o b \in Seq(CodeWord) /\ Len(a \o b) = Len(a) + Len(b)
          /\ \A i \in 1..Len(a) : (a \o b)[i] = a[i]
          /\ \A i \in 1..Len(b) : (a \o b)[Len(a) + i] = b[i]
      BY <2>1, ConcatParts
    <3> QED
      BY <2>2, <3>1
  <2>4. \A i \in 1..2 : (a \o b)[i] = c[i]
    BY <2>2, <2>3
  <2>5. a \o b = c
    BY <2>1, <2>2, <2>3, <2>4, SeqEqual
  <2> QED
    BY <2>5 DEF a, b, c
<1> QED
  BY <1>1

\* The words of a coefficient that is not 0, behind r zeros.
CoefficientWords(t, r, v) == <<m_huff_codes["AC"][t][16 * r + Category(v)], Magnitude(v)>>

\* Its words are in the data from bit at on.
IsReadNext(data, at, t, r, coef, m, i, next) ==
  /\ at \in Nat /\ IsNextPlace(coef, m, i) /\ r \in 0..15 /\ IsPlace(next) /\ next + r = i
  /\ HoldsWords(data, at, CoefficientWords(t, r, coef[i]))

LEMMA CoefficientRead ==
  ASSUME NEW data \in Data, NEW t \in 1..2, NEW codes, IsCodeBook(codes, m_huff_codes["AC"][t]),
         NEW at, NEW coef, NEW m, NEW i, NEW r, NEW next,
         IsReadNext(data, at, t, r, coef, m, i, next)
  PROVE  ReadOn(data, codes, ReadUpTo(at, next, coef, m))
           = ReadUpTo(at + Bitcount(CoefficientWords(t, r, coef[i])), i + 1, coef, i)
<1> DEFINE v == coef[i]
           n == Category(v)
           x == 16 * r + n
           w == m_huff_codes["AC"][t][x]
           u == Magnitude(v)
           b == ReadUpTo(at, next, coef, m)
           words == CoefficientWords(t, r, v)
<1>0. /\ at \in Nat /\ IsNextPlace(coef, m, i) /\ r \in 0..15 /\ IsPlace(next) /\ next + r = i
      /\ HoldsWords(data, at, words)
  BY DEF IsReadNext
<1>1. n \in 1..10 /\ IsValue(v) /\ u \in CodeWord /\ i \in 1..63
  BY <1>0 DEF IsNextPlace
<1> HIDE DEF n
<1>2. x \div 16 = r /\ x % 16 = n /\ x # 0
  BY <1>0, <1>1, SymbolParts
<1>3. HasCode("AC", t, x)
  BY <1>0, <1>1, CodesThere
<1>4. words = <<w, u>>
  BY DEF CoefficientWords, n
<1> HIDE DEF x, u, words
<1>5. w \in CodeWord
  BY <1>3, CodedWordsAreWords DEF HasCode
<1> HIDE DEF w
<1>6. words = <<w>> \o <<u>> /\ <<w>> \in Words /\ <<u>> \in Words
  <2>1. <<w>> \in Words /\ <<u>> \in Words
    BY <1>1, <1>5, WordHeld
  <2>2. <<w>> \o <<u>> = <<w, u>>
    BY <1>1, <1>5, PairConcat
  <2> QED
    BY <1>4, <2>1, <2>2
<1>7. /\ HoldsWords(data, at, <<w>>) /\ HoldsWords(data, at + Bitcount(<<w>>), <<u>>)
      /\ Bitcount(words) = Bitcount(<<w>>) + Bitcount(<<u>>)
      /\ at + Bitcount(<<w>>) \in Nat
  BY <1>0, <1>6, WordsHeld
<1>8. ReadsSymbol(data, at, codes, x, w)
  BY <1>0, <1>3, <1>7, WordSymbol DEF w
<1> DEFINE k == w.size
<1>9. /\ SymbolAt(data, at, codes) = [symbol |-> x, size |-> k]
      /\ Bitcount(<<w>>) = k /\ k \in Nat
  BY <1>8 DEF ReadsSymbol
<1> HIDE DEF k
<1>10. Bitcount(<<u>>) = n /\ Holds(data, at + k, WordBits[u])
  <2>1. u.size = n
    BY DEF Magnitude, n, u
  <2> QED
    BY <1>1, <1>7, <1>9, <2>1, WordHeld
<1>11. SignedAt(data, at + k, n) = v
  <2>1. at + k \in Nat
    BY <1>0, <1>7, <1>9
  <2> HIDE DEF v
  <2> QED
    BY <1>1, <1>10, <2>1, SignedRead DEF n, u
<1>12. ~(next > 63) /\ Smaller(next + r, 63) = i /\ next + r + 1 = i + 1 /\ n # 0
  BY <1>0, <1>1 DEF Smaller, IsPlace
<1> DEFINE filled == [UpToPlace(coef, m) EXCEPT ![i] = v]
<1>13. filled = UpToPlace(coef, i)
  BY <1>0, PlaceFilled
<1> HIDE DEF v, filled
<1>14. ReadOn(data, codes, b) = ReadState(at + k + n, next + r + 1, filled)
  BY <1>2, <1>9, <1>11, <1>12, ReadValue DEF ReadUpTo, filled
<1>15. at + Bitcount(words) = at + k + n
  BY <1>0, <1>1, <1>7, <1>9, <1>10
<1>16. ReadOn(data, codes, b) = ReadUpTo(at + Bitcount(words), i + 1, coef, i)
  BY <1>12, <1>13, <1>14, <1>15 DEF ReadUpTo
<1> QED
  BY <1>16 DEF words, v

\* The words of 16 zeros each that stand before a coefficient.
Zeros(t, z) == [y \in 1..z |-> m_huff_codes["AC"][t][240]]

LEMMA ZerosGrow ==
  ASSUME NEW t \in 1..2
  PROVE  /\ Zeros(t, 0) = <<>> /\ <<m_huff_codes["AC"][t][240]>> \in Words
         /\ \A z \in Nat : /\ Zeros(t, z) \in Words
                           /\ Zeros(t, z + 1) = Zeros(t, z) \o <<m_huff_codes["AC"][t][240]>>
<1> DEFINE w == m_huff_codes["AC"][t][240]
<1>1. w \in CodeWord
  <2>1. HasCode("AC", t, 240)
    BY CodesThere
  <2> QED
    BY <2>1, CodedWordsAreWords DEF HasCode
<1>2. \A z \in Nat : Zeros(t, z) = [y \in 1..z |-> w]
  BY DEF Zeros
<1> HIDE DEF w
<1>3. \A z \in Nat : Zeros(t, z) \in Seq(CodeWord) /\ Len(Zeros(t, z)) = z
  BY <1>1, <1>2
<1>4. <<w>> \in Seq(CodeWord) /\ Len(<<w>>) = 1 /\ <<w>>[1] = w
  BY <1>1
<1>5. Zeros(t, 0) = <<>>
  BY <1>3
<1>6. ASSUME NEW z \in Nat
      PROVE  Zeros(t, z + 1) = Zeros(t, z) \o <<w>>
  <2> DEFINE a == Zeros(t, z)
             b == <<w>>
             c == Zeros(t, z + 1)
  <2>1. a \in Seq(CodeWord) /\ Len(a) = z /\ c \in Seq(CodeWord) /\ Len(c) = z + 1
    BY <1>3
  <2>2. (\A i \in 1..z : a[i] = w) /\ (\A i \in 1..(z + 1) : c[i] = w)
    BY <1>2
  <2>3. b \in Seq(CodeWord) /\ Len(b) = 1 /\ b[1] = w
    BY <1>4
  <2> HIDE DEF a, b, c
  <2>4. /\ a \o b \in Seq(CodeWord) /\ Len(a \o b) = z + 1
        /\ \A i \in 1..z : (a \o b)[i] = a[i]
        /\ (a \o b)[z + 1] = b[1]
    <3>1. /\ a \o b \in Seq(CodeWord) /\ Len(a \o b) = Len(a) + Len(b)
          /\ \A i \in 1..Len(a) : (a \o b)[i] = a[i]
          /\ \A i \in 1..Len(b) : (a \o b)[Len(a) + i] = b[i]
      <4>1. a \in Seq(CodeWord) /\ b \in Seq(CodeWord)
        BY <2>1, <2>3
      <4> QED
        BY <4>1, ConcatParts
    <3> QED
      BY <2>1, <2>3, <3>1
  <2>5. \A i \in 1..(z + 1) : (a \o b)[i] = c[i]
    BY <2>2, <2>3, <2>4
  <2>6. c = a \o b
    BY <2>1, <2>4, <2>5, SeqEqual
  <2> QED
    BY <2>6 DEF a, b, c
<1> QED
  BY <1>3, <1>4, <1>5, <1>6 DEF Words, w

LEMMA ZerosLoop ==
  ASSUME NEW data \in Data, NEW t \in 1..2, NEW codes, IsCodeBook(codes, m_huff_codes["AC"][t]),
         NEW after, NEW start, IsReadLoop(after, data, codes, start),
         NEW n \in Nat, NEW z \in Nat, n + z <= 63, NEW at \in Nat,
         NEW next \in Nat, next + 16 * z <= 63, NEW coef, NEW m,
         after[n] = ReadUpTo(at, next, coef, m), HoldsWords(data, at, Zeros(t, z))
  PROVE  after[n + z] = ReadUpTo(at + Bitcount(Zeros(t, z)), next + 16 * z, coef, m)
<1> DEFINE w == m_huff_codes["AC"][t][240]
           Held(y) == HoldsWords(data, at, Zeros(t, y))
           Got(y) == after[n + y] = ReadUpTo(at + Bitcount(Zeros(t, y)), next + 16 * y, coef, m)
           S == {y \in 0..z : Held(y) => Got(y)}
<1>1. Zeros(t, 0) = <<>> /\ <<w>> \in Words
  BY ZerosGrow
<1>2. 0 \in S
  <2>1. Bitcount(Zeros(t, 0)) = 0
    BY <1>1, NoWords
  <2>2. Got(0)
    <3> DEFINE c == Bitcount(Zeros(t, 0))
    <3>1. c = 0
      BY <2>1
    <3> HIDE DEF c
    <3>2. n + 0 = n /\ at + c = at /\ next + 16 * 0 = next
      BY <3>1
    <3> QED
      BY <3>2, Zenon DEF c
  <2> HIDE DEF Got, Held
  <2> QED
    BY <2>2
<1>3. ASSUME NEW y \in 1..z, y - 1 \in S
      PROVE  y \in S
  <2> DEFINE j == y - 1
             a == Zeros(t, j)
             k == at + Bitcount(a)
  <2>1. j \in Nat /\ j + 1 = y /\ n + y \in 1..63 /\ n + j \in Nat /\ (n + y) - 1 = n + j
    OBVIOUS
  <2>2. IsPlace(next + 16 * j) /\ (next + 16 * j) + 16 = next + 16 * y
    BY <2>1 DEF IsPlace
  <2>3. Zeros(t, y) = a \o <<w>> /\ a \in Words
    BY <2>1, ZerosGrow, ZenonT(40)
  <2>4. /\ k \in Nat /\ at + Bitcount(Zeros(t, y)) = k + Bitcount(<<w>>)
        /\ Held(y) => HoldsWords(data, at, a) /\ HoldsWords(data, k, <<w>>)
    <3> DEFINE b == <<w>>
    <3>1. b \in Words
      BY <1>1
    <3> HIDE DEF b
    <3>2. /\ Bitcount(a) \in Nat /\ Bitcount(b) \in Nat /\ k \in Nat
          /\ Bitcount(a \o b) = Bitcount(a) + Bitcount(b)
          /\ HoldsWords(data, at, a \o b) => HoldsWords(data, at, a) /\ HoldsWords(data, k, b)
      <4> HIDE DEF a
      <4> QED
        BY <2>3, <3>1, WordsHeld
    <3>3. Zeros(t, y) = a \o b
      BY <2>3 DEF b
    <3> HIDE DEF a
    <3>4. at + Bitcount(a \o b) = k + Bitcount(b)
      BY <3>2
    <3> QED
      BY <3>2, <3>3, <3>4 DEF b
  <2>5. SUFFICES ASSUME Held(y)
                 PROVE  Got(y)
    <3> HIDE DEF Held, Got
    <3> QED
      OBVIOUS
  <2>6. after[n + j] = ReadUpTo(k, next + 16 * j, coef, m)
    BY <1>3, <2>4, <2>5
  <2>7. after[n + y] = ReadOn(data, codes, after[n + j])
    <3>1. after[n + y] = ReadOn(data, codes, after[(n + y) - 1])
      BY <2>1 DEF IsReadLoop
    <3> QED
      BY <2>1, <3>1
  <2> HIDE DEF a, k, Held
  <2>8. ReadOn(data, codes, ReadUpTo(k, next + 16 * j, coef, m))
          = ReadUpTo(k + Bitcount(<<w>>), (next + 16 * j) + 16, coef, m)
    <3> DEFINE p == next + 16 * j
    <3>1. IsPlace(p) /\ HoldsWords(data, k, <<w>>) /\ k \in Nat
      BY <2>2, <2>4, <2>5
    <3> HIDE DEF p
    <3>2. ReadOn(data, codes, ReadUpTo(k, p, coef, m))
            = ReadUpTo(k + Bitcount(<<w>>), p + 16, coef, m)
      BY <3>1, ZerosRead
    <3> QED
      BY <3>2 DEF p
  <2> HIDE DEF w
  <2> QED
    BY <2>2, <2>4, <2>6, <2>7, <2>8
<1> HIDE DEF S, Held, Got
<1>4. z \in S
  <2>1. \A y \in 0..z : y \in S
    BY <1>2, <1>3, InductionUpTo
  <2>2. z \in 0..z
    OBVIOUS
  <2> QED
    BY <2>1, <2>2
<1> QED
  BY <1>4 DEF S, Held, Got

\* The turns of the encoder's loop and of the decoder's: what is coded after
\* coefficient i is read in no more than as many turns.
IsCodedUpTo(s, i, coef) ==
  /\ s.words \in Words /\ s.run \in Nat /\ s.run <= i
  /\ \A j \in (i - s.run + 1)..i : coef[j] = 0
IsReadUpTo(after, data, k, s, i, coef) ==
  HoldsWords(data, k, s.words) =>
    \E n \in 0..(i - s.run) :
      after[n] = ReadUpTo(k + Bitcount(s.words), i - s.run + 1, coef, i - s.run)

LEMMA CoefficientPlace ==
  ASSUME NEW coef, IsBlock(coef), NEW i \in 1..63, coef[i] # 0, NEW r \in Nat, r <= i - 1,
         \A j \in ((i - 1) - r + 1)..(i - 1) : coef[j] = 0
  PROVE  IsNextPlace(coef, (i - 1) - r, i)
<1> DEFINE v == coef[i]
           m == (i - 1) - r
<1>1. Between(v, -1023, 1023)
  <2>1. i \in 0..63 /\ i # 0
    OBVIOUS
  <2> QED
    BY <2>1, SMT DEF IsBlock, IsCoefficient
<1>2. /\ v \in Int /\ -(2^10) < v /\ v < 2^10 /\ -(2^15) < v /\ v < 2^15 /\ IsValue(v) /\ v # 0
  BY <1>1, SMT DEF Between, IsValue
<1>3. m \in Nat /\ m < i /\ \A j \in (m + 1)..(i - 1) : coef[j] = 0
  OBVIOUS
<1> HIDE DEF v, m
<1>4. Category(v) \in 1..10
  <2> DEFINE c == Category(v)
  <2>1. c \in 0..10 /\ (c = 0 <=> v = 0)
    BY <1>2, CategoryOf
  <2> HIDE DEF c
  <2>2. c \in 1..10
    BY <1>2, <2>1
  <2> QED
    BY <2>2 DEF c
<1>5. Magnitude(v) \in CodeWord
  BY <1>2, MagnitudeOf
<1> QED
  BY <1>2, <1>3, <1>4, <1>5 DEF IsNextPlace, v, m

LEMMA ZeroReadOn ==
  ASSUME NEW i \in 1..63, NEW coef, coef[i] = 0, NEW s, IsCodedUpTo(s, i - 1, coef),
         NEW after, NEW data, NEW k, IsReadUpTo(after, data, k, s, i - 1, coef),
         NEW next, next = [words |-> s.words, run |-> s.run + 1]
  PROVE  IsCodedUpTo(next, i, coef) /\ IsReadUpTo(after, data, k, next, i, coef)
<1> DEFINE r == s.run
           q == next.run
<1>1. next.words = s.words /\ q = r + 1
  OBVIOUS
<1>2. r \in Nat /\ r <= i - 1 /\ s.words \in Words
  BY DEF IsCodedUpTo
<1>3. \A j \in ((i - 1) - r + 1)..(i - 1) : coef[j] = 0
  BY DEF IsCodedUpTo
<1> HIDE DEF r, q
<1>4. i - q = (i - 1) - r /\ q \in Nat /\ q <= i
  BY <1>1, <1>2
<1>5. \A j \in (i - q + 1)..i : coef[j] = 0
  <2>1. ASSUME NEW j \in (i - q + 1)..i
        PROVE  j = i \/ j \in ((i - 1) - r + 1)..(i - 1)
    BY <1>2, <1>4
  <2> QED
    BY <1>3, <2>1
<1>6. IsCodedUpTo(next, i, coef)
  BY <1>1, <1>2, <1>4, <1>5 DEF IsCodedUpTo, q
<1>7. IsReadUpTo(after, data, k, next, i, coef)
  <2>1. HoldsWords(data, k, s.words) =>
          \E n \in 0..((i - 1) - r) :
            after[n] = ReadUpTo(k + Bitcount(s.words), (i - 1) - r + 1, coef, (i - 1) - r)
    BY DEF IsReadUpTo, r
  <2>2. HoldsWords(data, k, next.words) =>
          \E n \in 0..(i - q) :
            after[n] = ReadUpTo(k + Bitcount(next.words), i - q + 1, coef, i - q)
    BY <1>1, <1>4, <2>1, Zenon
  <2> QED
    BY <2>2 DEF IsReadUpTo, q
<1> QED
  BY <1>6, <1>7

\* Sixteen at a time and the rest.
LEMMA RunParts ==
  ASSUME NEW r \in Nat
  PROVE  r \div 16 \in Nat /\ r % 16 \in 0..15 /\ r = 16 * (r \div 16) + (r % 16)
         /\ 16 * (r \div 16) <= r /\ r \div 16 <= r
OBVIOUS

LEMMA CoefficientWordsAre ==
  ASSUME NEW t \in 1..2, NEW e \in 0..15, NEW coef, NEW m, NEW i, IsNextPlace(coef, m, i)
  PROVE  CoefficientWords(t, e, coef[i]) \in Words
<1> DEFINE v == coef[i]
           w == m_huff_codes["AC"][t][16 * e + Category(v)]
           u == Magnitude(v)
<1>1. Category(v) \in 1..10 /\ u \in CodeWord
  BY DEF IsNextPlace
<1>2. HasCode("AC", t, 16 * e + Category(v))
  BY <1>1, CodesThere
<1>3. w \in CodeWord
  BY <1>2, CodedWordsAreWords DEF HasCode
<1>4. CoefficientWords(t, e, v) = <<w, u>>
  BY DEF CoefficientWords
<1> HIDE DEF v, w, u
<1>5. <<w, u>> \in Words
  BY <1>1, <1>3 DEF Words
<1> QED
  BY <1>4, <1>5 DEF v

LEMMA NoneBetween == \A i \in 1..63, q \in {0} : q \in Nat /\ q <= i /\ (i - q + 1)..i = {}
OBVIOUS

LEMMA ValueReadOn ==
  ASSUME NEW data \in Data, NEW t \in 1..2, NEW codes, IsCodeBook(codes, m_huff_codes["AC"][t]),
         NEW after, NEW start, IsReadLoop(after, data, codes, start), NEW k \in Nat,
         NEW i \in 1..63, NEW coef, IsBlock(coef), coef[i] # 0,
         NEW s, IsCodedUpTo(s, i - 1, coef), IsReadUpTo(after, data, k, s, i - 1, coef),
         NEW next, next = [words |-> s.words \o Zeros(t, s.run \div 16)
                                     \o CoefficientWords(t, s.run % 16, coef[i]), run |-> 0]
  PROVE  IsCodedUpTo(next, i, coef) /\ IsReadUpTo(after, data, k, next, i, coef)
<1> DEFINE r == s.run
           W == s.words
           m == (i - 1) - r
           z == r \div 16
           e == r % 16
           Z == Zeros(t, z)
           C == CoefficientWords(t, e, coef[i])
           at == k + Bitcount(W)
           at2 == at + Bitcount(Z)
<1>1. r \in Nat /\ r <= i - 1 /\ W \in Words /\ \A j \in ((i - 1) - r + 1)..(i - 1) : coef[j] = 0
  BY DEF IsCodedUpTo
<1>2. next.words = W \o Z \o C /\ next.run = 0
  OBVIOUS
<1>3. HoldsWords(data, k, W) =>
        \E n \in 0..m : after[n] = ReadUpTo(at, m + 1, coef, m)
  BY DEF IsReadUpTo
<1> HIDE DEF r, W
<1>4. IsNextPlace(coef, m, i)
  BY <1>1, CoefficientPlace
<1>5. z \in Nat /\ e \in 0..15 /\ 16 * z + e = r /\ z <= r
  BY <1>1, RunParts
<1> HIDE DEF z, e
<1>6. /\ m \in Nat /\ (m + 1) + 16 * z \in Nat /\ (m + 1) + 16 * z <= 63
      /\ ((m + 1) + 16 * z) + e = i /\ m + 1 \in Nat
      /\ \A n \in 0..m : n \in Nat /\ n + z <= 63 /\ n + z + 1 \in 1..63 /\ n + z + 1 \in 0..i
  BY <1>1, <1>5
<1>7. Z \in Words /\ C \in Words
  BY <1>4, <1>5, ZerosGrow, CoefficientWordsAre
<1> HIDE DEF Z, C, m
<1>8. /\ W \o Z \o C \in Words /\ at \in Nat /\ at2 \in Nat
      /\ HoldsWords(data, k, next.words) =>
           /\ HoldsWords(data, k, W) /\ HoldsWords(data, at, Z) /\ HoldsWords(data, at2, C)
      /\ k + Bitcount(next.words) = at2 + Bitcount(C)
  <2> DEFINE a == W \o Z
  <2>1. /\ a \in Words /\ Bitcount(W) \in Nat /\ Bitcount(Z) \in Nat /\ at \in Nat
        /\ Bitcount(a) = Bitcount(W) + Bitcount(Z)
        /\ HoldsWords(data, k, a) => HoldsWords(data, k, W) /\ HoldsWords(data, at, Z)
    BY <1>1, <1>7, WordsHeld
  <2> HIDE DEF a
  <2>2. /\ a \o C \in Words /\ Bitcount(C) \in Nat
        /\ Bitcount(a \o C) = Bitcount(a) + Bitcount(C)
        /\ HoldsWords(data, k, a \o C) =>
             HoldsWords(data, k, a) /\ HoldsWords(data, k + Bitcount(a), C)
    BY <1>7, <2>1, WordsHeld
  <2>3. k + Bitcount(a) = at2 /\ at2 \in Nat
    BY <2>1
  <2>4. k + Bitcount(a \o C) = at2 + Bitcount(C)
    BY <2>1, <2>2
  <2>5. next.words = a \o C
    BY <1>2 DEF a
  <2> HIDE DEF at, at2
  <2>6. a \o C = W \o Z \o C
    BY DEF a
  <2> QED
    BY <2>1, <2>2, <2>3, <2>4, <2>5, <2>6, Zenon
<1> HIDE DEF at, at2
<1>9. IsCodedUpTo(next, i, coef)
  <2> DEFINE q == next.run
             words == next.words
  <2>1. q = 0 /\ words \in Words
    BY <1>2, <1>8
  <2> HIDE DEF q, words
  <2>2. q \in Nat /\ q <= i /\ \A j \in (i - q + 1)..i : coef[j] = 0
    BY <2>1, NoneBetween
  <2> QED
    BY <2>1, <2>2 DEF IsCodedUpTo, q, words
<1>10. ASSUME HoldsWords(data, k, next.words)
       PROVE  \E n \in 0..i : after[n] = ReadUpTo(k + Bitcount(next.words), i + 1, coef, i)
  <2>1. HoldsWords(data, k, W) /\ HoldsWords(data, at, Z) /\ HoldsWords(data, at2, C)
    BY <1>8, <1>10
  <2>2. PICK n \in 0..m : after[n] = ReadUpTo(at, m + 1, coef, m)
    BY <1>3, <2>1
  <2>3. n \in Nat /\ n + z <= 63 /\ n + z + 1 \in 1..63 /\ n + z + 1 \in 0..i
    BY <1>6
  <2> DEFINE p == (m + 1) + 16 * z
  <2>4. after[n + z] = ReadUpTo(at2, p, coef, m)
    <3> DEFINE q == m + 1
    <3>1. q \in Nat /\ q + 16 * z <= 63 /\ after[n] = ReadUpTo(at, q, coef, m)
      BY <1>6, <2>2
    <3> HIDE DEF q
    <3>2. after[n + z] = ReadUpTo(at + Bitcount(Zeros(t, z)), q + 16 * z, coef, m)
      BY <1>5, <1>8, <2>1, <2>3, <3>1, ZerosLoop, SMTT(30) DEF Z
    <3> QED
      BY <3>2 DEF q, at2, Z
  <2>5. after[n + z + 1] = ReadOn(data, codes, after[n + z])
    <3> DEFINE j == n + z + 1
    <3>1. j \in 1..63 /\ j - 1 = n + z
      BY <1>5, <2>3
    <3> HIDE DEF j
    <3>2. after[j] = ReadOn(data, codes, after[j - 1])
      BY <3>1 DEF IsReadLoop
    <3> QED
      BY <3>1, <3>2 DEF j
  <2>6. IsPlace(p) /\ p + e = i
    BY <1>6 DEF IsPlace
  <2> HIDE DEF p
  <2>7. ReadOn(data, codes, ReadUpTo(at2, p, coef, m))
          = ReadUpTo(at2 + Bitcount(C), i + 1, coef, i)
    <3>1. HoldsWords(data, at2, CoefficientWords(t, e, coef[i]))
      BY <2>1 DEF C
    <3>2. ReadOn(data, codes, ReadUpTo(at2, p, coef, m))
            = ReadUpTo(at2 + Bitcount(CoefficientWords(t, e, coef[i])), i + 1, coef, i)
      <4>1. IsReadNext(data, at2, t, e, coef, m, i, p)
        BY <1>4, <1>5, <1>8, <2>6, <3>1 DEF IsReadNext
      <4> QED
        BY <4>1, CoefficientRead
    <3> QED
      BY <3>2 DEF C
  <2>8. after[n + z + 1] = ReadUpTo(k + Bitcount(next.words), i + 1, coef, i)
    BY <1>8, <2>4, <2>5, <2>7
  <2> QED
    BY <2>3, <2>8
<1>11. IsReadUpTo(after, data, k, next, i, coef)
  <2>1. i - next.run = i
    BY <1>2
  <2> QED
    BY <1>10, <2>1 DEF IsReadUpTo
<1> QED
  BY <1>9, <1>11

\* Turn by turn.
LEMMA ReadUpToCoded ==
  ASSUME NEW data \in Data, NEW t \in 1..2, NEW codes, IsCodeBook(codes, m_huff_codes["AC"][t]),
         NEW coef, IsBlock(coef), NEW s, IsPassTwo(s, t, coef), NEW k \in Nat,
         NEW after, IsReadLoop(after, data, codes, ReadUpTo(k, 1, coef, 0))
  PROVE  IsCodedUpTo(s[63], 63, coef) /\ IsReadUpTo(after, data, k, s[63], 63, coef)
<1> DEFINE S == {i \in 0..63 : /\ IsCodedUpTo(s[i], i, coef)
                               /\ IsReadUpTo(after, data, k, s[i], i, coef)}
           start == ReadUpTo(k, 1, coef, 0)
<1>1. 0 \in S
  <2> DEFINE s0 == s[0]
             words == s0.words
             r == s0.run
  <2>1. words = <<>> /\ r = 0
    BY DEF IsPassTwo
  <2>2. words \in Words /\ k + Bitcount(words) = k
    BY <2>1, NoWords
  <2>3. after[0] = start
    BY DEF IsReadLoop
  <2> HIDE DEF words, r, start
  <2>4. /\ 0 - r = 0 /\ r \in Nat /\ r <= 0 /\ 0 - r + 1 = 1
        /\ (0 - r + 1)..0 = {} /\ 0 \in 0..(0 - r)
    BY <2>1
  <2>5. IsCodedUpTo(s0, 0, coef)
    BY <2>2, <2>4 DEF IsCodedUpTo, words, r
  <2>6. after[0] = ReadUpTo(k + Bitcount(words), 0 - r + 1, coef, 0 - r)
    BY <2>2, <2>3, <2>4 DEF start
  <2>7. IsReadUpTo(after, data, k, s0, 0, coef)
    BY <2>4, <2>6, Zenon DEF IsReadUpTo, words, r
  <2>8. 0 \in 0..63
    OBVIOUS
  <2> HIDE DEF s0
  <2> QED
    BY <2>5, <2>7, <2>8 DEF s0
<1>2. ASSUME NEW i \in 1..63, i - 1 \in S
      PROVE  i \in S
  <2> DEFINE a == s[i - 1]
             next == s[i]
             codes2 == m_huff_codes["AC"][t]
             v == coef[i]
  <2>1. i \in 0..63 /\ i - 1 \in 0..63
    OBVIOUS
  <2>2. IsCodedUpTo(a, i - 1, coef) /\ IsReadUpTo(after, data, k, a, i - 1, coef)
    BY <1>2
  <2>3. next = code_coefficient(codes2, a, v)
    BY DEF IsPassTwo
  <2>4. next = IF v = 0 THEN [words |-> a.words, run |-> a.run + 1]
               ELSE [words |-> a.words \o Zeros(t, a.run \div 16)
                               \o CoefficientWords(t, a.run % 16, v), run |-> 0]
    BY <2>3, Zenon DEF code_coefficient, Zeros, CoefficientWords
  <2> HIDE DEF a, next, codes2, S
  <2>5. IsCodedUpTo(next, i, coef) /\ IsReadUpTo(after, data, k, next, i, coef)
    <3>1. CASE v = 0
      <4>1. next = [words |-> a.words, run |-> a.run + 1]
        BY <2>4, <3>1
      <4> QED
        BY <2>2, <3>1, <4>1, ZeroReadOn
    <3>2. CASE v # 0
      <4>1. next = [words |-> a.words \o Zeros(t, a.run \div 16)
                               \o CoefficientWords(t, a.run % 16, coef[i]), run |-> 0]
        BY <2>4, <3>2
      <4> QED
        BY <2>2, <3>2, <4>1, ValueReadOn, ZenonT(40)
    <3> QED
      BY <3>1, <3>2
  <2> QED
    BY <2>1, <2>5 DEF S, next
<1> HIDE DEF S
<1>3. 63 \in S
  <2>1. 63 \in Nat /\ 63 \in 0..63
    OBVIOUS
  <2>2. \A i \in 0..63 : i \in S
    BY <1>1, <1>2, <2>1, InductionUpTo
  <2> QED
    BY <2>1, <2>2
<1> QED
  BY <1>3 DEF S

\* The first words of a block are its difference, and where they end.
DifferenceWords(t, d) == <<m_huff_codes["DC"][t][Category(d)], Magnitude(d)>>

LEMMA StartOf ==
  ASSUME NEW data, NEW k, NEW codes, NEW x, NEW n,
         SymbolAt(data, k, codes) = [symbol |-> x, size |-> n],
         NEW last, NEW coef, coef[0] = last + SignedAt(data, k + n, x)
  PROVE  BlockStart(data, k, codes, last) = ReadUpTo(k + n + x, 1, coef, 0)
<1>1. \A i \in 0..63 : i = 0 <=> i <= 0
  OBVIOUS
<1> DEFINE d == SignedAt(data, k + n, x)
<1>2. [i \in 0..63 |-> IF i = 0 THEN last + d ELSE 0] = UpToPlace(coef, 0)
  BY <1>1 DEF UpToPlace
<1>3. BlockStart(data, k, codes, last)
        = [at |-> k + n + x, next |-> 1, coef |-> [i \in 0..63 |-> IF i = 0 THEN last + d ELSE 0]]
  BY DEF BlockStart
<1> QED
  BY <1>2, <1>3 DEF ReadUpTo, ReadState

LEMMA StartRead ==
  ASSUME NEW data \in Data, NEW t \in 1..2, NEW codes, IsCodeBook(codes, m_huff_codes["DC"][t]),
         NEW k \in Nat, NEW coef, IsBlock(coef), NEW last, IsCoefficient(last, 0),
         HoldsWords(data, k, DifferenceWords(t, coef[0] - last))
  PROVE  /\ DifferenceWords(t, coef[0] - last) \in Words
         /\ Bitcount(DifferenceWords(t, coef[0] - last)) \in Nat
         /\ Bitcount(DifferenceWords(t, coef[0] - last)) >= 1
         /\ BlockStart(data, k, codes, last)
              = ReadUpTo(k + Bitcount(DifferenceWords(t, coef[0] - last)), 1, coef, 0)
<1> DEFINE d == coef[0] - last
           x == Category(d)
           w == m_huff_codes["DC"][t][x]
           u == Magnitude(d)
           words == DifferenceWords(t, d)
<1>1. IsValue(d) /\ x \in 0..11 /\ u \in CodeWord
  BY DifferenceCoded DEF IsValue
<1>2. d \in Int /\ last \in Int /\ coef[0] = last + d
  <2>1. IsCoefficient(coef[0], 0)
    BY DEF IsBlock
  <2> QED
    BY <2>1, SMT DEF IsCoefficient, Between
<1>3. u.size = x /\ words = <<w, u>> /\ HoldsWords(data, k, words)
  BY DEF Magnitude, DifferenceWords
<1> HIDE DEF x
<1>4. HasCode("DC", t, x)
  BY <1>1, CodesThere
<1> HIDE DEF words, u
<1>5. w \in CodeWord
  BY <1>4, CodedWordsAreWords DEF HasCode
<1> HIDE DEF w, d
<1>6. words = <<w>> \o <<u>> /\ <<w>> \in Words /\ <<u>> \in Words
  <2>1. <<w>> \in Words /\ <<u>> \in Words
    BY <1>1, <1>5, WordHeld
  <2>2. <<w>> \o <<u>> = <<w, u>>
    BY <1>1, <1>5, PairConcat
  <2> QED
    BY <1>3, <2>1, <2>2
<1>7. /\ HoldsWords(data, k, <<w>>) /\ HoldsWords(data, k + Bitcount(<<w>>), <<u>>)
      /\ Bitcount(words) = Bitcount(<<w>>) + Bitcount(<<u>>) /\ words \in Words
      /\ k + Bitcount(<<w>>) \in Nat
  <2> DEFINE a == <<w>>
             b == <<u>>
  <2>1. a \in Words /\ b \in Words /\ words = a \o b /\ HoldsWords(data, k, words)
    BY <1>3, <1>6
  <2> HIDE DEF a, b
  <2>2. /\ HoldsWords(data, k, a) /\ HoldsWords(data, k + Bitcount(a), b)
        /\ Bitcount(words) = Bitcount(a) + Bitcount(b) /\ words \in Words
        /\ k + Bitcount(a) \in Nat
    BY <2>1, WordsHeld
  <2> QED
    BY <2>2 DEF a, b
<1>8. ReadsSymbol(data, k, codes, x, w)
  BY <1>4, <1>7, WordSymbol DEF w
<1> DEFINE n == w.size
<1>9. /\ SymbolAt(data, k, codes) = [symbol |-> x, size |-> n]
      /\ Bitcount(<<w>>) = n /\ n \in Nat /\ n >= 1
  BY <1>8 DEF ReadsSymbol
<1> HIDE DEF n
<1>10. Bitcount(<<u>>) = x /\ Holds(data, k + n, WordBits[u])
  BY <1>1, <1>3, <1>7, <1>9, WordHeld
<1>11. SignedAt(data, k + n, x) = d
  <2>1. k + n \in Nat
    BY <1>9
  <2> QED
    BY <1>1, <1>10, <2>1, SignedRead DEF u, x
<1>12. /\ x \in Nat /\ k + n + x = k + Bitcount(words)
       /\ Bitcount(words) \in Nat /\ Bitcount(words) >= 1
  BY <1>1, <1>7, <1>9, <1>10
<1>13. BlockStart(data, k, codes, last) = ReadUpTo(k + n + x, 1, coef, 0)
  <2>1. coef[0] = last + SignedAt(data, k + n, x)
    BY <1>2, <1>11
  <2> QED
    BY <1>9, <2>1, StartOf
<1>14. BlockStart(data, k, codes, last) = ReadUpTo(k + Bitcount(words), 1, coef, 0)
  BY <1>12, <1>13
<1> QED
  BY <1>7, <1>12, <1>14 DEF words, d

LEMMA IsReadingUpTo ==
  ASSUME NEW coef, IsBlock(coef), NEW at \in Nat, NEW next \in Nat, NEW m
  PROVE  ReadUpTo(at, next, coef, m) \in Reading
<1>1. \A j \in 0..63 : coef[j] \in Int
  BY SMT DEF IsBlock, IsCoefficient, Between
<1>2. UpToPlace(coef, m) \in [0..63 -> Int]
  BY <1>1 DEF UpToPlace
<1> QED
  BY <1>2 DEF ReadUpTo, ReadState, Reading

\* The coefficients of a block, all of them.
AllPlaces(coef) == [i \in 0..63 |-> coef[i]]

LEMMA RestIsZero ==
  ASSUME NEW coef, NEW r \in 0..63, \A j \in (63 - r + 1)..63 : coef[j] = 0
  PROVE  UpToPlace(coef, 63 - r) = AllPlaces(coef)
<1>1. ASSUME NEW i \in 0..63
      PROVE  (IF i <= 63 - r THEN coef[i] ELSE 0) = coef[i]
  <2>1. CASE i <= 63 - r
    BY <2>1
  <2>2. CASE ~(i <= 63 - r)
    <3>1. i \in (63 - r + 1)..63
      BY <2>2
    <3> QED
      BY <2>2, <3>1
  <2> QED
    BY <2>1, <2>2
<1> QED
  BY <1>1 DEF UpToPlace, AllPlaces

\* The last word of a block, unless its last coefficient is not 0.
EndWords(t, r) == IF r = 0 THEN <<>> ELSE <<m_huff_codes["AC"][t][0]>>

\* Only zeros are left, r of them.
IsAtEnd(after, n, at, coef, r) ==
  /\ at \in Nat /\ r \in 0..63 /\ n \in 0..(63 - r)
  /\ \A j \in (63 - r + 1)..63 : coef[j] = 0
  /\ after[n] = ReadUpTo(at, 63 - r + 1, coef, 63 - r)

LEMMA EndReadBack ==
  ASSUME NEW data \in Data, NEW t \in 1..2, NEW codes, IsCodeBook(codes, m_huff_codes["AC"][t]),
         NEW after, NEW start, IsReadLoop(after, data, codes, start),
         NEW coef, NEW r, NEW n, NEW at, IsAtEnd(after, n, at, coef, r),
         HoldsWords(data, at, EndWords(t, r))
  PROVE  /\ EndWords(t, r) \in Words
         /\ after[63].at = at + Bitcount(EndWords(t, r)) /\ after[63].coef = AllPlaces(coef)
<1>0. /\ at \in Nat /\ r \in 0..63 /\ n \in 0..(63 - r)
      /\ after[n] = ReadUpTo(at, 63 - r + 1, coef, 63 - r)
  BY DEF IsAtEnd
<1>1. UpToPlace(coef, 63 - r) = AllPlaces(coef)
  BY RestIsZero DEF IsAtEnd
<1>2. CASE r = 0
  <2>1. EndWords(t, r) = <<>> /\ EndWords(t, r) \in Words /\ Bitcount(EndWords(t, r)) = 0
    BY <1>2, NoWords DEF EndWords
  <2>2. n \in 0..63 /\ 63 - r + 1 > 63 /\ at + 0 = at
    BY <1>0, <1>2
  <2> DEFINE p == 63 - r + 1
             m == 63 - r
  <2>3. /\ after[n] = ReadUpTo(at, p, coef, m) /\ p > 63 /\ UpToPlace(coef, m) = AllPlaces(coef)
    BY <1>0, <1>1, <2>2
  <2> HIDE DEF p, m
  <2>4. after[n].at = at /\ after[n].next = p /\ after[n].coef = AllPlaces(coef)
    BY <2>3 DEF ReadUpTo, ReadState
  <2>5. after[63] = after[n]
    <3>1. after[n].next > 63
      BY <2>3, <2>4
    <3> QED
      BY <2>2, <3>1, ReadingStays
  <2> QED
    BY <2>1, <2>2, <2>4, <2>5
<1>3. CASE r # 0
  <2> DEFINE w == m_huff_codes["AC"][t][0]
             p == 63 - r + 1
             m == 63 - r
             b == ReadUpTo(at + Bitcount(<<w>>), 64, coef, m)
  <2>1. EndWords(t, r) = <<w>>
    BY <1>3 DEF EndWords
  <2>2. <<w>> \in Words
    <3>1. HasCode("AC", t, 0)
      BY CodesThere
    <3>2. w \in CodeWord
      BY <3>1, CodedWordsAreWords DEF HasCode
    <3> HIDE DEF w
    <3> QED
      BY <3>2, WordHeld
  <2>3. IsPlace(p) /\ n + 1 \in 1..63 /\ n + 1 \in 0..63 /\ (n + 1) - 1 = n
    BY <1>0, <1>3 DEF IsPlace
  <2>4. after[n] = ReadUpTo(at, p, coef, m) /\ UpToPlace(coef, m) = AllPlaces(coef)
    BY <1>0, <1>1
  <2>5. HoldsWords(data, at, <<w>>)
    BY <2>1
  <2> HIDE DEF p, m
  <2>6. ReadOn(data, codes, ReadUpTo(at, p, coef, m)) = b
    BY <1>0, <2>3, <2>5, EndRead
  <2> DEFINE j == n + 1
  <2>7. j \in 1..63 /\ j \in 0..63 /\ j - 1 = n
    BY <2>3
  <2> HIDE DEF j, b
  <2>8. after[j] = b
    <3>1. after[j] = ReadOn(data, codes, after[j - 1])
      BY <2>7 DEF IsReadLoop
    <3> QED
      BY <2>4, <2>6, <2>7, <3>1
  <2> HIDE DEF w
  <2>9. b.at = at + Bitcount(<<w>>) /\ b.next = 64 /\ b.coef = AllPlaces(coef)
    BY <2>4 DEF b, ReadUpTo, ReadState
  <2>10. after[63] = after[j]
    <3>1. after[j].next > 63
      BY <2>8, <2>9
    <3> QED
      BY <2>7, <3>1, ReadingStays
  <2> QED
    BY <2>1, <2>2, <2>8, <2>9, <2>10
<1> QED
  BY <1>2, <1>3

(* Where the words of a block have been written a decoder reads its            *)
(* coefficients back, and goes on behind them: code_coefficients_pass_two and  *)
(* put_bits in jpge.cpp lose nothing, whatever the coefficients are.           *)
THEOREM BlockReadBack ==
  ASSUME NEW data \in Data, NEW t \in 1..2,
         NEW dcCodes, IsCodeBook(dcCodes, m_huff_codes["DC"][t]),
         NEW acCodes, IsCodeBook(acCodes, m_huff_codes["AC"][t]),
         NEW k \in Nat, NEW coef, IsBlock(coef), NEW last, IsCoefficient(last, 0),
         HoldsWords(data, k, code_coefficients_pass_two(t, coef, last))
  PROVE  LET block == BlockAt(data, k, dcCodes, acCodes, last)
             bits == Bitcount(code_coefficients_pass_two(t, coef, last))
         IN  bits \in Nat \ {0} /\ block.at = k + bits /\ block.coef = AllPlaces(coef)
<1> DEFINE words == code_coefficients_pass_two(t, coef, last)
           block == BlockAt(data, k, dcCodes, acCodes, last)
           d == coef[0] - last
           D == DifferenceWords(t, d)
           start == ReadUpTo(k + Bitcount(D), 1, coef, 0)
<1>1. PICK s : IsPassTwo(s, t, coef) /\ words = WordsOfBlock(s, t, d)
  BY PassTwoLoop
<1> DEFINE r == s[63].run
           W == s[63].words
           E == EndWords(t, r)
           at == k + Bitcount(D)
           end == at + Bitcount(W)
<1>2. words = D \o W \o E
  BY <1>1 DEF WordsOfBlock, DifferenceWords, EndWords
<1>3. W \in Words
  <2>1. s[63] \in Coding
    BY <1>1 DEF IsPassTwo
  <2> QED
    BY <2>1, CodedWordsAreWords DEF Coding
<1>4. D \in Words /\ E \in Words
  <2>1. m_huff_codes["DC"][t][Category(d)] \in CodeWord /\ Magnitude(d) \in CodeWord
    BY DifferenceCoded, CodedWordsAreWords
  <2>2. m_huff_codes["AC"][t][0] \in CodeWord
    BY EndCoded, CodedWordsAreWords
  <2>3. D \in Words
    <3> DEFINE w == m_huff_codes["DC"][t][Category(d)]
               u == Magnitude(d)
    <3>1. D = <<w, u>>
      BY DEF DifferenceWords
    <3> HIDE DEF w, u
    <3>2. w \in CodeWord /\ u \in CodeWord
      BY <2>1 DEF w, u
    <3>3. <<w, u>> \in Words
      BY <3>2 DEF Words
    <3> QED
      BY <3>1, <3>3, Zenon
  <2> HIDE DEF r
  <2>4. E \in Words
    BY <2>2, NoWords, WordHeld DEF EndWords
  <2> QED
    BY <2>3, <2>4
<1>5. HoldsWords(data, k, words)
  OBVIOUS
<1> HIDE DEF words, D, W, E, at, end, d
<1>6. /\ Bitcount(D) \in Nat /\ Bitcount(W) \in Nat /\ Bitcount(E) \in Nat
      /\ at \in Nat /\ end \in Nat
      /\ Bitcount(words) = Bitcount(D) + Bitcount(W) + Bitcount(E)
      /\ HoldsWords(data, k, D) /\ HoldsWords(data, at, W) /\ HoldsWords(data, end, E)
  <2> DEFINE a == D \o W
  <2>1. /\ a \in Words /\ Bitcount(D) \in Nat /\ Bitcount(W) \in Nat
        /\ Bitcount(a) = Bitcount(D) + Bitcount(W) /\ k + Bitcount(D) \in Nat
        /\ HoldsWords(data, k, a) =>
             HoldsWords(data, k, D) /\ HoldsWords(data, k + Bitcount(D), W)
    BY <1>3, <1>4, WordsHeld
  <2>2. words = a \o E
    BY <1>2
  <2> HIDE DEF a
  <2>3. /\ Bitcount(E) \in Nat /\ Bitcount(words) = Bitcount(a) + Bitcount(E)
        /\ HoldsWords(data, k, a) /\ HoldsWords(data, k + Bitcount(a), E)
    BY <1>4, <1>5, <2>1, <2>2, WordsHeld
  <2>4. k + Bitcount(a) = end /\ end \in Nat /\ at \in Nat
    BY <2>1 DEF end, at
  <2> QED
    BY <2>1, <2>3, <2>4 DEF at
<1>7. /\ Bitcount(D) >= 1 /\ BlockStart(data, k, dcCodes, last) = start
      /\ start = ReadUpTo(at, 1, coef, 0)
  <2>1. HoldsWords(data, k, DifferenceWords(t, coef[0] - last))
    BY <1>6 DEF D, d
  <2> QED
    BY <2>1, StartRead DEF D, d, at
<1> HIDE DEF start
<1>8. PICK after : IsReadLoop(after, data, acCodes, start) /\ block = after[63]
  <2>1. start \in Reading
    BY <1>6, <1>7, IsReadingUpTo
  <2> QED
    BY <1>7, <2>1, ReadLoop
<1> HIDE DEF block
<1>9. IsCodedUpTo(s[63], 63, coef) /\ IsReadUpTo(after, data, at, s[63], 63, coef)
  BY <1>1, <1>6, <1>7, <1>8, ReadUpToCoded
<1>10. r \in 0..63 /\ \A j \in (63 - r + 1)..63 : coef[j] = 0
  <2>1. r \in Nat /\ r <= 63 /\ \A j \in (63 - r + 1)..63 : coef[j] = 0
    BY <1>9 DEF IsCodedUpTo
  <2> HIDE DEF r
  <2>2. r \in 0..63
    BY <2>1
  <2> QED
    BY <2>1, <2>2
<1>11. PICK n \in 0..(63 - r) : after[n] = ReadUpTo(end, 63 - r + 1, coef, 63 - r)
  BY <1>6, <1>9 DEF IsReadUpTo, end, W
<1> HIDE DEF r
<1>12. after[63].at = end + Bitcount(E) /\ after[63].coef = AllPlaces(coef)
  <2>1. HoldsWords(data, end, EndWords(t, r))
    BY <1>6 DEF E
  <2>2. after[63].at = end + Bitcount(EndWords(t, r)) /\ after[63].coef = AllPlaces(coef)
    <3>1. IsAtEnd(after, n, end, coef, r)
      BY <1>6, <1>10, <1>11 DEF IsAtEnd
    <3> QED
      BY <1>8, <2>1, <3>1, EndReadBack
  <2> QED
    BY <2>2 DEF E
<1>13. end + Bitcount(E) = k + Bitcount(words) /\ Bitcount(words) \in Nat \ {0}
  BY <1>6, <1>7 DEF end, at
<1>14. /\ Bitcount(words) \in Nat \ {0}
       /\ block.at = k + Bitcount(words) /\ block.coef = AllPlaces(coef)
  BY <1>8, <1>12, <1>13
<1> QED
  BY <1>14 DEF words, block

-------------------------------------------------------------------------------
(* The bytes of the scan. *)

\* What a byte adds to the bytes kept so far.
Keep(scan, n, s) == IF n > 1 /\ scan[n] = 0 /\ scan[n - 1] = 255 THEN s ELSE Append(s, scan[n])
IsKept(kept, scan) ==
  kept[0] = <<>> /\ \A n \in 1..Len(scan) : kept[n] = Keep(scan, n, kept[n - 1])

LEMMA UnstuffedLoop ==
  ASSUME NEW scan \in Seq(Byte)
  PROVE  \E kept : IsKept(kept, scan) /\ Unstuffed(scan) = kept[Len(scan)]
<1> DEFINE m == Len(scan)
           Body(f) == [n \in 0..m |-> IF n = 0 THEN <<>>
                                      ELSE IF n > 1 /\ scan[n] = 0 /\ scan[n - 1] = 255
                                           THEN f[n - 1] ELSE Append(f[n - 1], scan[n])]
           kept == CHOOSE f : f = Body(f)
           P == Seq(Byte)
           F == [n \in 1..m |-> [s \in P |-> Keep(scan, n, s)]]
<1>1. Unstuffed(scan) = kept[m]
  BY DEF Unstuffed
<1>2. m \in Nat /\ <<>> \in P
  OBVIOUS
<1>3. PICK g \in [0..m -> P] : IsLoop(g, m, <<>>, F)
  <2>1. ASSUME NEW n \in 1..m, NEW s \in P
        PROVE  Keep(scan, n, s) \in P
    <3>1. scan[n] \in Byte
      BY ElementOfSeq
    <3>2. Append(s, scan[n]) \in P
      BY <3>1, AppendProperties
    <3> QED
      BY <3>2 DEF Keep
  <2> HIDE DEF m
  <2>2. F \in [1..m -> [P -> P]]
    BY <2>1, Zenon
  <2> HIDE DEF F, P
  <2> QED
    BY <1>2, <2>2, LoopExists
<1> HIDE DEF m
<1>4. ASSUME NEW n \in 0..m
      PROVE  g[n] = IF n = 0 THEN <<>> ELSE Keep(scan, n, g[n - 1])
  <2>1. CASE n = 0
    BY <1>3, <2>1 DEF IsLoop
  <2>2. CASE n # 0
    <3>1. n \in 1..m /\ n - 1 \in 0..m
      BY <1>2, <2>2
    <3>2. g[n] = F[n][g[n - 1]] /\ g[n - 1] \in P
      <4> HIDE DEF F, P
      <4> QED
        BY <1>3, <3>1 DEF IsLoop
    <3> HIDE DEF P
    <3> QED
      BY <2>2, <3>1, <3>2
  <2> QED
    BY <2>1, <2>2
<1>5. g = Body(g)
  BY <1>4 DEF Keep
<1>6. kept = Body(kept)
  <2> HIDE DEF Body
  <2> QED
    BY <1>5
<1> HIDE DEF kept
<1>7. kept[0] = <<>>
  BY <1>2, <1>6
<1>8. ASSUME NEW n \in 1..m
      PROVE  kept[n] = Keep(scan, n, kept[n - 1])
  <2>1. n \in 0..m /\ n # 0
    BY <1>2
  <2>2. kept[n] = Body(kept)[n]
    <3> HIDE DEF Body
    <3> QED
      BY <1>6
  <2>3. Body(kept)[n] = IF n > 1 /\ scan[n] = 0 /\ scan[n - 1] = 255
                        THEN kept[n - 1] ELSE Append(kept[n - 1], scan[n])
    BY <2>1
  <2> HIDE DEF Body
  <2> QED
    BY <2>2, <2>3 DEF Keep
<1>9. IsKept(kept, scan)
  BY <1>7, <1>8 DEF IsKept, m
<1> QED
  BY <1>1, <1>9 DEF m

\* The bytes before a place, and the one at it.
LEMMA Beginning ==
  ASSUME NEW S, NEW s \in Seq(S), NEW i \in 1..Len(s)
  PROVE  /\ SubSeq(s, 1, i - 1) \in Seq(S) /\ SubSeq(s, 1, i) \in Seq(S) /\ s[i] \in S
         /\ SubSeq(s, 1, i) = SubSeq(s, 1, i - 1) \o <<s[i]>>
         /\ SubSeq(s, i + 1, Len(s)) \in Seq(S)
         /\ s = SubSeq(s, 1, i) \o SubSeq(s, i + 1, Len(s))
<1> DEFINE n == Len(s)
<1>1. n \in Nat /\ i \in 1..n /\ \A j \in 1..n : s[j] \in S
  BY ElementOfSeq, LenProperties
<1>2. /\ SubSeq(s, 1, i - 1) \in Seq(S) /\ SubSeq(s, 1, i) \in Seq(S)
      /\ SubSeq(s, i + 1, n) \in Seq(S)
  <2> HIDE DEF n
  <2>1. i - 1 \in Int /\ i \in Int /\ i + 1 \in Int /\ n \in Int /\ 1 \in Int
    BY <1>1
  <2>2. /\ \A j \in 1..(i - 1) : s[j] \in S
        /\ \A j \in 1..i : s[j] \in S
        /\ \A j \in (i + 1)..n : s[j] \in S
    BY <1>1
  <2> QED
    BY <2>1, <2>2, SubSeqProperties
<1>3. SubSeq(s, 1, i) = SubSeq(s, 1, i - 1) \o <<s[i]>>
  <2>1. 1 \in 1..n /\ i \in 1..n
    BY <1>1
  <2> QED
    BY <2>1, SubSeqRecursiveSecond
<1>4. s = SubSeq(s, 1, i) \o SubSeq(s, i + 1, n)
  <2>1. 1 \in 1..(n + 1) /\ i \in (1 - 1)..n /\ n \in i..n
    BY <1>1
  <2>2. SubSeq(s, 1, i) \o SubSeq(s, i + 1, n) = SubSeq(s, 1, n)
    BY <2>1, ConcatAdjacentSubSeq
  <2> QED
    BY <2>2, SubSeqFull
<1> QED
  BY <1>1, <1>2, <1>3, <1>4

LEMMA StuffedBytes ==
  ASSUME NEW b \in Byte
  PROVE  /\ Joined(StuffedByte, <<b>>) = Stuffed(b) /\ Stuffed(b) \in Seq(Byte)
         /\ b # 255 => Stuffed(b) = <<b>>
         /\ b = 255 => Stuffed(b) = <<255, 0>>
<1>1. Joined(StuffedByte, <<b>>) = StuffedByte[b] /\ StuffedByte[b] = Stuffed(b)
  BY BitFunctions, JoinedShort DEF StuffedByte
<1>2. StuffedByte[b] \in Seq(Byte)
  BY BitFunctions
<1> QED
  BY <1>1, <1>2 DEF Stuffed

\* Up to the i-th byte the scan has been unstuffed, and it goes on as it does.
IsUnstuffedUpTo(kept, scan, bytes, i) ==
  LET n == Len(Joined(StuffedByte, SubSeq(bytes, 1, i)))
  IN  n \in Nat /\ kept[n] = SubSeq(bytes, 1, i) /\ (n = 0 \/ scan[n] # 255)

LEMMA UnstuffedOn ==
  ASSUME NEW bytes \in Seq(Byte), NEW scan, scan = Joined(StuffedByte, bytes),
         NEW kept, IsKept(kept, scan), NEW i \in 1..Len(bytes),
         IsUnstuffedUpTo(kept, scan, bytes, i - 1)
  PROVE  IsUnstuffedUpTo(kept, scan, bytes, i)
<1> DEFINE old == SubSeq(bytes, 1, i - 1)
           new == SubSeq(bytes, 1, i)
           b == bytes[i]
           rest == SubSeq(bytes, i + 1, Len(bytes))
           x == Joined(StuffedByte, old)
           y == Stuffed(b)
           z == Joined(StuffedByte, rest)
           n == Len(x)
<1>1. /\ old \in Seq(Byte) /\ new \in Seq(Byte) /\ b \in Byte /\ rest \in Seq(Byte)
      /\ new = old \o <<b>> /\ bytes = new \o rest
  BY Beginning
<1>2. n \in Nat /\ kept[n] = old /\ (n = 0 \/ scan[n] # 255)
  BY DEF IsUnstuffedUpTo
<1> HIDE DEF old, new, b, rest
<1>3. /\ y \in Seq(Byte) /\ Joined(StuffedByte, <<b>>) = y /\ <<b>> \in Seq(Byte)
      /\ b # 255 => y = <<b>>
      /\ b = 255 => y = <<255, 0>>
  BY <1>1, StuffedBytes
<1>4. /\ x \in Seq(Byte) /\ z \in Seq(Byte)
      /\ Joined(StuffedByte, new) = x \o y /\ scan = (x \o y) \o z
  <2> DEFINE c == <<b>>
  <2>1. c \in Seq(Byte) /\ new = old \o c /\ Joined(StuffedByte, c) = y
    BY <1>1, <1>3
  <2> HIDE DEF c, y
  <2>2. Joined(StuffedByte, new) = x \o y /\ x \in Seq(Byte)
    <3>1. /\ Joined(StuffedByte, old \o c) = x \o Joined(StuffedByte, c) /\ x \in Seq(Byte)
      BY <1>1, <2>1, BytesJoined
    <3> QED
      BY <2>1, <3>1
  <2>3. scan = Joined(StuffedByte, new) \o z /\ z \in Seq(Byte)
    BY <1>1, BytesJoined
  <2> QED
    BY <2>2, <2>3
<1> HIDE DEF x, y, z
<1>5. /\ Len(x \o y) = n + Len(y) /\ Len(y) \in Nat
      /\ \A j \in 1..Len(y) : n + j \in 1..Len(scan) /\ scan[n + j] = y[j]
  <2> DEFINE xy == x \o y
  <2>1. /\ xy \in Seq(Byte) /\ Len(x) \in Nat /\ Len(y) \in Nat /\ Len(xy) = Len(x) + Len(y)
        /\ \A j \in 1..Len(y) : xy[Len(x) + j] = y[j]
    BY <1>3, <1>4, ConcatParts
  <2>2. scan = xy \o z
    BY <1>4
  <2> HIDE DEF xy
  <2>3. /\ Len(z) \in Nat /\ Len(scan) = Len(xy) + Len(z)
        /\ \A j \in 1..Len(xy) : scan[j] = xy[j]
    <3>1. xy \in Seq(Byte) /\ z \in Seq(Byte)
      BY <1>4, <2>1
    <3>2. /\ Len(z) \in Nat /\ Len(xy \o z) = Len(xy) + Len(z)
          /\ \A j \in 1..Len(xy) : (xy \o z)[j] = xy[j]
      BY <3>1, ConcatParts
    <3> QED
      BY <2>2, <3>2
  <2>4. ASSUME NEW j \in 1..Len(y)
        PROVE  n + j \in 1..Len(scan) /\ scan[n + j] = y[j]
    <3>1. n + j \in 1..Len(xy) /\ n + j \in 1..Len(scan)
      BY <2>1, <2>3
    <3> QED
      BY <2>1, <2>3, <3>1
  <2> QED
    BY <2>1, <2>4 DEF xy
<1> HIDE DEF n
<1>6. Append(old, b) = new
  BY <1>1, AppendIsConcat
<1>7. 1 \in 1..Len(y) /\ y[1] = b
  BY <1>3
<1>8. scan[n + 1] = b /\ n + 1 \in 1..Len(scan) /\ (n + 1) - 1 = n
  BY <1>2, <1>5, <1>7
<1>9. kept[n + 1] = new
  <2> DEFINE m == n + 1
  <2>1. kept[m] = Keep(scan, m, kept[m - 1])
    BY <1>8 DEF IsKept
  <2>2. ~(m > 1 /\ scan[m] = 0 /\ scan[m - 1] = 255)
    BY <1>2, <1>8
  <2>3. kept[m - 1] = old /\ scan[m] = b
    BY <1>2, <1>8
  <2> HIDE DEF m
  <2> QED
    BY <1>6, <2>1, <2>2, <2>3 DEF Keep, m
<1>10. CASE b # 255
  <2>1. Len(y) = 1
    BY <1>3, <1>10
  <2>2. Len(x \o y) = n + 1
    BY <1>5, <2>1
  <2> DEFINE m == n + 1
  <2>3. Len(Joined(StuffedByte, new)) = m
    BY <1>4, <2>2
  <2>4. m \in Nat /\ kept[m] = new /\ scan[m] # 255
    BY <1>2, <1>8, <1>9, <1>10
  <2> HIDE DEF m
  <2> QED
    BY <2>3, <2>4 DEF IsUnstuffedUpTo, new
<1>11. CASE b = 255
  <2>1. Len(y) = 2 /\ y[2] = 0 /\ 2 \in 1..Len(y)
    <3>1. y = <<255, 0>>
      BY <1>3, <1>11
    <3> QED
      BY <3>1
  <2>2. Len(x \o y) = n + 2 /\ scan[n + 2] = 0 /\ n + 2 \in 1..Len(scan)
    BY <1>5, <2>1
  <2>3. kept[n + 2] = new
    <3> DEFINE m == n + 2
    <3>1. kept[m] = Keep(scan, m, kept[m - 1])
      BY <2>2 DEF IsKept
    <3>2. m > 1 /\ scan[m] = 0 /\ scan[m - 1] = 255 /\ kept[m - 1] = new
      <4>1. m - 1 = n + 1 /\ m > 1
        BY <1>2
      <4> QED
        BY <1>8, <1>9, <1>11, <2>2, <4>1
    <3> HIDE DEF m
    <3> QED
      BY <3>1, <3>2 DEF Keep, m
  <2>4. n + 2 \in Nat /\ scan[n + 2] # 255
    BY <1>2, <2>2
  <2> DEFINE m == n + 2
  <2>5. Len(Joined(StuffedByte, new)) = m
    BY <1>4, <2>2
  <2>6. m \in Nat /\ kept[m] = new /\ scan[m] # 255
    BY <2>3, <2>4
  <2> HIDE DEF m
  <2> QED
    BY <2>5, <2>6 DEF IsUnstuffedUpTo, new
<1> QED
  BY <1>10, <1>11

(* A decoder that drops the bytes that were stuffed has the bytes that put_bits *)
(* has written, whatever they are.                                              *)
THEOREM UnstuffedBack ==
  ASSUME NEW bytes \in Seq(Byte)
  PROVE  Unstuffed(Joined(StuffedByte, bytes)) = bytes
<1> DEFINE scan == Joined(StuffedByte, bytes)
           m == Len(bytes)
           S == {i \in 0..m : \A f : IsKept(f, scan) => IsUnstuffedUpTo(f, scan, bytes, i)}
<1>1. scan \in Seq(Byte)
  BY BytesJoined
<1>2. PICK kept : IsKept(kept, scan) /\ Unstuffed(scan) = kept[Len(scan)]
  BY <1>1, UnstuffedLoop
<1>3. m \in Nat
  BY LenProperties
<1> HIDE DEF scan
<1>4. 0 \in S
  <2>1. SubSeq(bytes, 1, 0) = <<>>
    BY SubSeqEmpty
  <2>2. Joined(StuffedByte, <<>>) = <<>>
    <3>1. 0 \in Byte
      BY DEF Byte
    <3> QED
      BY <3>1, BitFunctions, JoinedShort
  <2>3. ASSUME NEW f, IsKept(f, scan)
        PROVE  IsUnstuffedUpTo(f, scan, bytes, 0)
    <3> DEFINE old == SubSeq(bytes, 1, 0)
               n == Len(Joined(StuffedByte, old))
    <3>1. old = <<>>
      BY <2>1
    <3> HIDE DEF old
    <3>2. n = 0
      BY <2>2, <3>1
    <3> HIDE DEF n
    <3>3. n \in Nat /\ f[n] = old /\ n = 0
      BY <2>3, <3>1, <3>2 DEF IsKept
    <3> QED
      BY <3>3 DEF IsUnstuffedUpTo, n, old
  <2> HIDE DEF m
  <2> QED
    BY <1>3, <2>3
<1>5. ASSUME NEW i \in 1..m, i - 1 \in S
      PROVE  i \in S
  <2>1. ASSUME NEW f, IsKept(f, scan)
        PROVE  IsUnstuffedUpTo(f, scan, bytes, i)
    <3>1. IsUnstuffedUpTo(f, scan, bytes, i - 1)
      BY <1>5, <2>1
    <3> QED
      BY <2>1, <3>1, UnstuffedOn DEF scan
  <2>2. i \in 0..m
    BY <1>3
  <2> QED
    BY <2>1, <2>2
<1>6. IsUnstuffedUpTo(kept, scan, bytes, m)
  <2> HIDE DEF S
  <2>1. \A i \in 0..m : i \in S
    <3> HIDE DEF m
    <3> QED
      BY <1>3, <1>4, <1>5, InductionUpTo
  <2>2. m \in 0..m
    BY <1>3
  <2>3. m \in S
    BY <2>1, <2>2
  <2> QED
    BY <1>2, <2>3 DEF S
<1>7. SubSeq(bytes, 1, m) = bytes
  BY SubSeqFull
<1> QED
  BY <1>2, <1>6, <1>7 DEF IsUnstuffedUpTo, scan

-------------------------------------------------------------------------------
(* The blocks of a scan. *)

\* A block to be coded, and the words of blocks with the predictions after them.
CodedBlocks == {b \in [comp : 0..2, coef : [0..63 -> Int]] : IsBlock(b.coef)}
CodeOne(g, b) ==
  [words |-> g.words \o code_coefficients_pass_two(Table(b.comp), b.coef, g.dc[b.comp + 1]),
   dc |-> [g.dc EXCEPT ![b.comp + 1] = b.coef[0]]]
NoneCoded == [words |-> <<>>, dc |-> <<0, 0, 0>>]
IsCoding(g, coded) ==
  g[0] = NoneCoded /\ \A n \in 1..Len(coded) : g[n] = CodeOne(g[n - 1], coded[n])

Predictions == {dc \in [1..3 -> Int] : \A c \in 1..3 : IsCoefficient(dc[c], 0)}
Codings == [words : Words, dc : Predictions]

LEMMA NoneCodedType == NoneCoded \in Codings
<1>1. <<0, 0, 0>> \in [1..3 -> Int]
  OBVIOUS
<1>2. \A c \in 1..3 : <<0, 0, 0>>[c] = 0
  OBVIOUS
<1>3. IsCoefficient(0, 0)
  BY SMT DEF IsCoefficient, Between
<1>4. <<0, 0, 0>> \in Predictions
  BY <1>1, <1>2, <1>3 DEF Predictions
<1> QED
  BY <1>4, NoWords DEF NoneCoded, Codings

LEMMA CodeOneParts ==
  ASSUME NEW g \in Codings, NEW b \in CodedBlocks
  PROVE  LET words == code_coefficients_pass_two(Table(b.comp), b.coef, g.dc[b.comp + 1])
         IN  /\ Table(b.comp) \in 1..2 /\ b.comp + 1 \in 1..3 /\ IsBlock(b.coef)
             /\ IsCoefficient(g.dc[b.comp + 1], 0)
             /\ g.words \in Words /\ words \in Words
             /\ CodeOne(g, b).words = g.words \o words
             /\ CodeOne(g, b).dc = [g.dc EXCEPT ![b.comp + 1] = b.coef[0]]
             /\ CodeOne(g, b) \in Codings
<1> DEFINE t == Table(b.comp)
           c == b.comp + 1
           last == g.dc[c]
           words == code_coefficients_pass_two(t, b.coef, last)
           new == [g.dc EXCEPT ![c] = b.coef[0]]
<1>1. b.comp \in 0..2 /\ b.coef \in [0..63 -> Int] /\ IsBlock(b.coef)
  BY DEF CodedBlocks
<1>2. t \in 1..2 /\ c \in 1..3
  BY <1>1 DEF Table
<1>3. g.words \in Words /\ g.dc \in Predictions
  BY DEF Codings
<1>4. IsCoefficient(last, 0)
  BY <1>2, <1>3 DEF Predictions
<1>5. words \in Words
  <2> HIDE DEF t, last
  <2>1. IsCodedBlock(words)
    BY <1>1, <1>2, <1>4, BlockCoded
  <2> HIDE DEF words
  <2>2. PICK dc \in CodedWord, bits \in CodeWord, more, end \in Seq(CodedWord) :
          words = <<dc, bits>> \o more \o end
    BY <2>1 DEF IsCodedBlock
  <2>3. dc \in CodeWord /\ more \in Words /\ end \in Words
    BY CodedWordsAreWords
  <2> DEFINE first == <<dc, bits>>
  <2>4. first \in Words
    BY <2>3 DEF Words
  <2>5. words = first \o more \o end
    BY <2>2
  <2> HIDE DEF first
  <2>6. first \o more \in Words
    BY <2>3, <2>4, WordsHeld
  <2> QED
    BY <2>3, <2>5, <2>6, WordsHeld
<1>6. b.coef[0] \in Int /\ IsCoefficient(b.coef[0], 0)
  BY <1>1 DEF IsBlock
<1>7. new \in Predictions
  BY <1>2, <1>3, <1>6 DEF Predictions
<1>8. CodeOne(g, b).words = g.words \o words /\ CodeOne(g, b).dc = new
  BY DEF CodeOne
<1>9. CodeOne(g, b) = [words |-> g.words \o words, dc |-> new]
  BY DEF CodeOne
<1> HIDE DEF words, new
<1>10. g.words \o words \in Words
  BY <1>3, <1>5, WordsHeld
<1>11. CodeOne(g, b) \in Codings
  BY <1>7, <1>9, <1>10 DEF Codings
<1> QED
  BY <1>1, <1>2, <1>3, <1>4, <1>5, <1>8, <1>11 DEF words, new

LEMMA CodingType ==
  ASSUME NEW coded \in Seq(CodedBlocks), NEW g, IsCoding(g, coded)
  PROVE  /\ Len(coded) \in Nat /\ \A n \in 1..Len(coded) : coded[n] \in CodedBlocks
         /\ \A n \in 0..Len(coded) : g[n] \in Codings
<1> DEFINE m == Len(coded)
<1>1. m \in Nat /\ \A n \in 1..m : coded[n] \in CodedBlocks
  BY LenProperties, ElementOfSeq
<1>2. g[0] \in Codings
  BY NoneCodedType DEF IsCoding
<1>3. ASSUME NEW n \in 1..m, g[n - 1] \in Codings
      PROVE  g[n] \in Codings
  <2>1. g[n] = CodeOne(g[n - 1], coded[n])
    BY DEF IsCoding
  <2>2. coded[n] \in CodedBlocks
    BY <1>1
  <2> DEFINE a == g[n - 1]
             b == coded[n]
  <2> HIDE DEF a, b
  <2>3. CodeOne(a, b) \in Codings
    BY <1>3, <2>2, CodeOneParts DEF a, b
  <2> QED
    BY <2>1, <2>3 DEF a, b
<1> HIDE DEF m
<1>4. \A n \in 0..m : g[n] \in Codings
  BY <1>1, <1>2, <1>3, LoopInvariant
<1> QED
  BY <1>1, <1>4 DEF m

-------------------------------------------------------------------------------
(* The blocks of a scan, one after another.                                     *)

(* Code books for the blocks of a component, and a scan in which the blocks     *)
(* stand: the components take turns as in mcu, and the words are in the data.   *)
AreCodeBooks(dcCodes, acCodes, comp) ==
  /\ IsCodeBook(dcCodes[Smaller(comp, 1)], m_huff_codes["DC"][Table(comp)])
  /\ IsCodeBook(acCodes[Smaller(comp, 1)], m_huff_codes["AC"][Table(comp)])
TakesTurns(coded, mcu) ==
  \A n \in 1..Len(coded) : coded[n].comp = mcu[((n - 1) % Len(mcu)) + 1]
IsHeld(data, g) == HoldsWords(data, 0, g.words) /\ Bitcount(g.words) <= 8 * Len(data)

\* Where a block that is held begins, and that it is.
IsNextHeld(data, g, b) ==
  LET words == code_coefficients_pass_two(Table(b.comp), b.coef, g.dc[b.comp + 1])
  IN  /\ Bitcount(g.words) \in Nat /\ HoldsWords(data, Bitcount(g.words), words)
      /\ Bitcount(words) \in Nat
      /\ Bitcount(CodeOne(g, b).words) = Bitcount(g.words) + Bitcount(words)

LEMMA HeldBefore ==
  ASSUME NEW data \in Data, NEW g \in Codings, NEW b \in CodedBlocks,
         IsHeld(data, CodeOne(g, b))
  PROVE  IsHeld(data, g) /\ IsNextHeld(data, g, b)
<1> DEFINE words == code_coefficients_pass_two(Table(b.comp), b.coef, g.dc[b.comp + 1])
           all == CodeOne(g, b).words
<1>1. g.words \in Words /\ words \in Words /\ all = g.words \o words
  BY CodeOneParts
<1>2. HoldsWords(data, 0, all) /\ Bitcount(all) <= 8 * Len(data)
  BY DEF IsHeld
<1>3. Len(data) \in Nat
  BY LenProperties DEF Data
<1> DEFINE old == g.words
<1> HIDE DEF words, all, old
<1>4. old \in Words /\ words \in Words /\ all = old \o words
  BY <1>1 DEF old
<1>5. HoldsWords(data, 0, old \o words)
  BY <1>2, <1>4
<1>6. /\ Bitcount(old) \in Nat /\ Bitcount(words) \in Nat
      /\ Bitcount(old \o words) = Bitcount(old) + Bitcount(words)
      /\ HoldsWords(data, 0, old) /\ HoldsWords(data, 0 + Bitcount(old), words)
  BY <1>4, <1>5, WordsHeld
<1>7. 0 + Bitcount(old) = Bitcount(old)
  BY <1>6
<1>8. Bitcount(old) <= 8 * Len(data)
  BY <1>2, <1>3, <1>4, <1>6
<1>9. Bitcount(all) = Bitcount(old) + Bitcount(words)
  BY <1>4, <1>6
<1>10. HoldsWords(data, Bitcount(old), words)
  BY <1>6, <1>7
<1>11. IsHeld(data, g)
  BY <1>6, <1>8 DEF IsHeld, old
<1>12. IsNextHeld(data, g, b)
  BY <1>6, <1>9, <1>10 DEF IsNextHeld, old, all, words
<1> QED
  BY <1>11, <1>12

\* What is held at the end is held all along.
LEMMA AllHeld ==
  ASSUME NEW data \in Data, NEW coded \in Seq(CodedBlocks), NEW g, IsCoding(g, coded),
         IsHeld(data, g[Len(coded)])
  PROVE  \A n \in 1..Len(coded) : IsNextHeld(data, g[n - 1], coded[n]) /\ IsHeld(data, g[n])
<1> DEFINE m == Len(coded)
           S == {k \in 0..m : IsHeld(data, g[m - k])}
<1>1. /\ m \in Nat /\ \A n \in 1..m : coded[n] \in CodedBlocks
      /\ \A n \in 0..m : g[n] \in Codings
      /\ \A n \in 1..m : g[n] = CodeOne(g[n - 1], coded[n])
      /\ IsHeld(data, g[m])
  BY CodingType DEF IsCoding
<1> HIDE DEF m
<1>2. ASSUME NEW n \in 1..m, IsHeld(data, g[n])
      PROVE  IsHeld(data, g[n - 1]) /\ IsNextHeld(data, g[n - 1], coded[n])
  <2>1. /\ n - 1 \in 0..m /\ g[n - 1] \in Codings /\ coded[n] \in CodedBlocks
        /\ g[n] = CodeOne(g[n - 1], coded[n])
    BY <1>1
  <2> DEFINE a == g[n - 1]
             b == coded[n]
  <2> HIDE DEF a, b
  <2>2. a \in Codings /\ b \in CodedBlocks /\ IsHeld(data, CodeOne(a, b))
    BY <1>2, <2>1 DEF a, b
  <2>3. IsHeld(data, a) /\ IsNextHeld(data, a, b)
    BY <2>2, HeldBefore
  <2> QED
    BY <2>3 DEF a, b
<1>3. 0 \in S
  <2>1. m - 0 = m
    BY <1>1
  <2> QED
    BY <1>1, <2>1
<1>4. ASSUME NEW k \in 1..m, k - 1 \in S
      PROVE  k \in S
  <2>1. m - (k - 1) \in 1..m /\ (m - (k - 1)) - 1 = m - k
    BY <1>1
  <2>2. IsHeld(data, g[m - (k - 1)])
    BY <1>4
  <2> QED
    BY <1>2, <2>1, <2>2
<1>5. \A k \in 0..m : k \in S
  <2> HIDE DEF S
  <2> QED
    BY <1>1, <1>3, <1>4, InductionUpTo
<1>6. ASSUME NEW n \in 1..m
      PROVE  IsNextHeld(data, g[n - 1], coded[n]) /\ IsHeld(data, g[n])
  <2>1. m - n \in 0..m /\ m - (m - n) = n
    BY <1>1
  <2>2. IsHeld(data, g[n])
    BY <1>5, <2>1
  <2> QED
    BY <1>2, <2>2
<1> QED
  BY <1>6 DEF m

\* What has been read after n blocks.
ReadAfter(g, coded, n) ==
  [at |-> Bitcount(g[n].words), dc |-> g[n].dc, blocks |-> SubSeq(coded, 1, n)]

LEMMA BlockIs ==
  ASSUME NEW b \in CodedBlocks
  PROVE  /\ b.comp \in 0..2 /\ b.coef \in [0..63 -> Int] /\ IsBlock(b.coef)
         /\ AllPlaces(b.coef) = b.coef /\ b = [comp |-> b.comp, coef |-> b.coef]
  BY DEF CodedBlocks, AllPlaces

\* The block is that of a component whose turn it is.
IsTurn(data, mcu, dcCodes, acCodes, n, g, b) ==
  /\ data \in Data /\ g \in Codings /\ b \in CodedBlocks
  /\ AreCodeBooks(dcCodes, acCodes, b.comp)
  /\ b.comp = mcu[((n - 1) % Len(mcu)) + 1]
  /\ IsNextHeld(data, g, b) /\ IsHeld(data, CodeOne(g, b))

LEMMA NextRead ==
  ASSUME NEW data, NEW mcu, NEW dcCodes, NEW acCodes, NEW n, NEW g, NEW b,
         IsTurn(data, mcu, dcCodes, acCodes, n, g, b), NEW blocks
  PROVE  ReadBlock(data, mcu, dcCodes, acCodes, n,
                   [at |-> Bitcount(g.words), dc |-> g.dc, blocks |-> blocks])
           = [at |-> Bitcount(CodeOne(g, b).words), dc |-> CodeOne(g, b).dc,
              blocks |-> Append(blocks, b)]
<1> DEFINE c == b.comp
           t == Table(c)
           s == Smaller(c, 1)
           last == g.dc[c + 1]
           words == code_coefficients_pass_two(t, b.coef, last)
           at == Bitcount(g.words)
           read == BlockAt(data, at, dcCodes[s], acCodes[s], last)
<1>0. /\ data \in Data /\ g \in Codings /\ b \in CodedBlocks
      /\ b.comp = mcu[((n - 1) % Len(mcu)) + 1]
      /\ AreCodeBooks(dcCodes, acCodes, b.comp) /\ IsNextHeld(data, g, b)
      /\ Bitcount(CodeOne(g, b).words) <= 8 * Len(data)
  BY DEF IsTurn, IsHeld
<1>1. /\ t \in 1..2 /\ IsBlock(b.coef) /\ IsCoefficient(last, 0)
      /\ CodeOne(g, b).dc = [g.dc EXCEPT ![c + 1] = b.coef[0]]
  BY <1>0, CodeOneParts
<1>2. /\ at \in Nat /\ HoldsWords(data, at, words) /\ Bitcount(words) \in Nat
      /\ Bitcount(CodeOne(g, b).words) = at + Bitcount(words)
  BY <1>0 DEF IsNextHeld
<1>3. /\ IsCodeBook(dcCodes[s], m_huff_codes["DC"][t])
      /\ IsCodeBook(acCodes[s], m_huff_codes["AC"][t])
  BY <1>0 DEF AreCodeBooks
<1>4. /\ Bitcount(words) \in Nat \ {0} /\ read.at = at + Bitcount(words)
      /\ read.coef = AllPlaces(b.coef)
  <2> DEFINE coef == b.coef
             dcs == dcCodes[s]
             acs == acCodes[s]
  <2> HIDE DEF coef, last, t, s, dcs, acs, at
  <2>1. /\ IsCodeBook(dcs, m_huff_codes["DC"][t]) /\ IsCodeBook(acs, m_huff_codes["AC"][t])
        /\ IsBlock(coef) /\ HoldsWords(data, at, code_coefficients_pass_two(t, coef, last))
    BY <1>1, <1>2, <1>3 DEF coef, dcs, acs
  <2>2. LET block == BlockAt(data, at, dcs, acs, last)
            bits == Bitcount(code_coefficients_pass_two(t, coef, last))
        IN  bits \in Nat \ {0} /\ block.at = at + bits /\ block.coef = AllPlaces(coef)
    BY <1>0, <1>1, <1>2, <2>1, BlockReadBack
  <2> QED
    BY <2>2 DEF coef, dcs, acs
<1>5. ~(at >= 8 * Len(data))
  <2>1. Len(data) \in Nat
    BY <1>0, LenProperties DEF Data
  <2> HIDE DEF at, words
  <2> QED
    BY <1>0, <1>2, <1>4, <2>1
<1>6. read.coef = b.coef /\ b = [comp |-> c, coef |-> b.coef]
  BY <1>0, <1>4, BlockIs
<1>7. ReadBlock(data, mcu, dcCodes, acCodes, n, [at |-> at, dc |-> g.dc, blocks |-> blocks])
        = [at |-> read.at, dc |-> [g.dc EXCEPT ![c + 1] = read.coef[0]],
           blocks |-> Append(blocks, [comp |-> c, coef |-> read.coef])]
  <2> DEFINE st == [at |-> at, dc |-> g.dc, blocks |-> blocks]
  <2>1. st.at = at /\ st.dc = g.dc /\ st.blocks = blocks
    OBVIOUS
  <2> HIDE DEF st
  <2>2. ReadBlock(data, mcu, dcCodes, acCodes, n, st)
          = [at |-> read.at, dc |-> [g.dc EXCEPT ![c + 1] = read.coef[0]],
             blocks |-> Append(blocks, [comp |-> c, coef |-> read.coef])]
    <3> HIDE DEF at
    <3> QED
      BY <1>0, <1>5, <2>1, Zenon DEF ReadBlock
  <2> QED
    BY <2>2 DEF st
<1> HIDE DEF read, words, at, c
<1>8. read.at = Bitcount(CodeOne(g, b).words)
  BY <1>2, <1>4
<1> QED
  BY <1>1, <1>6, <1>7, <1>8 DEF at

(* What stands in the scan: blocks whose components take turns as in mcu, coded *)
(* with the codes of the books, at the beginning of the data.                   *)
IsScan(data, mcu, dcCodes, acCodes, coded, g) ==
  /\ data \in Data /\ coded \in Seq(CodedBlocks) /\ IsCoding(g, coded)
  /\ TakesTurns(coded, mcu)
  /\ \A n \in 1..Len(coded) : AreCodeBooks(dcCodes, acCodes, coded[n].comp)
  /\ IsHeld(data, g[Len(coded)])

LEMMA ScanReadOn ==
  ASSUME NEW data, NEW mcu, NEW dcCodes, NEW acCodes, NEW coded, NEW g,
         IsScan(data, mcu, dcCodes, acCodes, coded, g), NEW n \in 1..Len(coded)
  PROVE  ReadBlock(data, mcu, dcCodes, acCodes, n, ReadAfter(g, coded, n - 1))
           = ReadAfter(g, coded, n)
<1>1. /\ data \in Data /\ coded \in Seq(CodedBlocks) /\ IsCoding(g, coded)
      /\ IsHeld(data, g[Len(coded)])
  BY DEF IsScan
<1>2. /\ g[n - 1] \in Codings /\ g[n] \in Codings /\ coded[n] \in CodedBlocks
      /\ g[n] = CodeOne(g[n - 1], coded[n])
  <2> DEFINE m == Len(coded)
  <2>1. /\ m \in Nat /\ coded[n] \in CodedBlocks /\ \A k \in 0..m : g[k] \in Codings
        /\ g[n] = CodeOne(g[n - 1], coded[n])
    BY <1>1, CodingType DEF IsCoding
  <2> HIDE DEF m
  <2>2. n \in 1..m
    BY DEF m
  <2>3. n - 1 \in 0..m /\ n \in 0..m
    BY <2>1, <2>2
  <2> QED
    BY <2>1, <2>3
<1>3. IsNextHeld(data, g[n - 1], coded[n])
  BY <1>1, AllHeld
<1>4. coded[n].comp = mcu[((n - 1) % Len(mcu)) + 1]
  BY DEF IsScan, TakesTurns
<1>5. AreCodeBooks(dcCodes, acCodes, coded[n].comp)
  BY DEF IsScan
<1>6. IsHeld(data, g[n])
  BY <1>1, AllHeld
<1>7. Append(SubSeq(coded, 1, n - 1), coded[n]) = SubSeq(coded, 1, n)
  <2>1. /\ SubSeq(coded, 1, n - 1) \in Seq(CodedBlocks)
        /\ SubSeq(coded, 1, n) = SubSeq(coded, 1, n - 1) \o <<coded[n]>>
    BY <1>1, Beginning
  <2> QED
    BY <1>2, <2>1, AppendIsConcat
<1> DEFINE a == g[n - 1]
           b == coded[n]
           blocks == SubSeq(coded, 1, n - 1)
<1>8. g[n] = CodeOne(a, b) /\ IsTurn(data, mcu, dcCodes, acCodes, n, a, b)
  BY <1>1, <1>2, <1>3, <1>4, <1>5, <1>6 DEF IsTurn
<1> HIDE DEF a, b, blocks
<1>9. ReadBlock(data, mcu, dcCodes, acCodes, n,
                [at |-> Bitcount(a.words), dc |-> a.dc, blocks |-> blocks])
        = [at |-> Bitcount(CodeOne(a, b).words), dc |-> CodeOne(a, b).dc,
           blocks |-> Append(blocks, b)]
  BY <1>8, NextRead
<1>10. ReadAfter(g, coded, n - 1)
         = [at |-> Bitcount(a.words), dc |-> a.dc, blocks |-> blocks]
  BY DEF ReadAfter, a, blocks
<1>11. ReadAfter(g, coded, n)
         = [at |-> Bitcount(CodeOne(a, b).words), dc |-> CodeOne(a, b).dc,
            blocks |-> Append(blocks, b)]
  BY <1>7, <1>8 DEF ReadAfter, blocks, b
<1> QED
  BY <1>9, <1>10, <1>11

(* The blocks of a scan come back one after the other: a decoder that takes the *)
(* blocks from the data as they come finds those that were coded, each at the   *)
(* bit where its words begin.                                                   *)
THEOREM BlocksReadBack ==
  ASSUME NEW data, NEW mcu, NEW dcCodes, NEW acCodes, NEW coded, NEW g,
         IsScan(data, mcu, dcCodes, acCodes, coded, g)
  PROVE  LET read == BlocksRead(data, mcu, dcCodes, acCodes, Len(coded))
         IN  read.at = Bitcount(g[Len(coded)].words) /\ read.blocks = coded
<1> DEFINE m == Len(coded)
           start == [at |-> 0, dc |-> <<0, 0, 0>>, blocks |-> <<>>]
           Body(f) == [n \in 0..m |-> IF n = 0 THEN start
                                      ELSE ReadBlock(data, mcu, dcCodes, acCodes, n, f[n - 1])]
           after == CHOOSE f : f = Body(f)
           G == [n \in 0..m |-> ReadAfter(g, coded, n)]
<1>1. BlocksRead(data, mcu, dcCodes, acCodes, m) = after[m]
  BY DEF BlocksRead
<1>2. coded \in Seq(CodedBlocks) /\ m \in Nat
  BY LenProperties DEF IsScan
<1>3. ReadAfter(g, coded, 0) = start
  <2>1. g[0] = NoneCoded
    BY DEF IsScan, IsCoding
  <2>2. SubSeq(coded, 1, 0) = <<>>
    BY <1>2, SubSeqEmpty
  <2>3. Bitcount(<<>>) = 0
    BY NoWords
  <2> QED
    BY <2>1, <2>2, <2>3 DEF ReadAfter, NoneCoded
<1>4. \A n \in 1..m : ReadBlock(data, mcu, dcCodes, acCodes, n, ReadAfter(g, coded, n - 1))
                        = ReadAfter(g, coded, n)
  BY ScanReadOn
<1> HIDE DEF m, start
<1>5. G = Body(G)
  <2>1. ASSUME NEW n \in 0..m
        PROVE  G[n] = Body(G)[n]
    <3>1. CASE n = 0
      BY <1>3, <3>1
    <3>2. CASE n # 0
      <4>1. n \in 1..m /\ n - 1 \in 0..m
        BY <1>2, <3>2
      <4> QED
        BY <1>4, <3>2, <4>1
    <3> QED
      BY <3>1, <3>2
  <2> QED
    BY <2>1, Zenon
<1>6. after = Body(after)
  <2> HIDE DEF Body
  <2> QED
    BY <1>5
<1> HIDE DEF after
<1> DEFINE S == {n \in 0..m : after[n] = ReadAfter(g, coded, n)}
<1>7. ASSUME NEW n \in 0..m
      PROVE  after[n] = IF n = 0 THEN start
                        ELSE ReadBlock(data, mcu, dcCodes, acCodes, n, after[n - 1])
  <2>1. after[n] = Body(after)[n]
    <3> HIDE DEF Body
    <3> QED
      BY <1>6
  <2> QED
    BY <2>1
<1>8. 0 \in S
  <2>1. 0 \in 0..m
    BY <1>2
  <2> QED
    BY <1>3, <1>7, <2>1
<1>9. ASSUME NEW n \in 1..m, n - 1 \in S
      PROVE  n \in S
  <2>1. n \in 0..m /\ n # 0
    BY <1>2
  <2>2. after[n - 1] = ReadAfter(g, coded, n - 1)
    BY <1>9
  <2> QED
    BY <1>4, <1>7, <2>1, <2>2
<1>10. \A n \in 0..m : n \in S
  <2> HIDE DEF S
  <2> QED
    BY <1>2, <1>8, <1>9, InductionUpTo
<1>11. after[m] = ReadAfter(g, coded, m)
  <2>1. m \in 0..m
    BY <1>2
  <2> QED
    BY <1>10, <2>1
<1>12. SubSeq(coded, 1, m) = coded
  BY <1>2, SubSeqFull DEF m
<1> QED
  BY <1>1, <1>11, <1>12 DEF ReadAfter, m

-------------------------------------------------------------------------------
(* The code books in a DHT segment are those the encoder codes with.            *)

\* No symbol is twice in a list of m_huff_val.
AllDiffer(v, n) == \A p, q \in 1..n : v[p] = v[q] => p = q

LEMMA ListsDiffer ==
  /\ AllDiffer(s_dc_lum_val, 12) /\ AllDiffer(s_dc_chroma_val, 12)
  /\ AllDiffer(s_ac_lum_val, 162) /\ AllDiffer(s_ac_chroma_val, 162)
<1>1. \A p, q \in 1..12 : s_dc_lum_val[p] = s_dc_lum_val[q] => p = q
  BY DEF s_dc_lum_val
<1>2. \A p, q \in 1..12 : s_dc_chroma_val[p] = s_dc_chroma_val[q] => p = q
  BY DEF s_dc_chroma_val
<1>3. \A p, q \in 1..162 : s_ac_lum_val[p] = s_ac_lum_val[q] => p = q
  BY SMTT(120) DEF s_ac_lum_val
<1>4. \A p, q \in 1..162 : s_ac_chroma_val[p] = s_ac_chroma_val[q] => p = q
  BY SMTT(120) DEF s_ac_chroma_val
<1> QED
  BY <1>1, <1>2, <1>3, <1>4, Zenon DEF AllDiffer

LEMMA SymbolsDiffer ==
  ASSUME NEW class \in {"DC", "AC"}, NEW t \in 1..2
  PROVE  AllDiffer(m_huff_val[class][t], Len(m_huff_val[class][t]))
<1>1. t = 1 \/ t = 2
  OBVIOUS
<1>2. CASE class = "DC"
  <2>1. /\ m_huff_val[class][1] = s_dc_lum_val /\ m_huff_val[class][2] = s_dc_chroma_val
    BY <1>2 DEF m_huff_val
  <2>2. Len(s_dc_lum_val) = 12 /\ Len(s_dc_chroma_val) = 12
    BY DEF s_dc_lum_val, s_dc_chroma_val
  <2>3. /\ AllDiffer(s_dc_lum_val, Len(s_dc_lum_val))
        /\ AllDiffer(s_dc_chroma_val, Len(s_dc_chroma_val))
    BY <2>2, ListsDiffer, Zenon
  <2>4. m_huff_val[class][t] = s_dc_lum_val \/ m_huff_val[class][t] = s_dc_chroma_val
    BY <1>1, <2>1
  <2> QED
    BY <2>3, <2>4, Zenon
<1>3. CASE class = "AC"
  <2>1. /\ m_huff_val[class][1] = s_ac_lum_val /\ m_huff_val[class][2] = s_ac_chroma_val
        /\ Len(s_ac_lum_val) = 162 /\ Len(s_ac_chroma_val) = 162
    BY <1>3 DEF m_huff_val, s_ac_lum_val, s_ac_chroma_val
  <2> QED
    BY <1>1, <2>1, ListsDiffer, Zenon
<1> QED
  BY <1>2, <1>3

\* first and before of CodesOf: the first code of each length and how many are shorter.
AreStarts(first, before, b) ==
  /\ first[1] = 0 /\ before[1] = 0
  /\ \A l \in 2..16 : /\ first[l] = 2 * (first[l - 1] + b[l - 1])
                      /\ before[l] = before[l - 1] + b[l - 1]
  /\ \A l \in 1..16 : first[l] \in Nat /\ before[l] \in Nat

FirstOf(file, p) == CHOOSE f : f = [l \in 1..16 |->
                      IF l = 1 THEN 0 ELSE 2 * (f[l - 1] + file[p + 4 + (l - 1)])]
BeforeOf(file, p) == CHOOSE f : f = [l \in 1..16 |->
                       IF l = 1 THEN 0 ELSE f[l - 1] + file[p + 4 + (l - 1)]]

LEMMA StartsExist ==
  ASSUME NEW file, NEW p \in Nat, NEW b, \A l \in 1..16 : b[l] \in Nat,
         \A l \in 1..16 : file[p + 4 + l] = b[l]
  PROVE  AreStarts(FirstOf(file, p), BeforeOf(file, p), b)
<1> DEFINE F == [k \in 1..15 |-> [x \in Nat |-> 2 * (x + b[k])]]
           G == [k \in 1..15 |-> [x \in Nat |-> x + b[k]]]
           first == FirstOf(file, p)
           before == BeforeOf(file, p)
<1>1. /\ \A k \in 1..15 : b[k] \in Nat
      /\ \A l \in 2..16 : l - 1 \in 1..15 /\ l - 1 \in 1..16 /\ file[p + 4 + (l - 1)] = b[l - 1]
  OBVIOUS
<1>2. F \in [1..15 -> [Nat -> Nat]] /\ G \in [1..15 -> [Nat -> Nat]]
  BY <1>1
<1>3. PICK g \in [0..15 -> Nat] : IsLoop(g, 15, 0, F)
  <2> HIDE DEF F
  <2> QED
    BY <1>2, LoopExists
<1>4. PICK h \in [0..15 -> Nat] : IsLoop(h, 15, 0, G)
  <2> HIDE DEF G
  <2> QED
    BY <1>2, LoopExists
<1>5. /\ \A k \in 1..15 : g[k] = 2 * (g[k - 1] + b[k])
      /\ \A k \in 1..15 : h[k] = h[k - 1] + b[k]
      /\ g[0] = 0 /\ h[0] = 0
  <2>1. /\ \A k \in 1..15 : g[k] = F[k][g[k - 1]] /\ g[k - 1] \in Nat
        /\ \A k \in 1..15 : h[k] = G[k][h[k - 1]] /\ h[k - 1] \in Nat
        /\ g[0] = 0 /\ h[0] = 0
    BY <1>3, <1>4 DEF IsLoop
  <2> QED
    BY <2>1
<1> DEFINE f == [l \in 1..16 |-> g[l - 1]]
           d == [l \in 1..16 |-> h[l - 1]]
<1>6. \A l \in 1..16 : f[l] = g[l - 1] /\ d[l] = h[l - 1] /\ f[l] \in Nat /\ d[l] \in Nat
  OBVIOUS
<1>7. \A l \in 2..16 : f[l] = 2 * (f[l - 1] + b[l - 1]) /\ d[l] = d[l - 1] + b[l - 1]
  <2> HIDE DEF f, d
  <2> QED
    BY <1>1, <1>5, <1>6
<1>8. f[1] = 0 /\ d[1] = 0
  BY <1>5
<1>9. f = [l \in 1..16 |-> IF l = 1 THEN 0 ELSE 2 * (f[l - 1] + file[p + 4 + (l - 1)])]
  <2>1. f = [l \in 1..16 |-> f[l]]
    OBVIOUS
  <2> HIDE DEF f
  <2>2. ASSUME NEW l \in 1..16
        PROVE  f[l] = IF l = 1 THEN 0 ELSE 2 * (f[l - 1] + file[p + 4 + (l - 1)])
    BY <1>1, <1>7, <1>8
  <2> QED
    BY <2>1, <2>2
<1>10. d = [l \in 1..16 |-> IF l = 1 THEN 0 ELSE d[l - 1] + file[p + 4 + (l - 1)]]
  <2>1. d = [l \in 1..16 |-> d[l]]
    OBVIOUS
  <2> HIDE DEF d
  <2>2. ASSUME NEW l \in 1..16
        PROVE  d[l] = IF l = 1 THEN 0 ELSE d[l - 1] + file[p + 4 + (l - 1)]
    BY <1>1, <1>7, <1>8
  <2> QED
    BY <2>1, <2>2
<1> HIDE DEF f, d
<1>11. first = [l \in 1..16 |-> IF l = 1 THEN 0 ELSE 2 * (first[l - 1] + file[p + 4 + (l - 1)])]
  BY <1>9 DEF FirstOf
<1>12. before = [l \in 1..16 |-> IF l = 1 THEN 0 ELSE before[l - 1] + file[p + 4 + (l - 1)]]
  BY <1>10 DEF BeforeOf
<1> HIDE DEF first, before
<1>13. /\ first[1] = 0 /\ before[1] = 0
       /\ \A l \in 2..16 : /\ first[l] = 2 * (first[l - 1] + b[l - 1])
                           /\ before[l] = before[l - 1] + b[l - 1]
  <2>1. first[1] = 0 /\ before[1] = 0
    BY <1>11, <1>12
  <2>2. ASSUME NEW l \in 2..16
        PROVE  first[l] = 2 * (first[l - 1] + b[l - 1]) /\ before[l] = before[l - 1] + b[l - 1]
    <3>1. l \in 1..16 /\ l # 1
      OBVIOUS
    <3> QED
      BY <1>1, <1>11, <1>12, <3>1
  <2> QED
    BY <2>1, <2>2
<1>14. \A l \in 0..15 : l \in {i \in 0..15 : first[i + 1] \in Nat /\ before[i + 1] \in Nat}
  <2> DEFINE S == {i \in 0..15 : first[i + 1] \in Nat /\ before[i + 1] \in Nat}
  <2>1. 0 \in S
    BY <1>13
  <2>2. ASSUME NEW k \in 1..15, k - 1 \in S
        PROVE  k \in S
    <3>1. /\ k + 1 \in 2..16 /\ (k + 1) - 1 = k /\ (k - 1) + 1 = k /\ k \in 0..15
      OBVIOUS
    <3>2. first[k] \in Nat /\ before[k] \in Nat /\ b[k] \in Nat
      BY <1>1, <2>2, <3>1
    <3>3. first[k + 1] = 2 * (first[k] + b[k]) /\ before[k + 1] = before[k] + b[k]
      BY <1>13, <3>1
    <3> QED
      BY <3>1, <3>2, <3>3
  <2> HIDE DEF S
  <2>3. \A k \in 0..15 : k \in S
    BY <2>1, <2>2, InductionUpTo
  <2> QED
    BY <2>3 DEF S
<1>15. ASSUME NEW l \in 1..16
       PROVE  first[l] \in Nat /\ before[l] \in Nat
  <2>1. l - 1 \in 0..15 /\ (l - 1) + 1 = l
    OBVIOUS
  <2> QED
    BY <1>14, <2>1
<1> QED
  BY <1>13, <1>15 DEF AreStarts, first, before

\* What they are: the codes of each length follow those of the shorter ones.
LEMMA StartsAre ==
  ASSUME NEW b, \A l \in 1..16 : b[l] \in Nat, NEW first, NEW before, AreStarts(first, before, b)
  PROVE  \A l \in 1..16 : /\ before[l] = UpTo(b)[l - 1]
                          /\ first[l] * 2^(16 - l) = UpTo(Weights(b))[l - 1]
<1> DEFINE u == UpTo(b)
           w == UpTo(Weights(b))
           S == {k \in 0..15 : before[k + 1] = u[k] /\ first[k + 1] * 2^(15 - k) = w[k]}
<1>1. u[0] = 0 /\ \A l \in 1..16 : u[l] = u[l - 1] + b[l]
  BY UpToDef
<1>2. w[0] = 0 /\ \A l \in 1..16 : w[l] = w[l - 1] + b[l] * 2^(16 - l)
  <2>1. \A l \in 1..16 : Weights(b)[l] \in Nat
    BY WeightsType
  <2>2. \A l \in 1..16 : Weights(b)[l] = b[l] * 2^(16 - l)
    BY DEF Weights
  <2>3. w[0] = 0 /\ \A l \in 1..16 : w[l] = w[l - 1] + Weights(b)[l]
    BY <2>1, UpToDef
  <2> HIDE DEF w
  <2> QED
    BY <2>2, <2>3
<1> HIDE DEF u, w
<1>3. 0 \in S
  BY <1>1, <1>2 DEF AreStarts
<1>4. ASSUME NEW k \in 1..15, k - 1 \in S
      PROVE  k \in S
  <2> DEFINE d == 2^(15 - k)
  <2>1. /\ k \in 1..16 /\ k \in 0..15 /\ k + 1 \in 2..16 /\ (k + 1) - 1 = k /\ (k - 1) + 1 = k
        /\ 15 - (k - 1) = 16 - k /\ 16 - k \in 1..16 /\ (16 - k) - 1 = 15 - k /\ 15 - k \in 0..16
    OBVIOUS
  <2>2. 2^(16 - k) = 2 * d /\ d \in Nat
    BY <2>1, PowersGrow
  <2>3. /\ first[k + 1] = 2 * (first[k] + b[k]) /\ before[k + 1] = before[k] + b[k]
        /\ first[k] \in Nat /\ b[k] \in Nat
    BY <2>1 DEF AreStarts
  <2>4. before[k] = u[k - 1] /\ first[k] * 2^(16 - k) = w[k - 1]
    BY <1>4, <2>1
  <2>5. u[k] = u[k - 1] + b[k] /\ w[k] = w[k - 1] + b[k] * 2^(16 - k)
    BY <1>1, <1>2, <2>1
  <2> HIDE DEF d
  <2>6. \A x, y, z \in Nat : (2 * (x + y)) * z = x * (2 * z) + y * (2 * z)
    OBVIOUS
  <2>7. first[k + 1] * d = w[k]
    <3>1. first[k + 1] * d = first[k] * (2 * d) + b[k] * (2 * d)
      BY <2>2, <2>3, <2>6
    <3> QED
      BY <2>2, <2>4, <2>5, <3>1
  <2> QED
    BY <2>1, <2>3, <2>4, <2>5, <2>7 DEF d
<1> HIDE DEF S
<1>5. \A k \in 0..15 : k \in S
  BY <1>3, <1>4, InductionUpTo
<1>6. ASSUME NEW l \in 1..16
      PROVE  before[l] = u[l - 1] /\ first[l] * 2^(16 - l) = w[l - 1]
  <2>1. l - 1 \in 0..15 /\ (l - 1) + 1 = l /\ 15 - (l - 1) = 16 - l
    OBVIOUS
  <2> QED
    BY <1>5, <2>1 DEF S
<1> QED
  BY <1>6 DEF u, w

\* The p-th code of a table, its length and its place among those of that length.
IsPlaced(q, l, i, before, b) == l \in 1..16 /\ i \in 0..(b[l] - 1) /\ q = before[l] + i + 1

LEMMA Cancelled ==
  ASSUME NEW x \in Int, NEW y \in Int, NEW s \in Nat, s >= 1, x * s = y * s
  PROVE  x = y
  OBVIOUS

IsSized(b, size, code) ==
  /\ \A l \in 1..16 : b[l] \in Nat
  /\ IsCanonical(UpTo(b)[16], size, code)
  /\ \A p \in 1..UpTo(b)[16] : UpTo(b)[size[p] - 1] < p /\ p <= UpTo(b)[size[p]]

LEMMA PlacesRebuilt ==
  ASSUME NEW b, NEW first, NEW before, AreStarts(first, before, b),
         NEW size, NEW code, IsSized(b, size, code), NEW q \in 1..UpTo(b)[16]
  PROVE  /\ IsPlaced(q, size[q], q - 1 - before[size[q]], before, b)
         /\ code[q] = first[size[q]] + (q - 1 - before[size[q]])
<1> DEFINE u == UpTo(b)
           w == UpTo(Weights(b))
           l == size[q]
           s == Space(size, q)
<1>0. /\ \A i \in 1..16 : b[i] \in Nat
      /\ IsCanonical(u[16], size, code)
      /\ \A p \in 1..u[16] : u[size[p] - 1] < p /\ p <= u[size[p]]
  BY DEF IsSized
<1>1. /\ l \in 1..16 /\ code[q] \in Int
      /\ code[q] * s = w[l - 1] + (q - 1 - u[l - 1]) * s
  BY <1>0, CodeAt
<1>2. u[16] \in Nat /\ u[l - 1] \in Nat /\ u[l] = u[l - 1] + b[l] /\ b[l] \in Nat
  <2>1. l - 1 \in 0..16 /\ 16 \in 0..16
    BY <1>1
  <2> HIDE DEF l
  <2> QED
    BY <1>0, <1>1, <2>1, UpToDef
<1>3. s \in Nat /\ 1 <= s /\ s = 2^(16 - l)
  BY <1>0, <1>2, SpaceType DEF IsCanonical, Space
<1>4. u[l - 1] < q /\ q <= u[l] /\ q \in Int
  BY <1>0, <1>2
<1>5. before[l] = u[l - 1] /\ first[l] * s = w[l - 1] /\ first[l] \in Nat
  <2> HIDE DEF l, s, u, w
  <2>1. before[l] = UpTo(b)[l - 1] /\ first[l] * 2^(16 - l) = UpTo(Weights(b))[l - 1]
    BY <1>0, <1>1, StartsAre
  <2> QED
    BY <1>1, <1>3, <2>1 DEF AreStarts, u, w
<1> HIDE DEF l, s, u, w
<1>6. code[q] * s = (first[l] + (q - 1 - u[l - 1])) * s
  <2>1. \A x, y, z \in Int : (x + y) * z = x * z + y * z
    OBVIOUS
  <2>2. q - 1 - u[l - 1] \in Int
    BY <1>2, <1>4
  <2> QED
    BY <1>1, <1>3, <1>5, <2>1, <2>2
<1>7. code[q] = first[l] + (q - 1 - u[l - 1])
  <2> DEFINE x == code[q]
             y == first[l] + (q - 1 - u[l - 1])
  <2>1. x \in Int /\ y \in Int /\ x * s = y * s
    BY <1>1, <1>2, <1>4, <1>5, <1>6
  <2> HIDE DEF x, y
  <2>2. x = y
    BY <1>3, <2>1, Cancelled
  <2> QED
    BY <2>2 DEF x, y
<1>8. IsPlaced(q, l, q - 1 - u[l - 1], before, b)
  BY <1>1, <1>2, <1>4, <1>5 DEF IsPlaced
<1> QED
  BY <1>5, <1>7, <1>8 DEF l

LEMMA SamePlace ==
  ASSUME NEW b, \A l \in 1..16 : b[l] \in Nat,
         NEW first, NEW before, AreStarts(first, before, b),
         NEW q \in Nat, NEW l, NEW i, IsPlaced(q, l, i, before, b),
         NEW m, NEW j, IsPlaced(q, m, j, before, b)
  PROVE  l = m /\ i = j
<1> DEFINE u == UpTo(b)
<1>1. l \in 1..16 /\ m \in 1..16 /\ before[l] = u[l - 1] /\ before[m] = u[m - 1]
  BY StartsAre DEF IsPlaced
<1>2. /\ u[l] = u[l - 1] + b[l] /\ u[m] = u[m - 1] + b[m] /\ u[l - 1] \in Nat /\ u[m - 1] \in Nat
      /\ b[l] \in Nat /\ b[m] \in Nat
  <2>1. l - 1 \in 0..16 /\ m - 1 \in 0..16
    BY <1>1
  <2> QED
    BY <1>1, <2>1, UpToDef
<1>3. /\ l < m => u[l] <= u[m - 1]
      /\ m < l => u[m] <= u[l - 1]
  <2>1. ASSUME l < m
        PROVE  u[l] <= u[m - 1]
    <3>1. l \in 0..16 /\ m - 1 \in 0..16 /\ l <= m - 1
      BY <1>1, <2>1
    <3> QED
      BY <3>1, UpToMonotone
  <2>2. ASSUME m < l
        PROVE  u[m] <= u[l - 1]
    <3>1. m \in 0..16 /\ l - 1 \in 0..16 /\ m <= l - 1
      BY <1>1, <2>2
    <3> QED
      BY <3>1, UpToMonotone
  <2> QED
    BY <2>1, <2>2
<1> HIDE DEF u
<1>4. /\ i \in Int /\ 0 <= i /\ i < b[l] /\ q = u[l - 1] + i + 1
      /\ j \in Int /\ 0 <= j /\ j < b[m] /\ q = u[m - 1] + j + 1
  BY <1>1, <1>2 DEF IsPlaced
<1>5. ~(l < m) /\ ~(m < l)
  BY <1>1, <1>2, <1>3, <1>4
<1>6. l = m
  BY <1>1, <1>5
<1> QED
  BY <1>2, <1>4, <1>6

\* Every place is that of a symbol.
LEMMA PlaceIn ==
  ASSUME NEW b, \A l \in 1..16 : b[l] \in Nat,
         NEW first, NEW before, AreStarts(first, before, b),
         NEW l \in 1..16, NEW i \in 0..(b[l] - 1)
  PROVE  before[l] + i + 1 \in 1..UpTo(b)[16] /\ IsPlaced(before[l] + i + 1, l, i, before, b)
<1> DEFINE u == UpTo(b)
<1>1. /\ before[l] = u[l - 1] /\ u[l] = u[l - 1] + b[l] /\ u[l - 1] \in Nat /\ b[l] \in Nat
      /\ u[l] <= u[16] /\ u[16] \in Nat
  <2>1. l - 1 \in 0..16 /\ l \in 0..16 /\ 16 \in 0..16 /\ l <= 16
    OBVIOUS
  <2>2. before[l] = u[l - 1]
    BY StartsAre
  <2>3. u[l] <= u[16]
    BY <2>1, UpToMonotone
  <2>4. u[l] = u[l - 1] + b[l] /\ u[l - 1] \in Nat /\ u[16] \in Nat
    BY <2>1, UpToDef
  <2> QED
    BY <2>2, <2>3, <2>4
<1> HIDE DEF u
<1>2. i \in Nat /\ i < b[l]
  BY <1>1
<1>3. before[l] + i + 1 \in 1..u[16]
  BY <1>1, <1>2
<1> QED
  BY <1>3 DEF IsPlaced, u

\* The table in the file: the numbers of codes of each length, then the symbols.
IsHuffmanTable(file, p, b, v) ==
  /\ \A l \in 1..16 : file[p + 4 + l] = b[l]
  /\ Len(v) = UpTo(b)[16]
  /\ \A k \in 1..Len(v) : file[p + 20 + k] = v[k]

\* Where CodesOf looks for table t.
TableAt(file, t) == CHOOSE s \in OfKind(file, 196) : file[s + 4] = t

\* What CodesOf makes of it.
IsRebuilt(codes, first, before, b, v) ==
  /\ \A d : d \in DOMAIN codes <=>
              \E l \in 1..16 : \E i \in 0..(b[l] - 1) : d = <<l, first[l] + i>>
  /\ \A l \in 1..16 : \A i \in 0..(b[l] - 1) : codes[<<l, first[l] + i>>] = v[before[l] + i + 1]

LEMMA PlaceSum ==
  ASSUME NEW n \in Int, NEW x \in Int, NEW y \in Int, NEW z \in Int
  PROVE  n + 21 + x + (y + z) - y = n + 20 + (x + z + 1)
  OBVIOUS

LEMMA CodesRebuilt ==
  ASSUME NEW file, NEW t, NEW p \in Nat, p = TableAt(file, t),
         NEW b, \A l \in 1..16 : b[l] \in Nat, NEW v, IsHuffmanTable(file, p, b, v)
  PROVE  \E first, before : /\ AreStarts(first, before, b)
                            /\ IsRebuilt(CodesOf(file, t), first, before, b, v)
<1> DEFINE first == FirstOf(file, p)
           before == BeforeOf(file, p)
           D == UNION {{<<l, first[l] + i>> : i \in 0..(file[p + 4 + l] - 1)} : l \in 1..16}
<1>1. AreStarts(first, before, b)
  <2>1. \A l \in 1..16 : file[p + 4 + l] = b[l]
    BY DEF IsHuffmanTable
  <2> QED
    BY <2>1, StartsExist
<1>2. CodesOf(file, t)
        = [code \in D |-> file[p + 21 + before[code[1]] + code[2] - first[code[1]]]]
  BY DEF CodesOf, FirstOf, BeforeOf, TableAt
<1> HIDE DEF first, before
<1>3. \A d : d \in D <=> \E l \in 1..16 : \E i \in 0..(b[l] - 1) : d = <<l, first[l] + i>>
  <2>1. \A l \in 1..16 : file[p + 4 + l] = b[l]
    BY DEF IsHuffmanTable
  <2>2. \A d : d \in D <=> \E l \in 1..16 : \E i \in 0..(file[p + 4 + l] - 1) :
                              d = <<l, first[l] + i>>
    OBVIOUS
  <2> HIDE DEF D
  <2>3. ASSUME NEW d, d \in D
        PROVE  \E l \in 1..16 : \E i \in 0..(b[l] - 1) : d = <<l, first[l] + i>>
    <3>1. PICK l \in 1..16 : \E i \in 0..(file[p + 4 + l] - 1) : d = <<l, first[l] + i>>
      BY <2>2, <2>3
    <3>2. \E i \in 0..(b[l] - 1) : d = <<l, first[l] + i>>
      BY <2>1, <3>1
    <3> QED
      BY <3>2
  <2>4. ASSUME NEW l \in 1..16, NEW i \in 0..(b[l] - 1)
        PROVE  <<l, first[l] + i>> \in D
    <3>1. i \in 0..(file[p + 4 + l] - 1)
      BY <2>1
    <3> QED
      BY <2>2, <3>1
  <2> QED
    BY <2>3, <2>4
<1> DEFINE at(l, i) == p + 21 + before[l] + (first[l] + i) - first[l]
<1>4. ASSUME NEW l \in 1..16, NEW i \in 0..(b[l] - 1)
      PROVE  CodesOf(file, t)[<<l, first[l] + i>>] = v[before[l] + i + 1]
  <2>1. <<l, first[l] + i>> \in D
    BY <1>3
  <2>2. CodesOf(file, t)[<<l, first[l] + i>>] = file[at(l, i)]
    <3> HIDE DEF D
    <3> QED
      BY <1>2, <2>1
  <2>3. first[l] \in Nat /\ before[l] \in Nat
    BY <1>1 DEF AreStarts
  <2>4. before[l] + i + 1 \in 1..Len(v)
    BY <1>1, PlaceIn DEF IsHuffmanTable
  <2>5. at(l, i) = p + 20 + (before[l] + i + 1)
    <3>2. i \in Int
      OBVIOUS
    <3>3. \A n \in Nat : n \in Int
      OBVIOUS
    <3>4. first[l] \in Int /\ before[l] \in Int /\ p \in Int
      BY <2>3, <3>3, Zenon
    <3> QED
      BY <3>2, <3>4, PlaceSum
  <2>6. file[p + 20 + (before[l] + i + 1)] = v[before[l] + i + 1]
    BY <2>4 DEF IsHuffmanTable
  <2> HIDE DEF at
  <2> QED
    BY <2>2, <2>5, <2>6
<1>5. IsRebuilt(CodesOf(file, t), first, before, b, v)
  <2>1. DOMAIN CodesOf(file, t) = D
    BY <1>2
  <2> HIDE DEF D
  <2> QED
    BY <1>3, <1>4, <2>1 DEF IsRebuilt
<1> QED
  BY <1>1, <1>5

\* The code of the q-th symbol, and its place.
IsCodeOf(codes, v, q, size, code) ==
  <<size[q], code[q]>> \in DOMAIN codes /\ codes[<<size[q], code[q]>>] = v[q]

LEMMA SpecParts ==
  ASSUME NEW b, NEW v, NEW n, IsHuffmanSpec(b, v, n)
  PROVE  /\ \A l \in 1..16 : b[l] \in Nat
         /\ Len(v) = UpTo(b)[16] /\ \A q \in 1..Len(v) : v[q] \in 0..255
<1>1. b \in Seq(0..255) /\ v \in Seq(0..255) /\ Len(b) = 16 /\ Len(v) = n /\ Total(b) = n
  BY DEF IsHuffmanSpec
<1>2. \A l \in 1..16 : b[l] \in 0..255
  BY <1>1, ElementOfSeq
<1>3. \A q \in 1..Len(v) : v[q] \in 0..255
  BY <1>1, ElementOfSeq
<1>4. \A l \in 1..16 : b[l] \in Nat
  <2>1. \A x \in 0..255 : x \in Nat
    OBVIOUS
  <2> QED
    BY <1>2, <2>1, Zenon
<1> QED
  BY <1>1, <1>3, <1>4, UpToSum

IsBookOf(codes, n, v, size, code) ==
  /\ AllDiffer(v, n)
  /\ \A q \in 1..n : v[q] \in 0..255 /\ IsCodeOf(codes, v, q, size, code)
  /\ \A d \in DOMAIN codes : \E q \in 1..n : d = <<size[q], code[q]>>

LEMMA BookOf ==
  ASSUME NEW n, NEW size, NEW code, NEW table, NEW v, IsTableOf(table, n, v, size, code),
         NEW codes, IsBookOf(codes, n, v, size, code)
  PROVE  IsCodeBook(codes, table)
<1>0. /\ AllDiffer(v, n)
      /\ \A q \in 1..n : v[q] \in 0..255 /\ IsCodeOf(codes, v, q, size, code)
      /\ \A d \in DOMAIN codes : \E q \in 1..n : d = <<size[q], code[q]>>
  BY DEF IsBookOf
<1>1. ASSUME NEW x \in 0..255, table[x].size # 0
      PROVE  \E q \in 1..n : v[q] = x /\ Code(table, x) = <<size[q], code[q]>>
  <2>1. table[x] # [bits |-> 0, size |-> 0]
    BY <1>1
  <2>2. PICK q \in 1..n : v[q] = x /\ table[x] = TableWord(size, code, q)
    BY <2>1 DEF IsTableOf
  <2>3. Code(table, x) = <<size[q], code[q]>>
    BY <2>2 DEF Code, TableWord
  <2> QED
    BY <2>2, <2>3
<1>2. ASSUME NEW x \in 0..255, table[x].size # 0
      PROVE  Code(table, x) \in DOMAIN codes /\ codes[Code(table, x)] = x
  <2>1. PICK q \in 1..n : v[q] = x /\ Code(table, x) = <<size[q], code[q]>>
    BY <1>1, <1>2
  <2> QED
    BY <1>0, <2>1 DEF IsCodeOf
<1>3. ASSUME NEW d \in DOMAIN codes
      PROVE  \E x \in 0..255 : table[x].size # 0 /\ d = Code(table, x)
  <2>1. PICK q \in 1..n : d = <<size[q], code[q]>>
    BY <1>0
  <2>2. v[q] \in 0..255 /\ table[v[q]].size # 0
    BY <1>0 DEF IsTableOf
  <2>3. PICK p \in 1..n : v[p] = v[q] /\ Code(table, v[q]) = <<size[p], code[p]>>
    BY <1>1, <2>2
  <2>4. p = q
    BY <1>0, <2>3, Zenon DEF AllDiffer
  <2> QED
    BY <2>1, <2>2, <2>3, <2>4
<1>4. DOMAIN codes = {Code(table, x) : x \in {y \in 0..255 : table[y].size # 0}}
  <2>1. \A x \in 0..255 : table[x].size # 0 => Code(table, x) \in DOMAIN codes
    BY <1>2
  <2> QED
    BY <1>3, <2>1, ZenonT(40)
<1> QED
  BY <1>2, <1>4, Zenon DEF IsCodeBook

\* The codes that CodesOf rebuilds are those the encoder uses.
LEMMA BookRebuilt ==
  ASSUME NEW class \in {"DC", "AC"}, NEW t \in 1..2, NEW first, NEW before, NEW codes,
         AreStarts(first, before, m_huff_bits[class][t]),
         IsRebuilt(codes, first, before, m_huff_bits[class][t], m_huff_val[class][t])
  PROVE  IsCodeBook(codes, m_huff_codes[class][t])
<1> DEFINE b == m_huff_bits[class][t]
           v == m_huff_val[class][t]
           n == UpTo(b)[16]
           size == HuffSize(b)
           code == HuffCode(size)
           table == compute_huffman_table(b, v)
<1>1. m_huff_codes[class][t] = table
  BY DEF m_huff_codes
<1>2. PICK k : IsHuffmanSpec(b, v, k)
  BY StandardTables
<1>3. AreStarts(first, before, b) /\ IsRebuilt(codes, first, before, b, v)
  OBVIOUS
<1>4. AllDiffer(v, Len(v))
  BY SymbolsDiffer
<1> HIDE DEF b, v
<1>5. \A l \in 1..16 : b[l] \in Nat
  BY <1>2, SpecParts
<1>6. Len(v) = n /\ \A q \in 1..n : v[q] \in 0..255
  BY <1>2, SpecParts
<1>7. n \in Nat
  BY <1>5, UpToDef
<1>8. /\ size \in [1..n -> 1..16]
      /\ \A p \in 2..n : size[p - 1] <= size[p]
      /\ \A p \in 1..n : UpTo(b)[size[p] - 1] < p /\ p <= UpTo(b)[size[p]]
  BY <1>5, HuffSizeType, Zenon
<1>9. HuffSize(b) = size
  OBVIOUS
<1> HIDE DEF size
<1>10. IsCanonical(n, size, code)
  <2> HIDE DEF n
  <2> QED
    BY <1>7, <1>8, HuffCodeType, Zenon
<1>11. HuffCode(size) = code
  OBVIOUS
<1> HIDE DEF code
<1>12. IsTableOf(table, n, v, size, code)
  <2> HIDE DEF n, table
  <2>1. IsTableOf(compute_huffman_table(b, v), n, v, size, code)
    BY <1>6, <1>7, <1>9, <1>10, <1>11, HuffmanTableOf, Zenon
  <2> QED
    BY <2>1 DEF table
<1>13. ASSUME NEW q \in 1..n
       PROVE  /\ IsPlaced(q, size[q], q - 1 - before[size[q]], before, b)
              /\ code[q] = first[size[q]] + (q - 1 - before[size[q]])
  <2>1. AreStarts(first, before, b) /\ q \in 1..UpTo(b)[16]
    BY <1>3
  <2>2. IsSized(b, size, code)
    BY <1>5, <1>8, <1>10, Zenon DEF IsSized
  <2> QED
    BY <2>1, <2>2, PlacesRebuilt
<1> HIDE DEF table
<1>14. ASSUME NEW q \in 1..n
       PROVE  IsCodeOf(codes, v, q, size, code)
  <2> DEFINE l == size[q]
             i == q - 1 - before[l]
  <2>1. l \in 1..16 /\ i \in 0..(b[l] - 1) /\ q = before[l] + i + 1 /\ code[q] = first[l] + i
    BY <1>13 DEF IsPlaced
  <2> HIDE DEF l, i
  <2>2. /\ <<l, first[l] + i>> \in DOMAIN codes
        /\ codes[<<l, first[l] + i>>] = v[before[l] + i + 1]
    BY <1>3, <2>1 DEF IsRebuilt
  <2> QED
    BY <2>1, <2>2 DEF IsCodeOf, l
<1>15. ASSUME NEW d \in DOMAIN codes
       PROVE  \E q \in 1..n : d = <<size[q], code[q]>>
  <2>1. PICK l \in 1..16 : \E i \in 0..(b[l] - 1) : d = <<l, first[l] + i>>
    BY <1>3 DEF IsRebuilt
  <2>2. PICK i \in 0..(b[l] - 1) : d = <<l, first[l] + i>>
    BY <2>1
  <2> DEFINE q == before[l] + i + 1
  <2>3. q \in 1..n /\ IsPlaced(q, l, i, before, b)
    BY <1>3, <1>5, PlaceIn
  <2> HIDE DEF q
  <2>4. /\ IsPlaced(q, size[q], q - 1 - before[size[q]], before, b)
        /\ code[q] = first[size[q]] + (q - 1 - before[size[q]])
    BY <1>13, <2>3
  <2>5. q \in Nat
    BY <1>7, <2>3
  <2>6. l = size[q] /\ i = q - 1 - before[size[q]]
    BY <1>3, <1>5, <2>3, <2>4, <2>5, SamePlace
  <2>7. d = <<size[q], code[q]>>
    BY <2>2, <2>4, <2>6
  <2> QED
    BY <2>3, <2>7
<1> HIDE DEF n
<1>17. AllDiffer(v, n)
  BY <1>4, <1>6
<1>18. IsCodeBook(codes, table)
  <2>1. IsBookOf(codes, n, v, size, code)
    BY <1>6, <1>14, <1>15, <1>17, Zenon DEF IsBookOf
  <2> QED
    BY <1>12, <2>1, BookOf
<1> QED
  BY <1>1, <1>18

LEMMA CodesOfTable ==
  ASSUME NEW class \in {"DC", "AC"}, NEW t \in 1..2, NEW file, NEW id, NEW p \in Nat,
         p = TableAt(file, id),
         IsHuffmanTable(file, p, m_huff_bits[class][t], m_huff_val[class][t])
  PROVE  IsCodeBook(CodesOf(file, id), m_huff_codes[class][t])
<1> DEFINE b == m_huff_bits[class][t]
<1>1. \A l \in 1..16 : b[l] \in Nat
  <2>1. PICK k : IsHuffmanSpec(b, m_huff_val[class][t], k)
    BY StandardTables
  <2> HIDE DEF b
  <2> QED
    BY <2>1, SpecParts
<1>2. PICK first, before :
        /\ AreStarts(first, before, b)
        /\ IsRebuilt(CodesOf(file, id), first, before, b, m_huff_val[class][t])
  <2>1. IsHuffmanTable(file, p, b, m_huff_val[class][t])
    OBVIOUS
  <2> HIDE DEF b
  <2> QED
    BY <1>1, <2>1, CodesRebuilt
<1> QED
  BY <1>2, BookRebuilt

-------------------------------------------------------------------------------
(* The encoder writes the words of all blocks of the scan, in order.            *)

(* An encoder that has written some blocks since start: their words, up to the  *)
(* bits that wait in m_bit_buffer, and the first coefficients of the last ones. *)
CodedOf(block) == [comp |-> block.comp, coef |-> CoefOf(block)]
IsBehind(e, start, g) == Carried(start, Joined(WordBits, g.words), e) /\ e.lastDC = g.dc
HasCoded(e, start, coded) ==
  /\ e \in Encoder /\ start \in Encoder /\ coded \in Seq(CodedBlocks)
  /\ \E g : IsCoding(g, coded) /\ IsBehind(e, start, g[Len(coded)])

LEMMA NothingCoded ==
  ASSUME NEW e \in Encoder, e.lastDC = <<0, 0, 0>>
  PROVE  HasCoded(e, e, <<>>)
<1> DEFINE g == [n \in 0..0 |-> NoneCoded]
<1>1. <<>> \in Seq(CodedBlocks) /\ Len(<<>>) = 0
  BY EmptySeq
<1>2. g[0] = NoneCoded
  OBVIOUS
<1>3. \A n \in 1..0 : FALSE
  OBVIOUS
<1> HIDE DEF g
<1>4. IsCoding(g, <<>>)
  BY <1>1, <1>2, <1>3 DEF IsCoding
<1>5. Joined(WordBits, <<>>) = <<>>
  <2>1. [bits |-> 0, size |-> 0] \in CodeWord
    <3>1. 0 \in Int /\ 0 <= 0 /\ 0 \in 0..16 /\ 0 < 2^0
      OBVIOUS
    <3> QED
      BY <3>1 DEF CodeWord
  <2> QED
    BY <2>1, BitFunctions, JoinedShort
<1>6. g[Len(<<>>)] = NoneCoded
  BY <1>1, <1>2
<1>7. IsBehind(e, e, g[Len(<<>>)])
  BY <1>5, <1>6, NothingCarried DEF IsBehind, NoneCoded
<1> QED
  BY <1>1, <1>4, <1>7 DEF HasCoded

\* One more block: the words grow by those of the block.
LEMMA CodingGrows ==
  ASSUME NEW coded \in Seq(CodedBlocks), NEW g, IsCoding(g, coded), NEW b \in CodedBlocks
  PROVE  \E more : /\ IsCoding(more, Append(coded, b))
                   /\ more[Len(Append(coded, b))] = CodeOne(g[Len(coded)], b)
<1> DEFINE m == Len(coded)
           all == Append(coded, b)
           more == [n \in 0..(m + 1) |-> IF n <= m THEN g[n] ELSE CodeOne(g[m], b)]
<1>1. m \in Nat
  BY LenProperties
<1>2. /\ Len(all) = m + 1 /\ all[m + 1] = b
      /\ \A n \in 1..m : all[n] = coded[n]
  BY AppendProperties
<1>3. /\ g[0] = NoneCoded
      /\ \A n \in 1..m : g[n] = CodeOne(g[n - 1], coded[n])
  BY DEF IsCoding
<1> HIDE DEF m, all
<1>4. /\ \A n \in 0..m : more[n] = g[n]
      /\ more[m + 1] = CodeOne(g[m], b)
  BY <1>1
<1> HIDE DEF more
<1>5. more[0] = NoneCoded
  BY <1>1, <1>3, <1>4
<1>6. ASSUME NEW n \in 1..(m + 1)
      PROVE  more[n] = CodeOne(more[n - 1], all[n])
  <2>1. n - 1 \in 0..m /\ more[n - 1] = g[n - 1]
    BY <1>1, <1>4
  <2>2. CASE n = m + 1
    <3>1. n - 1 = m
      BY <1>1, <2>2
    <3> QED
      BY <1>2, <1>4, <2>1, <2>2, <3>1
  <2>3. CASE n # m + 1
    <3>1. n \in 1..m /\ n \in 0..m
      BY <1>1, <2>3
    <3> QED
      BY <1>2, <1>3, <1>4, <2>1, <3>1
  <2> QED
    BY <2>2, <2>3
<1>7. IsCoding(more, all)
  BY <1>2, <1>5, <1>6 DEF IsCoding
<1>8. more[Len(all)] = CodeOne(g[m], b)
  BY <1>2, <1>4
<1> QED
  BY <1>7, <1>8 DEF m, all

LEMMA CodedOfType ==
  ASSUME QuantReady, NEW e \in Encoder, NEW block \in SampleBlock
  PROVE  CodedOf(block) \in CodedBlocks
<1>1. IsBlock(CoefOf(block))
  BY BlockIsWritten
<1>2. block.comp \in 0..2
  BY DEF SampleBlock
<1>3. CoefOf(block) \in [0..63 -> Int]
  <2>1. \A k \in 0..63 : CoefOf(block)[k] \in Int
    BY <1>1 DEF IsBlock, IsCoefficient, Between
  <2>2. CoefOf(block) = [k \in 0..63 |-> CoefOf(block)[k]]
    BY DEF CoefOf, load_quantized_coefficients
  <2> QED
    BY <2>1, <2>2
<1> QED
  BY <1>1, <1>2, <1>3 DEF CodedOf, CodedBlocks

\* code_block: the block is one more of those that have been coded.
LEMMA BlockIsCoded ==
  ASSUME QuantReady, NEW e, NEW start, NEW coded, HasCoded(e, start, coded),
         NEW block \in SampleBlock
  PROVE  HasCoded(code_block(e, block), start, Append(coded, CodedOf(block)))
<1> DEFINE m == Len(coded)
           b == CodedOf(block)
           new == code_block(e, block)
           t == Table(b.comp)
           words == code_coefficients_pass_two(t, b.coef, e.lastDC[b.comp + 1])
           bits == Joined(WordBits, words)
           all == Append(coded, b)
<1>1. PICK g : IsCoding(g, coded) /\ IsBehind(e, start, g[m])
  BY DEF HasCoded
<1>2. e \in Encoder /\ start \in Encoder /\ coded \in Seq(CodedBlocks)
  BY DEF HasCoded
<1>3. b \in CodedBlocks /\ b.comp = block.comp /\ b.coef = CoefOf(block)
  BY <1>2, CodedOfType DEF CodedOf
<1>4. /\ new \in Encoder /\ words \in Seq(CodeWord) /\ Carried(e, bits, new)
      /\ new.lastDC = [e.lastDC EXCEPT ![b.comp + 1] = b.coef[0]]
  BY <1>2, <1>3, BlockIsWritten
<1> HIDE DEF b
<1>5. PICK more : IsCoding(more, all) /\ more[Len(all)] = CodeOne(g[m], b)
  BY <1>1, <1>2, <1>3, CodingGrows
<1>6. m \in Nat /\ g[m] \in Codings
  <2>1. m \in Nat /\ \A n \in 0..m : g[n] \in Codings
    BY <1>1, <1>2, CodingType
  <2> QED
    BY <2>1
<1> DEFINE old == g[m]
           next == CodeOne(old, b)
<1> HIDE DEF m
<1>7. Carried(start, Joined(WordBits, old.words), e) /\ e.lastDC = old.dc
  BY <1>1 DEF IsBehind
<1>8. old \in Codings
  BY <1>6
<1>9. more[Len(all)] = next
  BY <1>5
<1> HIDE DEF old
<1>10. /\ next.words = old.words \o words /\ old.words \in Words
       /\ next.dc = [old.dc EXCEPT ![b.comp + 1] = b.coef[0]]
  BY <1>3, <1>7, <1>8, CodeOneParts
<1> HIDE DEF next, words, new
<1> DEFINE a == Joined(WordBits, old.words)
<1>11. a \in Seq(Binary) /\ bits \in Seq(Binary)
       /\ Joined(WordBits, old.words \o words) = a \o bits
  BY <1>4, <1>10, WordsJoined DEF Words
<1> HIDE DEF bits
<1>12. Carried(start, a, e)
  BY <1>7
<1> HIDE DEF a
<1>13. Carried(start, a \o bits, new)
  BY <1>2, <1>4, <1>11, <1>12, CarriedOn
<1>14. IsBehind(new, start, next)
  BY <1>4, <1>7, <1>10, <1>11, <1>13 DEF IsBehind
<1>15. all \in Seq(CodedBlocks)
  BY <1>2, <1>3, AppendProperties
<1> HIDE DEF all
<1>16. HasCoded(new, start, all)
  BY <1>2, <1>4, <1>5, <1>9, <1>14, <1>15 DEF HasCoded
<1> QED
  BY <1>16 DEF new, all, b

(* process_mcu_row: the blocks of the row are coded, one after the other.       *)
IsCodedOn(all, coded, blocks) ==
  /\ all \in Seq(CodedBlocks) /\ Len(all) = Len(coded) + Len(blocks)
  /\ \A k \in 1..Len(coded) : all[k] = coded[k]
  /\ \A k \in 1..Len(blocks) : all[Len(coded) + k] = CodedOf(blocks[k])

LEMMA CodedOnBy ==
  ASSUME NEW coded \in Seq(CodedBlocks), NEW blocks \in Seq(SampleBlock),
         NEW all, IsCodedOn(all, coded, blocks)
  PROVE  LET m == Len(coded)
         IN  /\ m \in Nat /\ Len(blocks) \in Nat
             /\ SubSeq(all, 1, m) = coded /\ SubSeq(all, 1, m + Len(blocks)) = all
             /\ \A k \in 1..Len(blocks) :
                  SubSeq(all, 1, m + k)
                    = Append(SubSeq(all, 1, m + (k - 1)), CodedOf(blocks[k]))
<1> DEFINE m == Len(coded)
           n == Len(blocks)
<1>1. m \in Nat /\ n \in Nat
  BY LenProperties
<1>2. /\ all \in Seq(CodedBlocks) /\ Len(all) = m + n
      /\ \A k \in 1..m : all[k] = coded[k]
      /\ \A k \in 1..n : all[m + k] = CodedOf(blocks[k])
  BY DEF IsCodedOn
<1>3. coded \in Seq(CodedBlocks) /\ Len(coded) = m
  OBVIOUS
<1> HIDE DEF m, n
<1>4. SubSeq(all, 1, m + n) = all
  BY <1>2, SubSeqFull
<1>5. SubSeq(all, 1, m) = coded
  <2> DEFINE part == SubSeq(all, 1, m)
  <2>1. m <= Len(all)
    BY <1>1, <1>2
  <2>2. /\ part \in Seq(CodedBlocks) /\ Len(part) = m
        /\ \A k \in 1..m : part[k] = all[k]
    <3>1. \A k \in 1..m : all[k] \in CodedBlocks /\ k \in 1..Len(all)
      <4>1. \A k \in 1..m : k \in 1..Len(all)
        BY <1>1, <2>1, <1>2
      <4> QED
        BY <1>2, <4>1, ElementOfSeq
    <3>2. part = [k \in 1..m |-> all[k]]
      BY <1>1, SMT
    <3> HIDE DEF part
    <3> QED
      BY <1>1, <3>1, <3>2
  <2> HIDE DEF part
  <2> QED
    BY <1>2, <1>3, <2>2, SeqEqual DEF part
<1>6. ASSUME NEW k \in 1..n
      PROVE  SubSeq(all, 1, m + k) = Append(SubSeq(all, 1, m + (k - 1)), CodedOf(blocks[k]))
  <2> DEFINE i == m + k
  <2>1. i \in 1..Len(all) /\ i - 1 = m + (k - 1)
    BY <1>1, <1>2
  <2>2. all[i] = CodedOf(blocks[k])
    BY <1>2
  <2> HIDE DEF i
  <2>3. /\ SubSeq(all, 1, i - 1) \in Seq(CodedBlocks) /\ all[i] \in CodedBlocks
        /\ SubSeq(all, 1, i) = SubSeq(all, 1, i - 1) \o <<all[i]>>
    BY <1>2, <2>1, Beginning
  <2>4. SubSeq(all, 1, i - 1) \o <<all[i]>> = Append(SubSeq(all, 1, i - 1), all[i])
    BY <2>3, AppendIsConcat
  <2> QED
    BY <2>1, <2>2, <2>3, <2>4 DEF i
<1> QED
  BY <1>1, <1>4, <1>5, <1>6 DEF m, n

LEMMA RowIsCoded ==
  ASSUME QuantReady, NEW e, NEW start, NEW coded, HasCoded(e, start, coded),
         NEW f \in Frames, NEW lines \in Seq(Line(f)), Len(lines) = McuSize(f),
         NEW all, IsCodedOn(all, coded, Blocks(f, lines))
  PROVE  HasCoded(process_mcu_row(e, f, lines), start, all)
<1> DEFINE blocks == Blocks(f, lines)
           n == Len(blocks)
           m == Len(coded)
           part(k) == SubSeq(all, 1, m + k)
           Body(g) == [k \in 0..n |-> IF k = 0 THEN e ELSE code_block(g[k - 1], blocks[k])]
           after == CHOOSE g : g = Body(g)
           F == [k \in 1..n |-> [s \in Encoder |-> code_block(s, blocks[k])]]
<1>1. process_mcu_row(e, f, lines) = after[n]
  BY DEF process_mcu_row
<1>2. blocks \in Seq(SampleBlock)
  BY BlocksType
<1>12. e \in Encoder /\ coded \in Seq(CodedBlocks)
  BY DEF HasCoded
<1>13. IsCodedOn(all, coded, blocks)
  OBVIOUS
<1> HIDE DEF blocks
<1>14. /\ n \in Nat /\ part(0) = coded /\ part(n) = all
       /\ \A k \in 1..n : part(k) = Append(part(k - 1), CodedOf(blocks[k]))
  <2>1. /\ m \in Nat /\ n \in Nat
        /\ SubSeq(all, 1, m) = coded /\ SubSeq(all, 1, m + n) = all
        /\ \A k \in 1..n : SubSeq(all, 1, m + k)
                             = Append(SubSeq(all, 1, m + (k - 1)), CodedOf(blocks[k]))
    BY <1>2, <1>12, <1>13, CodedOnBy
  <2>2. m + 0 = m
    BY <2>1
  <2> QED
    BY <2>1, <2>2
<1> HIDE DEF part, m
<1>4. \A k \in 1..n : blocks[k] \in SampleBlock
  BY <1>2, ElementOfSeq
<1> HIDE DEF n
<1>5. F \in [1..n -> [Encoder -> Encoder]]
  BY <1>4, BlockIsWritten
<1>6. PICK g \in [0..n -> Encoder] : IsLoop(g, n, e, F)
  <2> HIDE DEF F
  <2> QED
    BY <1>5, <1>12, <1>14, LoopExists
<1>7. g = Body(g)
  <2>1. ASSUME NEW k \in 0..n
        PROVE  g[k] = IF k = 0 THEN e ELSE code_block(g[k - 1], blocks[k])
    <3>1. CASE k = 0
      BY <1>6, <3>1 DEF IsLoop
    <3>2. CASE k # 0
      <4>1. k \in 1..n /\ k - 1 \in 0..n
        BY <1>14, <3>2
      <4>2. g[k] = F[k][g[k - 1]] /\ g[k - 1] \in Encoder
        <5> HIDE DEF F
        <5> QED
          BY <1>6, <4>1 DEF IsLoop
      <4> QED
        BY <3>2, <4>1, <4>2
    <3> QED
      BY <3>1, <3>2
  <2> QED
    BY <2>1
<1>8. after = Body(after)
  <2> HIDE DEF Body
  <2> QED
    BY <1>7
<1> HIDE DEF after
<1> DEFINE Good(k) == HasCoded(after[k], start, part(k))
<1>9. Good(0)
  BY <1>8, <1>14
<1>10. ASSUME NEW k \in 1..n, Good(k - 1)
       PROVE  Good(k)
  <2>1. after[k] = code_block(after[k - 1], blocks[k])
    BY <1>8, <1>14
  <2>2. HasCoded(code_block(after[k - 1], blocks[k]), start,
                 Append(part(k - 1), CodedOf(blocks[k])))
    BY <1>4, <1>10, BlockIsCoded
  <2> QED
    BY <1>14, <2>1, <2>2
<1> DEFINE S == {k \in 0..n : Good(k)}
<1>11. n \in S
  <2> HIDE DEF Good
  <2>1. 0 \in S
    BY <1>9, <1>14
  <2>2. ASSUME NEW k \in 1..n, k - 1 \in S
        PROVE  k \in S
    <3>1. Good(k - 1)
      BY <2>2
    <3>2. Good(k) /\ k \in 0..n
      BY <1>10, <1>14, <3>1
    <3> QED
      BY <3>2
  <2> HIDE DEF S
  <2>3. \A k \in 0..n : k \in S
    BY <1>14, <2>1, <2>2, InductionUpTo
  <2> QED
    BY <1>14, <2>3
<1>15. Good(n)
  BY <1>11
<1> QED
  BY <1>1, <1>14, <1>15

\* The bits that wait are less than a byte.
LEMMA LessThanByte ==
  ASSUME NEW e \in Encoder
  PROVE  Len(Waiting(e)) \in 0..7
<1> DEFINE k == e.bitsIn
           v == e.bitBuffer \div 2^(24 - k)
<1>1. Waiting(e) = Bits(v, k)
  BY DEF Waiting
<1>2. e \in EncoderType
  BY DEF Encoder
<1>3. k \in 0..7
  BY <1>2 DEF EncoderType
<1> HIDE DEF v, k
<1>4. Len(Bits(v, k)) = k
  <2>1. k \in Nat
    BY <1>3
  <2> QED
    BY <2>1 DEF Bits
<1> QED
  BY <1>1, <1>3, <1>4

LEMMA BinaryConcat ==
  \A a, b \in Seq(Binary) : /\ Len(a) \in Nat /\ Len(a \o b) = Len(a) + Len(b)
                            /\ \A i \in 1..Len(a) : (a \o b)[i] = a[i]
<1>1. ASSUME NEW a \in Seq(Binary), NEW b \in Seq(Binary)
      PROVE  /\ Len(a) \in Nat /\ Len(a \o b) = Len(a) + Len(b)
             /\ \A i \in 1..Len(a) : (a \o b)[i] = a[i]
  BY ConcatParts
<1> QED
  BY <1>1

LEMMA UpToSeven == \A n \in 0..7 : n \in Nat /\ n <= 7
  OBVIOUS

LEMMA BytesHold ==
  ASSUME NEW data \in Data, NEW a \in Seq(Binary), NEW b \in Seq(Binary), NEW w \in Seq(Binary),
         a \o b = Joined(ByteBits, data) \o w, Len(b) = 7, Len(w) \in 0..7
  PROVE  /\ Len(a) \in Nat /\ Len(a) <= 8 * Len(data) /\ 8 * Len(data) < Len(a) + 8
         /\ Holds(data, 0, a)
<1> DEFINE bits == Joined(ByteBits, data)
           all == a \o b
           m == Len(a)
           n == Len(data)
<1>1. AreBitsOf(bits, data)
  BY BitsOfData DEF Data
<1>2. bits \in Seq(Binary)
  BY BytesJoined DEF Data
<1>3. all = bits \o w
  OBVIOUS
<1>4. n \in Nat /\ Len(bits) = 8 * n
  BY <1>1, LenProperties DEF AreBitsOf, Data
<1>5. \A k \in Nat : k < 8 * n => Bit(data, k) = bits[k + 1]
  BY <1>1 DEF AreBitsOf
<1>6. /\ m \in Nat /\ Len(all) = m + 7
      /\ \A i \in 1..m : all[i] = a[i]
  <2>1. /\ Len(a) \in Nat /\ Len(a \o b) = Len(a) + Len(b)
        /\ \A i \in 1..Len(a) : (a \o b)[i] = a[i]
    <3> HIDE DEF all, bits, m, n
    <3>1. a \in Seq(Binary) /\ b \in Seq(Binary)
      OBVIOUS
    <3> QED
      BY <3>1, BinaryConcat, Zenon
  <2> QED
    BY <2>1
<1> HIDE DEF all
<1>7. /\ Len(all) = 8 * n + Len(w)
      /\ \A i \in 1..(8 * n) : all[i] = bits[i]
  <2> HIDE DEF bits
  <2>1. /\ Len(bits \o w) = Len(bits) + Len(w)
        /\ \A i \in 1..Len(bits) : (bits \o w)[i] = bits[i]
    BY <1>2, ConcatParts
  <2> QED
    BY <1>3, <1>4, <2>1
<1> HIDE DEF bits, m, n
<1>8. m <= 8 * n /\ 8 * n < m + 8
  <2> DEFINE l == Len(all)
             k == Len(w)
  <2>1. k \in Nat /\ k <= 7
    <3>1. k \in 0..7
      BY Zenon
    <3> HIDE DEF k
    <3> QED
      BY <3>1, UpToSeven
  <2>2. l = m + 7 /\ l = 8 * n + k /\ m \in Nat /\ n \in Nat
    BY <1>4, <1>6, <1>7
  <2> HIDE DEF l, k
  <2> QED
    BY <2>1, <2>2
<1>9. ASSUME NEW i \in 1..m
      PROVE  Bit(data, 0 + i - 1) = a[i]
  <2> DEFINE k == i - 1
  <2>1. k \in Nat /\ k < 8 * n /\ k + 1 = i /\ 0 + i - 1 = k /\ i \in 1..(8 * n)
    BY <1>4, <1>6, <1>8
  <2> HIDE DEF k
  <2>2. Bit(data, k) = bits[i]
    BY <1>5, <2>1
  <2> QED
    BY <1>6, <1>7, <2>1, <2>2
<1>10. Holds(data, 0, a)
  BY <1>9 DEF Holds, m
<1> QED
  BY <1>6, <1>8, <1>10 DEF m, n

(* process_end_of_image: the words of all blocks are in the bytes of the scan,  *)
(* less than a byte of filling follows them, and then EOI.                      *)
FlushOut(e) == flush_output_buffer(Emit(put_bits(e, [bits |-> 127, size |-> 7]), Marker(217)))
IsWholeScan(data, coded, g) ==
  /\ data \in Data /\ IsCoding(g, coded)
  /\ IsHeld(data, g[Len(coded)])
  /\ 8 * Len(data) < Bitcount(g[Len(coded)].words) + 8
LEMMA EndIsWritten ==
  ASSUME NEW e, NEW start, NEW coded, HasCoded(e, start, coded), Waiting(start) = <<>>
  PROVE  /\ FlushOut(e) \in Encoder
         /\ \E data, g : /\ IsWholeScan(data, coded, g)
                         /\ FlushOut(e).emitted
                              = (start.emitted \o Joined(StuffedByte, data)) \o Marker(217)
<1> DEFINE word == [bits |-> 127, size |-> 7]
           ones == Bits(word.bits, word.size)
           filled == put_bits(e, word)
           end == Marker(217)
           out == Emit(filled, end)
<1>1. PICK g : IsCoding(g, coded) /\ IsBehind(e, start, g[Len(coded)])
  BY DEF HasCoded
<1>2. e \in Encoder /\ start \in Encoder /\ coded \in Seq(CodedBlocks)
  BY DEF HasCoded
<1> DEFINE last == g[Len(coded)]
<1>3. last \in Codings
  <2>1. Len(coded) \in Nat /\ \A n \in 0..Len(coded) : g[n] \in Codings
    BY <1>1, <1>2, CodingType
  <2> QED
    BY <2>1
<1>4. Carried(start, Joined(WordBits, last.words), e)
  BY <1>1 DEF IsBehind
<1>5. word \in CodeWord
  <2>1. 7 \in 0..16 /\ 127 \in Int /\ 0 <= 127 /\ 127 < 2^7
    OBVIOUS
  <2> QED
    BY <2>1 DEF CodeWord
<1>6. ones \in Seq(Binary) /\ Len(ones) = 7
  <2>1. ones = WordBits[word] /\ word.size = 7
    BY <1>5 DEF WordBits
  <2> QED
    BY <1>5, <2>1, WordBitsOf, ZenonT(40)
<1> HIDE DEF word, last
<1>7. filled \in Encoder /\ Carried(e, ones, filled)
  BY <1>2, <1>5, PutBitsKeeps
<1> HIDE DEF ones, filled
<1>8. end \in Seq(Byte)
  BY MarkerType DEF Byte
<1> HIDE DEF end
<1>9. out \in Encoder /\ out.emitted = filled.emitted \o end
  BY <1>7, <1>8, EmitKeeps
<1>10. FlushOut(e) = flush_output_buffer(out)
  BY DEF FlushOut, out, filled, word, end
<1> HIDE DEF out
<1>11. FlushOut(e) \in Encoder /\ FlushOut(e).emitted = filled.emitted \o end
  BY <1>9, <1>10, FlushKeeps
<1> DEFINE a == Joined(WordBits, last.words)
<1>12. a \in Seq(Binary)
  <2>1. last.words \in Seq(CodeWord)
    BY <1>3 DEF Codings, Words
  <2> QED
    BY <2>1, WordsJoined
<1>13. Carried(start, a \o ones, filled)
  <2> HIDE DEF a
  <2>1. Carried(start, a, e)
    BY <1>4 DEF a
  <2> QED
    BY <1>2, <1>6, <1>7, <1>12, <2>1, CarriedOn
<1> HIDE DEF a
<1>14. PICK data \in Seq(Byte) :
         /\ filled.emitted = start.emitted \o Joined(StuffedByte, data)
         /\ Waiting(start) \o (a \o ones) = Joined(ByteBits, data) \o Waiting(filled)
  BY <1>13, Zenon DEF Carried
<1>15. a \o ones = Joined(ByteBits, data) \o Waiting(filled)
  <2>1. a \o ones \in Seq(Binary)
    BY <1>6, <1>12, ConcatParts
  <2>2. <<>> \o (a \o ones) = a \o ones
    BY <2>1, ConcatEmptySeq
  <2> QED
    BY <1>14, <2>2
<1>16. Len(Waiting(filled)) \in 0..7 /\ Waiting(filled) \in Seq(Binary)
  BY <1>7, LessThanByte, WaitingType
<1>17. data \in Data
  BY DEF Data
<1>18. /\ Len(a) <= 8 * Len(data) /\ 8 * Len(data) < Len(a) + 8
       /\ Holds(data, 0, a)
  BY <1>6, <1>12, <1>15, <1>16, <1>17, BytesHold
<1>19. IsWholeScan(data, coded, g)
  BY <1>1, <1>17, <1>18 DEF IsWholeScan, IsHeld, HoldsWords, Bitcount, a, last
<1>20. FlushOut(e).emitted = (start.emitted \o Joined(StuffedByte, data)) \o Marker(217)
  BY <1>11, <1>14 DEF end
<1> QED
  BY <1>11, <1>19, <1>20

================================================================================
